---------------------- MODULE GovernanceDeadlineProofs ----------------------
(***************************************************************************)
(* What holds of the deadline outbox for every set of cases and workers,   *)
(* every batch size and every pattern of faults.                           *)
(***************************************************************************)
EXTENDS GovernanceDeadline, TLAPS

-----------------------------------------------------------------------------
(* Type correctness *)

(* The functions that rewrite a document's schedule return documents.      *)
LEMMA RescheduledType ==
  ASSUME NEW d \in Doc, NEW at \in 0..3
  PROVE  Rescheduled(d, at) \in Doc
<1>1. d.version + 1 \in Nat /\ 0 \in Nat
  BY DEF Doc
<1>. QED
  BY <1>1, ZenonT(60) DEF Rescheduled, Doc

LEMMA ResolvedType ==
  ASSUME NEW d \in Doc, NEW v \in Terminal
  PROVE  Resolved(d, v) \in Doc
<1> DEFINE e == [d EXCEPT !.status = v]
<1>1. e \in Doc /\ e.version = d.version
  BY ZenonT(60) DEF Doc
<1>2. e.version + 1 \in Nat /\ 0 \in Nat /\ 0 \in 0..3
  BY <1>1 DEF Doc
<1>3. Completed(e) \in Doc
  <2> HIDE DEF e
  <2>. QED
    BY <1>1, <1>2, ZenonT(60) DEF Completed, Doc
<1>. QED
  BY <1>3 DEF Resolved

LEMMA ReviewedType ==
  ASSUME NEW d \in Doc
  PROVE  /\ [d EXCEPT !.reviewed = TRUE] \in Doc
         /\ [d EXCEPT !.status = "EMERGENCY", !.reviewed = TRUE] \in Doc
BY ZenonT(60) DEF Doc, Active

LEMMA TransitionType ==
  ASSUME NEW d \in Doc, NEW now
  PROVE  Transition(d, now) \subseteq Doc
<1> DEFINE resolved == {Resolved([d EXCEPT !.reviewed = TRUE], v) : v \in Terminal}
           escalated == Rescheduled([d EXCEPT !.status = "EMERGENCY",
                                              !.reviewed = TRUE], 3)
           kept == Rescheduled([d EXCEPT !.reviewed = TRUE], 2)
<1>0. 2 \in 0..3 /\ 3 \in 0..3
  OBVIOUS
<1>1. resolved \subseteq Doc
  BY ResolvedType, ReviewedType
<1>2. escalated \in Doc
  BY <1>0, RescheduledType, ReviewedType
<1>3. kept \in Doc
  BY <1>0, RescheduledType, ReviewedType
<1>. QED
  BY <1>1, <1>2, <1>3 DEF Transition

(* The steps of a worker's program counter.                                *)
LEMMA IdleType == Idle \in Local
<1>1. None \in Tokens \cup {None} /\ 0 \in 0..3 /\ 0 \in Nat /\ "idle" \in Points
  BY DEF Points
<1>. QED
  BY <1>1, Zenon DEF Idle, Local

LEMMA GotoType ==
  ASSUME TypeOK, NEW w \in Workers, NEW pc \in Points, Goto(w, pc)
  PROVE  loc' \in [Workers -> Local]
<1>1. [loc[w] EXCEPT !.pc = pc] \in Local
  BY Zenon DEF TypeOK, Local
<1>. QED
  BY <1>1, Zenon DEF Goto, TypeOK

LEMMA ReturnType ==
  ASSUME TypeOK, NEW w \in Workers, Return(w)
  PROVE  loc' \in [Workers -> Local]
BY IdleType DEF Return, TypeOK

(* A fresh token is one of the tokens.                                     *)
LEMMA FreshType == Fresh \subseteq Tokens /\ Fresh \cap Used = {}
BY DEF Fresh

(* What a sweep remembers of the cases it picked are deliveries.           *)
LEMMA BatchType ==
  ASSUME TypeOK, NEW S, S \subseteq Cases
  PROVE  {[c |-> c, ver |-> doc[c].version, at |-> doc[c].at] : c \in S}
           \in SUBSET Delivery
<1> SUFFICES ASSUME NEW c \in S
             PROVE  [c |-> c, ver |-> doc[c].version, at |-> doc[c].at] \in Delivery
  OBVIOUS
<1>1. doc[c].version \in Nat /\ doc[c].at \in 0..3
  BY DEF TypeOK, Doc
<1>. QED
  BY <1>1 DEF Delivery

LEMMA BatchJobsType ==
  ASSUME TypeOK, NEW w \in Workers, loc[w].tok \in Tokens
  PROVE  /\ BatchJobs(w) \subseteq Job
         /\ {<<b.c, b.ver>> : b \in loc[w].batch} \subseteq Cases \X Nat
<1>1. loc[w].batch \subseteq Delivery
  BY DEF TypeOK, Local
<1>. QED
  BY <1>1 DEF BatchJobs, Job, Delivery

(* The first and the reading step of both sweeps: the worker takes a token *)
(* or keeps it, and remembers a batch.                                     *)
LEMMA SweepLocType ==
  ASSUME TypeOK, NEW w \in Workers, NEW pc \in Points, NEW S \in SUBSET Delivery,
         NEW t \in Tokens
  PROVE  /\ [loc EXCEPT ![w].pc = pc, ![w].tok = t, ![w].batch = S]
               \in [Workers -> Local]
         /\ [loc EXCEPT ![w].pc = pc, ![w].batch = S] \in [Workers -> Local]
<1>1. /\ [loc[w] EXCEPT !.pc = pc, !.tok = t, !.batch = S] \in Local
      /\ [loc[w] EXCEPT !.pc = pc, !.batch = S] \in Local
  BY Zenon DEF TypeOK, Local
<1>. QED
  BY <1>1, Zenon DEF TypeOK

(* Every writer of documents writes documents.                             *)
LEMMA WriteTypes ==
  ASSUME NEW d \in Doc, NEW t \in Tokens, NEW v \in Nat
  PROVE  /\ [d EXCEPT !.sTok = t, !.sVer = v, !.sLive = TRUE, !.sDel = t] \in Doc
         /\ [d EXCEPT !.published = v, !.dispatch = FALSE, !.sTok = None,
                      !.sVer = None, !.sLive = FALSE, !.sDel = None,
                      !.cAt = "null", !.cDel = t, !.fails = 0] \in Doc
         /\ [d EXCEPT !.sTok = None, !.sVer = None, !.sLive = FALSE,
                      !.sDel = None] \in Doc
         /\ [d EXCEPT !.cTok = t, !.cLive = TRUE, !.cDel = t] \in Doc
         /\ [d EXCEPT !.cAt = "later", !.cTok = None, !.cLive = FALSE] \in Doc
         /\ [d EXCEPT !.cAt = "now", !.cTok = None, !.cLive = FALSE,
                      !.cDel = None] \in Doc
         /\ [d EXCEPT !.eTok = t, !.eVer = v, !.eLive = TRUE] \in Doc
         /\ [d EXCEPT !.eTok = None, !.eVer = None, !.eLive = FALSE] \in Doc
         /\ [d EXCEPT !.sLive = FALSE] \in Doc
         /\ [d EXCEPT !.eLive = FALSE] \in Doc
         /\ [d EXCEPT !.cLive = FALSE] \in Doc
         /\ [d EXCEPT !.cAt = "now"] \in Doc
<1>1. 0 \in Nat
  OBVIOUS
<1>2. [d EXCEPT !.sTok = t, !.sVer = v, !.sLive = TRUE, !.sDel = t] \in Doc
  BY ZenonT(60) DEF Doc
<1>3. [d EXCEPT !.published = v, !.dispatch = FALSE, !.sTok = None,
                !.sVer = None, !.sLive = FALSE, !.sDel = None,
                !.cAt = "null", !.cDel = t, !.fails = 0] \in Doc
  BY <1>1, ZenonT(60) DEF Doc
<1>4. [d EXCEPT !.sTok = None, !.sVer = None, !.sLive = FALSE, !.sDel = None]
        \in Doc
  BY ZenonT(60) DEF Doc
<1>5. [d EXCEPT !.cTok = t, !.cLive = TRUE, !.cDel = t] \in Doc
  BY ZenonT(60) DEF Doc
<1>6. [d EXCEPT !.cAt = "later", !.cTok = None, !.cLive = FALSE] \in Doc
  BY ZenonT(60) DEF Doc
<1>7. [d EXCEPT !.cAt = "now", !.cTok = None, !.cLive = FALSE, !.cDel = None]
        \in Doc
  BY ZenonT(60) DEF Doc
<1>8. [d EXCEPT !.eTok = t, !.eVer = v, !.eLive = TRUE] \in Doc
  BY ZenonT(60) DEF Doc
<1>9. [d EXCEPT !.eTok = None, !.eVer = None, !.eLive = FALSE] \in Doc
  BY ZenonT(60) DEF Doc
<1>10. [d EXCEPT !.sLive = FALSE] \in Doc
  BY ZenonT(60) DEF Doc
<1>11. [d EXCEPT !.eLive = FALSE] \in Doc
  BY ZenonT(60) DEF Doc
<1>12. [d EXCEPT !.cLive = FALSE] \in Doc
  BY ZenonT(60) DEF Doc
<1>13. [d EXCEPT !.cAt = "now"] \in Doc
  BY ZenonT(60) DEF Doc
<1>. QED
  BY <1>2, <1>3, <1>4, <1>5, <1>6, <1>7, <1>8, <1>9, <1>10, <1>11, <1>12, <1>13

LEMMA FailedWriteType ==
  ASSUME NEW d \in Doc
  PROVE  [d EXCEPT !.cAt = "later", !.cTok = None, !.cLive = FALSE,
                   !.cDel = None, !.fails = @ + 1] \in Doc
<1>1. d.fails + 1 \in Nat
  BY DEF Doc
<1>. QED
  BY <1>1, ZenonT(60) DEF Doc

-----------------------------------------------------------------------------
(* A worker that runs a sweep or holds a lease has a token.                *)
TokenHeld ==
  \A w \in Workers :
    loc[w].pc \in SweepPoints \cup {"a_tx", "a_release"} => loc[w].tok \in Tokens

TypeInv == TypeOK /\ TokenHeld

LEMMA InitTypeInv == Init => TypeInv
<1> SUFFICES ASSUME Init PROVE TypeInv
  OBVIOUS
<1>1. NewCase \in Doc
  <2>1. 1 \in 0..3 /\ 1 \in Nat /\ 0 \in Nat
    OBVIOUS
  <2>. QED
    BY <2>1, ZenonT(60) DEF NewCase, Doc, Active
<1>2. TypeOK
  BY <1>1, IdleType DEF Init, TypeOK
<1>3. TokenHeld
  BY DEF Init, TokenHeld, Idle, SweepPoints
<1>. QED
  BY <1>2, <1>3 DEF TypeInv

(* Moving one program counter, or returning, keeps every token held.       *)
LEMMA GotoHeld ==
  ASSUME TypeInv, NEW w \in Workers, NEW pc, Goto(w, pc),
         pc \in SweepPoints \cup {"a_tx", "a_release"} => loc[w].tok \in Tokens
  PROVE  TokenHeld'
BY DEF Goto, TokenHeld, TypeInv, TypeOK, Local

LEMMA ReturnHeld ==
  ASSUME TypeInv, NEW w \in Workers, Return(w)
  PROVE  TokenHeld'
BY DEF Return, Idle, TokenHeld, TypeInv, TypeOK, Local, SweepPoints

LEMMA SweepTypeInv ==
  ASSUME TypeInv, NEW w \in Workers, Sweep(w)
  PROVE  TypeInv'
<1> USE DEF TypeInv
<1>0. \A pc \in SweepPoints : pc \in Points
  BY DEF Points
<1>1. CASE StartPublish(w) \/ StartCompensate(w)
  <2>1. PICK S \in SUBSET Cases, t \in Tokens, pc \in {"p_claim", "c_claim"} :
          /\ loc' = [loc EXCEPT ![w].pc = pc, ![w].tok = t,
                      ![w].batch = {[c |-> c, ver |-> doc[c].version,
                                     at |-> doc[c].at] : c \in S}]
          /\ UNCHANGED <<doc, passed, jobs, faults, delivered>>
    BY <1>1, FreshType DEF StartPublish, StartCompensate, Batches
  <2>2. pc \in SweepPoints
    BY DEF SweepPoints
  <2>3. loc' \in [Workers -> Local]
    BY <2>1, <2>2, <1>0, BatchType, SweepLocType
  <2>4. TokenHeld'
    BY <2>1 DEF TokenHeld, TypeOK, Local
  <2>. QED
    BY <2>1, <2>3, <2>4 DEF TypeOK, faults
<1>2. CASE PublishClaim(w)
  <2>1. loc[w].tok \in Tokens
    BY <1>2 DEF PublishClaim, TokenHeld, SweepPoints
  <2>2. doc' \in [Cases -> Doc]
    <3>1. \A c \in Cases : doc[c] \in Doc /\ doc[c].version \in Nat
      BY DEF TypeOK, Doc
    <3>. QED
      BY <1>2, <2>1, <3>1, WriteTypes, Zenon DEF PublishClaim
  <2>3. loc' \in [Workers -> Local] /\ TokenHeld'
    BY <1>2, <2>1, <1>0, GotoType, GotoHeld DEF PublishClaim, SweepPoints
  <2>. QED
    BY <1>2, <2>2, <2>3 DEF TypeOK, PublishClaim, faults
<1>3. CASE PublishRead(w)
  <2> DEFINE mine == {c \in Cases : doc[c].sTok = loc[w].tok}
             batch == {[c |-> c, ver |-> doc[c].version, at |-> doc[c].at] : c \in mine}
  <2>1. loc[w].tok \in Tokens /\ "p_add" \in SweepPoints
    BY <1>3 DEF PublishRead, TokenHeld, SweepPoints
  <2>2. batch \in SUBSET Delivery
    BY BatchType
  <2>3. CASE Return(w)
    BY <1>3, <2>3, ReturnType, ReturnHeld DEF TypeOK, PublishRead, faults
  <2>4. CASE loc' = [loc EXCEPT ![w].pc = "p_add", ![w].batch = batch]
    <3>1. loc' \in [Workers -> Local]
      BY <2>1, <2>2, <2>4, <1>0, SweepLocType
    <3>2. TokenHeld'
      BY <2>1, <2>4 DEF TokenHeld, TypeOK, Local
    <3>. QED
      BY <1>3, <3>1, <3>2 DEF TypeOK, PublishRead, faults
  <2>. QED
    BY <1>3, <2>3, <2>4 DEF PublishRead
<1>4. CASE AddCaseJobs(w, "p_add", "p_mark")
  <2>1. loc[w].tok \in Tokens /\ "p_mark" \in SweepPoints
    BY <1>4 DEF AddCaseJobs, TokenHeld, SweepPoints
  <2>2. jobs' \subseteq Job /\ delivered' \subseteq Cases \X Nat
    BY <1>4, <2>1, BatchJobsType DEF AddCaseJobs, TypeOK
  <2>3. loc' \in [Workers -> Local] /\ TokenHeld'
    BY <1>4, <2>1, <1>0, GotoType, GotoHeld DEF AddCaseJobs
  <2>. QED
    BY <1>4, <2>2, <2>3 DEF TypeOK, AddCaseJobs, faults
<1>5. CASE PublishMark(w)
  <2>1. loc[w].tok \in Tokens
    BY <1>5 DEF PublishMark, TokenHeld, SweepPoints
  <2>2. doc' \in [Cases -> Doc]
    <3>1. \A c \in Cases : doc[c] \in Doc /\ doc[c].version \in Nat
      BY DEF TypeOK, Doc
    <3>. QED
      BY <1>5, <2>1, <3>1, WriteTypes, Zenon DEF PublishMark
  <2>3. loc' \in [Workers -> Local] /\ TokenHeld'
    BY <1>5, <2>1, <1>0, ReturnType, ReturnHeld DEF PublishMark, SweepPoints
  <2>. QED
    BY <1>5, <2>2, <2>3 DEF TypeOK, PublishMark, faults
<1>6. CASE PublishUndo(w)
  <2>1. loc[w].tok \in Tokens
    BY <1>6 DEF PublishUndo, TokenHeld, SweepPoints
  <2>2. doc' \in [Cases -> Doc]
    <3>1. \A c \in Cases : doc[c] \in Doc /\ doc[c].version \in Nat
      BY DEF TypeOK, Doc
    <3>. QED
      BY <1>6, <2>1, <3>1, WriteTypes, Zenon DEF PublishUndo
  <2>3. loc' \in [Workers -> Local] /\ TokenHeld'
    BY <1>6, <2>1, <1>0, ReturnType, ReturnHeld DEF PublishUndo, SweepPoints
  <2>. QED
    BY <1>6, <2>2, <2>3 DEF TypeOK, PublishUndo, faults
<1>7. CASE CompensateClaim(w)
  <2>1. loc[w].tok \in Tokens
    BY <1>7 DEF CompensateClaim, TokenHeld, SweepPoints
  <2>2. doc' \in [Cases -> Doc]
    <3>1. \A c \in Cases : doc[c] \in Doc /\ doc[c].version \in Nat
      BY DEF TypeOK, Doc
    <3>. QED
      BY <1>7, <2>1, <3>1, WriteTypes, Zenon DEF CompensateClaim
  <2>3. loc' \in [Workers -> Local] /\ TokenHeld'
    BY <1>7, <2>1, <1>0, GotoType, GotoHeld DEF CompensateClaim, SweepPoints
  <2>. QED
    BY <1>7, <2>2, <2>3 DEF TypeOK, CompensateClaim, faults
<1>8. CASE CompensateRead(w)
  <2> DEFINE mine == {c \in Cases : doc[c].cTok = loc[w].tok}
             batch == {[c |-> c, ver |-> doc[c].version, at |-> doc[c].at] : c \in mine}
  <2>1. loc[w].tok \in Tokens /\ "c_add" \in SweepPoints
    BY <1>8 DEF CompensateRead, TokenHeld, SweepPoints
  <2>2. batch \in SUBSET Delivery
    BY BatchType
  <2>3. CASE Return(w)
    BY <1>8, <2>3, ReturnType, ReturnHeld DEF TypeOK, CompensateRead, faults
  <2>4. CASE loc' = [loc EXCEPT ![w].pc = "c_add", ![w].batch = batch]
    <3>1. loc' \in [Workers -> Local]
      BY <2>1, <2>2, <2>4, <1>0, SweepLocType
    <3>2. TokenHeld'
      BY <2>1, <2>4 DEF TokenHeld, TypeOK, Local
    <3>. QED
      BY <1>8, <3>1, <3>2 DEF TypeOK, CompensateRead, faults
  <2>. QED
    BY <1>8, <2>3, <2>4 DEF CompensateRead
<1>9. CASE AddCaseJobs(w, "c_add", "c_mark")
  <2>1. loc[w].tok \in Tokens /\ "c_mark" \in SweepPoints
    BY <1>9 DEF AddCaseJobs, TokenHeld, SweepPoints
  <2>2. jobs' \subseteq Job /\ delivered' \subseteq Cases \X Nat
    BY <1>9, <2>1, BatchJobsType DEF AddCaseJobs, TypeOK
  <2>3. loc' \in [Workers -> Local] /\ TokenHeld'
    BY <1>9, <2>1, <1>0, GotoType, GotoHeld DEF AddCaseJobs
  <2>. QED
    BY <1>9, <2>2, <2>3 DEF TypeOK, AddCaseJobs, faults
<1>10. CASE CompensateMark(w)
  <2>1. loc[w].tok \in Tokens
    BY <1>10 DEF CompensateMark, TokenHeld, SweepPoints
  <2>2. doc' \in [Cases -> Doc]
    <3>1. \A c \in Cases : doc[c] \in Doc /\ doc[c].version \in Nat
      BY DEF TypeOK, Doc
    <3>. QED
      BY <1>10, <2>1, <3>1, WriteTypes, Zenon DEF CompensateMark
  <2>3. loc' \in [Workers -> Local] /\ TokenHeld'
    BY <1>10, <2>1, <1>0, ReturnType, ReturnHeld DEF CompensateMark, SweepPoints
  <2>. QED
    BY <1>10, <2>2, <2>3 DEF TypeOK, CompensateMark, faults
<1>11. CASE CompensateUndo(w)
  <2>1. loc[w].tok \in Tokens
    BY <1>11 DEF CompensateUndo, TokenHeld, SweepPoints
  <2>2. doc' \in [Cases -> Doc]
    <3>1. \A c \in Cases : doc[c] \in Doc /\ doc[c].version \in Nat
      BY DEF TypeOK, Doc
    <3>. QED
      BY <1>11, <2>1, <3>1, WriteTypes, Zenon DEF CompensateUndo
  <2>3. loc' \in [Workers -> Local] /\ TokenHeld'
    BY <1>11, <2>1, <1>0, ReturnType, ReturnHeld DEF CompensateUndo, SweepPoints
  <2>. QED
    BY <1>11, <2>2, <2>3 DEF TypeOK, CompensateUndo, faults
<1>. QED
  BY <1>1, <1>2, <1>3, <1>4, <1>5, <1>6, <1>7, <1>8, <1>9, <1>10, <1>11 DEF Sweep

(* The end of an attempt requeues the job or hands its delivery back.      *)
LEMMA EndAttemptInv ==
  ASSUME TypeInv, NEW w \in Workers, NEW j \in loc[w].job, EndAttempt(w, j)
  PROVE  /\ loc' \in [Workers -> Local] /\ jobs' \subseteq Job
         /\ TokenHeld'
<1>1. j \in Job /\ "f_read" \in Points
  BY DEF TypeInv, TypeOK, Local, Points, JobPoints
<1>2. [j EXCEPT !.att = @ + 1] \in Job
  BY <1>1 DEF Job
<1>3. jobs' \subseteq Job
  BY <1>1, <1>2 DEF EndAttempt, TypeInv, TypeOK
<1>4. loc' \in [Workers -> Local] /\ TokenHeld'
  BY <1>1, GotoType, GotoHeld, ReturnType, ReturnHeld
     DEF EndAttempt, TypeInv, SweepPoints
<1>. QED
  BY <1>3, <1>4

LEMMA ProcessTypeInv ==
  ASSUME TypeInv, NEW w \in Workers, Process(w)
  PROVE  TypeInv'
<1> USE DEF TypeInv
<1>1. CASE LeaseCase(w)
  <2>1. PICK j \in loc[w].job :
          \/ \E t \in Fresh :
               /\ doc' = [doc EXCEPT ![j.c].eTok = t, ![j.c].eVer = j.ver,
                                     ![j.c].eLive = TRUE]
               /\ loc' = [loc EXCEPT ![w].pc = "a_tx", ![w].tok = t,
                                     ![w].now = passed[j.c]]
          \/ Return(w) /\ UNCHANGED doc
    BY <1>1 DEF LeaseCase
  <2>2. j \in Job /\ j.c \in Cases /\ j.ver \in Nat /\ passed[j.c] \in 0..3
    BY DEF TypeOK, Local, Job
  <2>3. CASE Return(w) /\ UNCHANGED doc
    BY <1>1, <2>3, ReturnType, ReturnHeld DEF TypeOK, LeaseCase, faults
  <2>4. ASSUME NEW t \in Fresh,
               doc' = [doc EXCEPT ![j.c].eTok = t, ![j.c].eVer = j.ver,
                                  ![j.c].eLive = TRUE],
               loc' = [loc EXCEPT ![w].pc = "a_tx", ![w].tok = t,
                                  ![w].now = passed[j.c]]
        PROVE  TypeInv'
    <3>1. t \in Tokens /\ "a_tx" \in Points
      BY FreshType DEF Points, JobPoints
    <3>2. doc[j.c] \in Doc
      BY <2>2 DEF TypeOK
    <3>3. [doc[j.c] EXCEPT !.eTok = t, !.eVer = j.ver, !.eLive = TRUE] \in Doc
      BY <2>2, <3>1, <3>2, WriteTypes
    <3>4. doc' \in [Cases -> Doc]
      BY <2>4, <3>3, Zenon DEF TypeOK
    <3>5. [loc[w] EXCEPT !.pc = "a_tx", !.tok = t, !.now = passed[j.c]] \in Local
      BY <2>2, <3>1, Zenon DEF TypeOK, Local
    <3>6. loc' \in [Workers -> Local]
      BY <2>4, <3>5, Zenon DEF TypeOK
    <3>7. TokenHeld'
      BY <2>4, <3>1 DEF TokenHeld, TypeOK, Local
    <3>. QED
      BY <1>1, <3>4, <3>6, <3>7 DEF TypeOK, LeaseCase, faults
  <2>. QED
    BY <2>1, <2>3, <2>4
<1>2. CASE AdvanceClaimedDeadline(w)
  <2>1. PICK j \in loc[w].job :
          \/ \E d \in Transition(doc[j.c], loc[w].now) :
                doc' = [doc EXCEPT ![j.c] = d]
          \/ UNCHANGED doc
    BY <1>2 DEF AdvanceClaimedDeadline
  <2>2. doc[j.c] \in Doc
    BY DEF TypeOK, Local, Job
  <2>3. doc' \in [Cases -> Doc]
    BY <2>1, <2>2, TransitionType DEF TypeOK
  <2>. QED
    BY <1>2, <2>3, ReturnType, ReturnHeld DEF TypeOK, AdvanceClaimedDeadline, faults
<1>3. CASE ReleaseClaim(w)
  <2>1. PICK j \in loc[w].job :
          /\ \/ doc' = [doc EXCEPT ![j.c].eTok = None, ![j.c].eVer = None,
                                   ![j.c].eLive = FALSE]
             \/ doc' = doc
          /\ EndAttempt(w, j)
    BY <1>3, Zenon DEF ReleaseClaim
  <2>2. j.c \in Cases /\ doc[j.c] \in Doc /\ loc[w].tok \in Tokens
    BY <1>3 DEF TypeOK, Local, Job, ReleaseClaim, TokenHeld
  <2>3. [doc[j.c] EXCEPT !.eTok = None, !.eVer = None, !.eLive = FALSE] \in Doc
    BY <2>2, ZenonT(60) DEF Doc
  <2>4. doc' \in [Cases -> Doc]
    BY <2>1, <2>2, <2>3, Zenon DEF TypeOK
  <2>. QED
    BY <1>3, <2>1, <2>4, EndAttemptInv DEF TypeOK, ReleaseClaim, faults
<1>4. CASE FailedRead(w)
  <2>1. PICK j \in loc[w].job :
          \/ loc' = [loc EXCEPT ![w].pc = "f_write", ![w].fails = doc[j.c].fails]
          \/ Return(w)
    BY <1>4 DEF FailedRead
  <2>2. doc[j.c].fails \in Nat /\ "f_write" \in Points
    BY DEF TypeOK, Local, Job, Doc, Points, JobPoints
  <2>3. [loc[w] EXCEPT !.pc = "f_write", !.fails = doc[j.c].fails] \in Local
    BY <2>2, Zenon DEF TypeOK, Local
  <2>4. loc' \in [Workers -> Local]
    BY <2>1, <2>3, ReturnType, Zenon DEF TypeOK
  <2>5. TokenHeld'
    BY <2>1, ReturnHeld DEF TokenHeld, TypeOK, Local, SweepPoints
  <2>. QED
    BY <1>4, <2>4, <2>5 DEF TypeOK, FailedRead, faults
<1>5. CASE FailedWrite(w)
  <2>1. PICK j \in loc[w].job :
          \/ doc' = [doc EXCEPT ![j.c].cAt = "later", ![j.c].cTok = None,
                                ![j.c].cLive = FALSE, ![j.c].cDel = None,
                                ![j.c].fails = @ + 1]
          \/ doc' = doc
    BY <1>5, Zenon DEF FailedWrite
  <2>2. j.c \in Cases /\ doc[j.c] \in Doc
    BY DEF TypeOK, Local, Job
  <2>3. doc' \in [Cases -> Doc]
    BY <2>1, <2>2, FailedWriteType, Zenon DEF TypeOK
  <2>. QED
    BY <1>5, <2>3, ReturnType, ReturnHeld DEF TypeOK, FailedWrite, faults
<1>. QED
  BY <1>1, <1>2, <1>3, <1>4, <1>5 DEF Process

LEMMA TakeJobTypeInv ==
  ASSUME TypeInv, NEW w \in Workers, TakeJob(w)
  PROVE  TypeInv'
<1> USE DEF TypeInv
<1>1. PICK j \in jobs :
        /\ jobs' = jobs \ {j}
        /\ loc' = [loc EXCEPT ![w] = [Idle EXCEPT !.pc = "a_claim",
                                        !.job = {j}, !.owns = TRUE]]
  BY DEF TakeJob
<1>2. "a_claim" \in Points /\ {j} \in SUBSET Job
  BY DEF Points, JobPoints, TypeOK
<1>3. [Idle EXCEPT !.pc = "a_claim", !.job = {j}, !.owns = TRUE] \in Local
  BY <1>2, IdleType, Zenon DEF Local
<1>4. loc' \in [Workers -> Local]
  BY <1>1, <1>3, Zenon DEF TypeOK
<1>5. TokenHeld'
  BY <1>1 DEF TokenHeld, TypeOK, Local, Idle, SweepPoints
<1>. QED
  BY <1>1, <1>4, <1>5 DEF TakeJob, TypeOK, faults

LEMMA FaultTypeInv ==
  ASSUME TypeInv, NEW w \in Workers, Fault(w)
  PROVE  TypeInv'
<1> USE DEF TypeInv
<1>1. \A j \in loc[w].job : Stalled(j) \subseteq Job
  BY DEF Stalled, TypeOK, Local, Job
<1>2. CASE SweepFails(w)
  <2>1. Return(w) \/ Goto(w, "p_undo") \/ Goto(w, "c_undo")
    BY <1>2 DEF SweepFails
  <2>2. loc[w].tok \in Tokens
    BY <1>2 DEF SweepFails, TokenHeld
  <2>3. loc' \in [Workers -> Local] /\ TokenHeld'
    BY <2>1, <2>2, ReturnType, ReturnHeld, GotoType, GotoHeld
       DEF Points, SweepPoints
  <2>. QED
    BY <1>2, <2>3 DEF SweepFails, TypeOK
<1>3. CASE AddFailsAfterAccept(w)
  <2>1. loc[w].tok \in Tokens
    BY <1>3 DEF AddFailsAfterAccept, TokenHeld, SweepPoints
  <2>2. loc' \in [Workers -> Local] /\ TokenHeld'
    BY <1>3, <2>1, GotoType, GotoHeld DEF AddFailsAfterAccept, Points, SweepPoints
  <2>3. jobs' \subseteq Job /\ delivered' \subseteq Cases \X Nat
    BY <1>3, <2>1, BatchJobsType DEF AddFailsAfterAccept, TypeOK
  <2>. QED
    BY <1>3, <2>2, <2>3 DEF AddFailsAfterAccept, TypeOK
<1>4. CASE JobFails(w)
  <2>1. PICK j \in loc[w].job :
          \/ loc[w].pc = "a_tx" /\ Goto(w, "a_release") /\ UNCHANGED jobs
          \/ EndAttempt(w, j)
          \/ Return(w) /\ UNCHANGED jobs
    BY <1>4 DEF JobFails
  <2>2. loc' \in [Workers -> Local] /\ TokenHeld' /\ jobs' \subseteq Job
    <3>1. CASE loc[w].pc = "a_tx" /\ Goto(w, "a_release") /\ UNCHANGED jobs
      BY <3>1, GotoType, GotoHeld DEF Points, JobPoints, TokenHeld, TypeOK
    <3>2. CASE EndAttempt(w, j)
      BY <3>2, EndAttemptInv
    <3>3. CASE Return(w) /\ UNCHANGED jobs
      BY <3>3, ReturnType, ReturnHeld DEF TypeOK
    <3>. QED
      BY <2>1, <3>1, <3>2, <3>3
  <2>. QED
    BY <1>4, <2>2 DEF JobFails, TypeOK
<1>5. CASE Crash(w)
  <2>1. jobs' \subseteq Job
    BY <1>5, <1>1 DEF Crash, TypeOK
  <2>. QED
    BY <1>5, <2>1, ReturnType, ReturnHeld DEF Crash, TypeOK
<1>6. CASE LockLost(w)
  <2>1. jobs' \subseteq Job
    BY <1>6, <1>1 DEF LockLost, TypeOK
  <2>2. [loc[w] EXCEPT !.owns = FALSE] \in Local
    BY Zenon DEF TypeOK, Local
  <2>3. loc' \in [Workers -> Local]
    BY <1>6, <2>2, Zenon DEF LockLost, TypeOK
  <2>4. TokenHeld'
    BY <1>6 DEF LockLost, TokenHeld, TypeOK, Local
  <2>. QED
    BY <1>6, <2>1, <2>3, <2>4 DEF LockLost, TypeOK
<1>. QED
  BY <1>2, <1>3, <1>4, <1>5, <1>6 DEF Fault

LEMMA EnvironmentTypeInv ==
  ASSUME TypeInv, NEW c \in Cases, ResolveCaseForAdmin(c) \/ Time(c)
  PROVE  TypeInv'
<1> USE DEF TypeInv
<1>0. doc[c] \in Doc
  BY DEF TypeOK
<1>1. CASE ResolveCaseForAdmin(c)
  <2>1. doc' \in [Cases -> Doc]
    BY <1>0, <1>1, ResolvedType DEF ResolveCaseForAdmin, TypeOK
  <2>. QED
    BY <1>1, <2>1 DEF ResolveCaseForAdmin, TypeOK, TokenHeld, faults
<1>2. CASE DeadlinePasses(c)
  BY <1>2 DEF DeadlinePasses, TypeOK, TokenHeld, faults
<1>3. CASE \/ ScheduleClaimExpires(c) \/ LeaseExpires(c)
           \/ CompensationClaimExpires(c) \/ CompensationDelayPasses(c)
  <2>1. PICK d \in {[doc[c] EXCEPT !.sLive = FALSE], [doc[c] EXCEPT !.eLive = FALSE],
                    [doc[c] EXCEPT !.cLive = FALSE], [doc[c] EXCEPT !.cAt = "now"]} :
          doc' = [doc EXCEPT ![c] = d]
    BY <1>3, Zenon DEF ScheduleClaimExpires, LeaseExpires, CompensationClaimExpires,
                CompensationDelayPasses
  <2>2. [doc[c] EXCEPT !.sLive = FALSE] \in Doc
    BY <1>0, ZenonT(60) DEF Doc
  <2>3. [doc[c] EXCEPT !.eLive = FALSE] \in Doc
    BY <1>0, ZenonT(60) DEF Doc
  <2>4. [doc[c] EXCEPT !.cLive = FALSE] \in Doc
    BY <1>0, ZenonT(60) DEF Doc
  <2>5. [doc[c] EXCEPT !.cAt = "now"] \in Doc
    BY <1>0, ZenonT(60) DEF Doc
  <2>6. d \in Doc
    BY <2>2, <2>3, <2>4, <2>5
  <2>7. doc' \in [Cases -> Doc]
    BY <2>1, <2>6, Zenon DEF TypeOK
  <2>. QED
    BY <1>3, <2>7 DEF ScheduleClaimExpires, LeaseExpires, CompensationClaimExpires,
                      CompensationDelayPasses, TypeOK, TokenHeld, faults
<1>. QED
  BY <1>1, <1>2, <1>3 DEF Time

LEMMA NextTypeInv == TypeInv /\ [Next]_vars => TypeInv'
<1>1. CASE UNCHANGED vars
  BY <1>1 DEF vars, TypeInv, TypeOK, TokenHeld
<1>. QED
  BY <1>1, SweepTypeInv, TakeJobTypeInv, ProcessTypeInv, FaultTypeInv,
     EnvironmentTypeInv DEF Next

(* Documents, queue and workers keep their types, and a worker inside a    *)
(* sweep or a lease always has the token its conditional writes compare.   *)
THEOREM TypeCorrect == Spec => [](TypeOK /\ TokenHeld)
<1>1. Spec => []TypeInv
  BY InitTypeInv, NextTypeInv, PTL DEF Spec
<1>2. TypeInv => TypeOK /\ TokenHeld
  BY DEF TypeInv
<1>. QED
  BY <1>1, <1>2, PTL

-----------------------------------------------------------------------------
(* Safety: the properties of the deadline outbox, beyond its types.        *)

-----------------------------------------------------------------------------
(* Only the transaction of a leased job and an administrator move a case.  *)

SamePhase(d, e) ==
  /\ e.status = d.status /\ e.reviewed = d.reviewed
  /\ e.at = d.at /\ e.version = d.version

(* The writes of the sweeps, of the leases and of the clock.               *)
LEMMA WritesKeepPhase ==
  ASSUME NEW d \in Doc, NEW t, NEW v, NEW n
  PROVE  /\ SamePhase(d, d)
         /\ SamePhase(d, [d EXCEPT !.sTok = t, !.sVer = v, !.sLive = TRUE, !.sDel = t])
         /\ SamePhase(d, [d EXCEPT !.published = v, !.dispatch = FALSE, !.sTok = None,
                            !.sVer = None, !.sLive = FALSE, !.sDel = None,
                            !.cAt = "null", !.cDel = t, !.fails = 0])
         /\ SamePhase(d, [d EXCEPT !.sTok = None, !.sVer = None, !.sLive = FALSE,
                                   !.sDel = None])
         /\ SamePhase(d, [d EXCEPT !.cTok = t, !.cLive = TRUE, !.cDel = t])
         /\ SamePhase(d, [d EXCEPT !.cAt = "later", !.cTok = None, !.cLive = FALSE])
         /\ SamePhase(d, [d EXCEPT !.cAt = "now", !.cTok = None, !.cLive = FALSE,
                                   !.cDel = None])
         /\ SamePhase(d, [d EXCEPT !.eTok = t, !.eVer = v, !.eLive = TRUE])
         /\ SamePhase(d, [d EXCEPT !.eTok = None, !.eVer = None, !.eLive = FALSE])
         /\ SamePhase(d, [d EXCEPT !.cAt = "later", !.cTok = None, !.cLive = FALSE,
                                   !.cDel = None, !.fails = n])
         /\ SamePhase(d, [d EXCEPT !.sLive = FALSE])
         /\ SamePhase(d, [d EXCEPT !.eLive = FALSE])
         /\ SamePhase(d, [d EXCEPT !.cLive = FALSE])
         /\ SamePhase(d, [d EXCEPT !.cAt = "now"])
BY ZenonT(60) DEF Doc, SamePhase

LEMMA SweepKeepsPhase ==
  ASSUME TypeInv, NEW w \in Workers, Sweep(w)
  PROVE  passed' = passed /\ \A c \in Cases : SamePhase(doc[c], doc'[c])
<1>0. \A c \in Cases : doc[c] \in Doc
  BY DEF TypeInv, TypeOK
<1>1. CASE PublishClaim(w)
  BY <1>0, <1>1, WritesKeepPhase, Zenon DEF PublishClaim
<1>2. CASE PublishMark(w)
  BY <1>0, <1>2, WritesKeepPhase, Zenon DEF PublishMark
<1>3. CASE PublishUndo(w)
  BY <1>0, <1>3, WritesKeepPhase, Zenon DEF PublishUndo
<1>4. CASE CompensateClaim(w)
  BY <1>0, <1>4, WritesKeepPhase, Zenon DEF CompensateClaim
<1>5. CASE CompensateMark(w)
  BY <1>0, <1>5, WritesKeepPhase, Zenon DEF CompensateMark
<1>6. CASE CompensateUndo(w)
  BY <1>0, <1>6, WritesKeepPhase, Zenon DEF CompensateUndo
<1>7. CASE \/ StartPublish(w) \/ PublishRead(w) \/ AddCaseJobs(w, "p_add", "p_mark")
           \/ StartCompensate(w) \/ CompensateRead(w)
           \/ AddCaseJobs(w, "c_add", "c_mark")
  BY <1>7 DEF StartPublish, PublishRead, AddCaseJobs, StartCompensate,
              CompensateRead, SamePhase
<1>. QED
  BY <1>1, <1>2, <1>3, <1>4, <1>5, <1>6, <1>7 DEF Sweep

LEMMA JobKeepsPhase ==
  ASSUME TypeInv, NEW w \in Workers,
         LeaseCase(w) \/ ReleaseClaim(w) \/ FailedRead(w) \/ FailedWrite(w)
           \/ TakeJob(w) \/ Fault(w)
  PROVE  passed' = passed /\ \A c \in Cases : SamePhase(doc[c], doc'[c])
<1>0. /\ \A c \in Cases : doc[c] \in Doc
      /\ \A j \in loc[w].job : j.c \in Cases
      /\ doc \in [Cases -> Doc]
  BY DEF TypeInv, TypeOK, Local, Job
<1>a. ASSUME NEW k \in Cases, NEW e, SamePhase(doc[k], e),
             doc' = [doc EXCEPT ![k] = e]
      PROVE  \A c \in Cases : SamePhase(doc[c], doc'[c])
  BY <1>0, <1>a, WritesKeepPhase
<1>b. doc' = doc => \A c \in Cases : SamePhase(doc[c], doc'[c])
  BY <1>0, WritesKeepPhase
<1>1. CASE LeaseCase(w)
  <2>0. PICK j \in loc[w].job : \E t :
          \/ doc' = [doc EXCEPT ![j.c].eTok = t, ![j.c].eVer = j.ver,
                                ![j.c].eLive = TRUE]
          \/ doc' = doc
    BY <1>1, Zenon DEF LeaseCase
  <2>1. PICK t :
          \/ doc' = [doc EXCEPT ![j.c].eTok = t, ![j.c].eVer = j.ver,
                                ![j.c].eLive = TRUE]
          \/ doc' = doc
    BY <2>0, Zenon
  <2> DEFINE e == [doc[j.c] EXCEPT !.eTok = t, !.eVer = j.ver, !.eLive = TRUE]
  <2>2. SamePhase(doc[j.c], e)
    BY <1>0, WritesKeepPhase, Zenon
  <2>3. doc' = [doc EXCEPT ![j.c] = e] \/ doc' = doc
    BY <2>1, Zenon
  <2>. QED
    BY <1>0, <1>1, <1>a, <1>b, <2>2, <2>3, Zenon DEF LeaseCase
<1>2. CASE ReleaseClaim(w)
  <2>1. PICK j \in loc[w].job :
          \/ doc' = [doc EXCEPT ![j.c].eTok = None, ![j.c].eVer = None,
                                ![j.c].eLive = FALSE]
          \/ doc' = doc
    BY <1>2, Zenon DEF ReleaseClaim
  <2> DEFINE e == [doc[j.c] EXCEPT !.eTok = None, !.eVer = None, !.eLive = FALSE]
  <2>2. SamePhase(doc[j.c], e)
    BY <1>0, WritesKeepPhase, Zenon
  <2>3. doc' = [doc EXCEPT ![j.c] = e] \/ doc' = doc
    BY <2>1, Zenon
  <2>. QED
    BY <1>0, <1>2, <1>a, <1>b, <2>2, <2>3, Zenon DEF ReleaseClaim
<1>3. CASE FailedWrite(w)
  <2>1. PICK j \in loc[w].job :
          \/ doc' = [doc EXCEPT ![j.c].cAt = "later", ![j.c].cTok = None,
                                ![j.c].cLive = FALSE, ![j.c].cDel = None,
                                ![j.c].fails = @ + 1]
          \/ doc' = doc
    BY <1>3, Zenon DEF FailedWrite
  <2> DEFINE e == [doc[j.c] EXCEPT !.cAt = "later", !.cTok = None, !.cLive = FALSE,
                                   !.cDel = None, !.fails = @ + 1]
  <2>2. SamePhase(doc[j.c], e)
    BY <1>0, WritesKeepPhase, Zenon
  <2>3. doc' = [doc EXCEPT ![j.c] = e] \/ doc' = doc
    BY <2>1, Zenon
  <2>. QED
    BY <1>0, <1>3, <1>a, <1>b, <2>2, <2>3, Zenon DEF FailedWrite
<1>4. CASE FailedRead(w) \/ TakeJob(w)
  BY <1>4 DEF FailedRead, TakeJob, SamePhase
<1>5. CASE Fault(w)
  BY <1>5 DEF Fault, SweepFails, AddFailsAfterAccept, JobFails, Crash, LockLost,
              SamePhase
<1>. QED
  BY <1>1, <1>2, <1>3, <1>4, <1>5

LEMMA TimeKeepsPhase ==
  ASSUME TypeInv, NEW k \in Cases, Time(k)
  PROVE  /\ \A c \in Cases : SamePhase(doc[c], doc'[c])
         /\ DeadlinePasses(k) \/ passed' = passed
<1>0. doc \in [Cases -> Doc]
  BY DEF TypeInv, TypeOK
<1>1. CASE DeadlinePasses(k)
  BY <1>1 DEF DeadlinePasses, SamePhase
<1>2. CASE ScheduleClaimExpires(k)
  BY <1>0, <1>2, WritesKeepPhase, Zenon DEF ScheduleClaimExpires
<1>3. CASE LeaseExpires(k)
  BY <1>0, <1>3, WritesKeepPhase, Zenon DEF LeaseExpires
<1>4. CASE CompensationClaimExpires(k)
  BY <1>0, <1>4, WritesKeepPhase, Zenon DEF CompensationClaimExpires
<1>5. CASE CompensationDelayPasses(k)
  BY <1>0, <1>5, WritesKeepPhase, Zenon DEF CompensationDelayPasses
<1>. QED
  BY <1>1, <1>2, <1>3, <1>4, <1>5 DEF Time

-----------------------------------------------------------------------------
(* The outbox implements the case timeline                                 *)

(* The schedule of a case always names the deadline that ends its phase;   *)
(* a worker processes one job at a time and never acts on a later time     *)
(* than the present.                                                       *)
AtPhase(d) ==
  /\ d.at = IF d.status \in Terminal THEN 0
            ELSE Timeline!NextDeadline(d.status, d.reviewed)
  /\ d.status = "EMERGENCY" => d.reviewed = TRUE

ClockRead ==
  \A w \in Workers : loc[w].pc = "a_tx" =>
    \A j \in loc[w].job : loc[w].now <= passed[j.c]

OneJob(w) == \A j, k \in loc[w].job : j = k

PhaseInv ==
  /\ TypeInv
  /\ \A c \in Cases : AtPhase(doc[c])
  /\ \A w \in Workers : OneJob(w)
  /\ ClockRead

LEMMA RescheduledFields ==
  ASSUME NEW d \in Doc, NEW at \in 0..3
  PROVE  LET e == Rescheduled(d, at)
         IN  e.status = d.status /\ e.reviewed = d.reviewed /\ e.at = at
BY ZenonT(60) DEF Rescheduled, Doc

LEMMA ResolvedFields ==
  ASSUME NEW d \in Doc, NEW v \in Terminal
  PROVE  LET e == Resolved(d, v)
         IN  e.status = v /\ e.reviewed = d.reviewed /\ e.at = 0
<1> DEFINE f == [d EXCEPT !.status = v]
<1>1. f \in Doc /\ f.status = v /\ f.reviewed = d.reviewed
  BY ZenonT(60) DEF Doc
<1>2. /\ Completed(f).status = f.status /\ Completed(f).reviewed = f.reviewed
      /\ Completed(f).at = 0
  <2> HIDE DEF f
  <2>. QED
    BY <1>1, ZenonT(60) DEF Completed, Doc
<1>. QED
  BY <1>1, <1>2 DEF Resolved

(* What the deadline transaction makes of a due case.                      *)
LEMMA TransitionPhase ==
  ASSUME NEW d \in Doc, AtPhase(d), d.status \in Active,
         NEW now \in 0..3, d.at <= now,
         NEW e \in Transition(d, now)
  PROVE  /\ AtPhase(e)
         /\ \/ /\ d.status = "OPEN" /\ d.reviewed = FALSE /\ now >= 1
               /\ e.reviewed = TRUE
               /\ \/ e.status \in {"OPEN"} \cup Terminal
                  \/ e.status = "EMERGENCY" /\ now >= 2
            \/ /\ d.status = "OPEN" /\ d.reviewed = TRUE /\ now >= 2
               /\ e.status = "EMERGENCY" /\ e.reviewed = TRUE
            \/ /\ d.status = "EMERGENCY" /\ now >= 3
               /\ e.status \in Terminal /\ e.reviewed = d.reviewed
<1> DEFINE seen == [d EXCEPT !.reviewed = TRUE]
           urgent == [d EXCEPT !.status = "EMERGENCY", !.reviewed = TRUE]
           resolved == {Resolved(seen, v) : v \in Terminal}
<1>1. /\ seen \in Doc /\ seen.status = d.status /\ seen.reviewed = TRUE
      /\ urgent \in Doc /\ urgent.status = "EMERGENCY" /\ urgent.reviewed = TRUE
      /\ d.reviewed \in BOOLEAN
  BY ReviewedType, ZenonT(60) DEF Doc
<1>2. \A v \in Terminal : Resolved(seen, v).status \in Terminal /\
          Resolved(seen, v).reviewed = TRUE /\ Resolved(seen, v).at = 0
  <2> HIDE DEF seen
  <2>. QED
    BY <1>1, ResolvedFields
<1>3. e \in resolved =>
        e.status \in Terminal /\ e.reviewed = TRUE /\ AtPhase(e)
  BY <1>2 DEF AtPhase, Terminal
<1>4. LET f == Rescheduled(urgent, 3)
      IN  f.status = "EMERGENCY" /\ f.reviewed = TRUE /\ f.at = 3
  BY <1>1, RescheduledFields, 3 \in 0..3
<1>5. LET f == Rescheduled(seen, 2)
      IN  f.status = d.status /\ f.reviewed = TRUE /\ f.at = 2
  BY <1>1, RescheduledFields, 2 \in 0..3
<1>6. e = Rescheduled(urgent, 3) =>
        e.status = "EMERGENCY" /\ e.reviewed = TRUE /\ AtPhase(e)
  <2> HIDE DEF urgent
  <2>. QED
    BY <1>4 DEF AtPhase, Terminal, Timeline!NextDeadline
<1>7. e = Rescheduled(seen, 2) /\ d.status = "OPEN" =>
        e.status = "OPEN" /\ e.reviewed = TRUE /\ AtPhase(e)
  <2> HIDE DEF seen
  <2>. QED
    BY <1>5 DEF AtPhase, Terminal, Timeline!NextDeadline
<1>8. d.status = "OPEN" \/ d.status = "EMERGENCY"
  BY DEF Active
<1>9. d.at = IF d.status = "EMERGENCY" THEN 3 ELSE IF d.reviewed THEN 2 ELSE 1
  BY <1>8 DEF AtPhase, Timeline!NextDeadline, Terminal
<1>10. CASE d.status = "OPEN" /\ d.reviewed = FALSE
  <2>1. \/ e \in resolved
        \/ now >= 2 /\ e = Rescheduled(urgent, 3)
        \/ e = Rescheduled(seen, 2)
    BY <1>10, Zenon DEF Transition
  <2>2. now >= 1
    BY <1>9, <1>10
  <2> HIDE DEF seen, urgent, resolved
  <2>. QED
    BY <1>3, <1>6, <1>7, <1>10, <2>1, <2>2
<1>11. CASE d.status = "OPEN" /\ d.reviewed = TRUE
  <2>1. e = Rescheduled(urgent, 3)
    BY <1>11, Zenon DEF Transition
  <2>2. now >= 2
    BY <1>9, <1>11
  <2> HIDE DEF seen, urgent, resolved
  <2>. QED
    BY <1>6, <1>11, <2>1, <2>2
<1>12. CASE d.status = "EMERGENCY"
  <2>1. e \in resolved
    BY <1>12, Zenon DEF Transition
  <2>2. now >= 3 /\ d.reviewed = TRUE
    BY <1>9, <1>12 DEF AtPhase
  <2> HIDE DEF seen, urgent, resolved
  <2>. QED
    BY <1>3, <1>12, <2>1, <2>2
<1>. QED
  BY <1>1, <1>8, <1>10, <1>11, <1>12

(* Only LeaseCase enters the transaction, with the clock it has just read. *)
SameAttempt(l, m) == m.pc = l.pc /\ m.now = l.now /\ m.job = l.job /\ m.tok = l.tok

OutsideTx(w) ==
  /\ loc'[w].pc # "a_tx"
  /\ loc'[w].job = loc[w].job \/ \E j : loc'[w].job \subseteq {j}

LEMMA GotoOutside ==
  ASSUME TypeInv, NEW w \in Workers, NEW pc, pc # "a_tx", Goto(w, pc)
  PROVE  OutsideTx(w) /\ \A v \in Workers \ {w} : loc'[v] = loc[v]
BY DEF Goto, OutsideTx, TypeInv, TypeOK, Local

LEMMA ReturnOutside ==
  ASSUME TypeInv, NEW w \in Workers, Return(w)
  PROVE  OutsideTx(w) /\ \A v \in Workers \ {w} : loc'[v] = loc[v]
BY DEF Return, Idle, OutsideTx, TypeInv, TypeOK, Local

LEMMA SweepOutside ==
  ASSUME TypeInv, NEW w \in Workers, Sweep(w)
  PROVE  OutsideTx(w) /\ \A v \in Workers \ {w} : loc'[v] = loc[v]
<1>1. CASE StartPublish(w) \/ StartCompensate(w)
  <2>1. PICK S \in SUBSET Cases, t \in Tokens, pc \in {"p_claim", "c_claim"} :
          loc' = [loc EXCEPT ![w].pc = pc, ![w].tok = t,
                    ![w].batch = {[c |-> c, ver |-> doc[c].version,
                                   at |-> doc[c].at] : c \in S}]
    BY <1>1, FreshType DEF StartPublish, StartCompensate, Batches
  <2>. QED
    BY <2>1 DEF OutsideTx, TypeInv, TypeOK, Local
<1>2. CASE PublishRead(w) \/ CompensateRead(w)
  <2>1. CASE Return(w)
    BY <2>1, ReturnOutside
  <2>2. ASSUME NEW S, NEW pc \in {"p_add", "c_add"},
               loc' = [loc EXCEPT ![w].pc = pc, ![w].batch = S]
        PROVE  OutsideTx(w) /\ \A v \in Workers \ {w} : loc'[v] = loc[v]
    BY <2>2 DEF OutsideTx, TypeInv, TypeOK, Local
  <2>. QED
    BY <1>2, <2>1, <2>2 DEF PublishRead, CompensateRead
<1>3. CASE \/ PublishClaim(w) \/ AddCaseJobs(w, "p_add", "p_mark")
           \/ CompensateClaim(w) \/ AddCaseJobs(w, "c_add", "c_mark")
  BY <1>3, GotoOutside DEF PublishClaim, AddCaseJobs, CompensateClaim
<1>4. CASE PublishMark(w) \/ PublishUndo(w) \/ CompensateMark(w) \/ CompensateUndo(w)
  BY <1>4, ReturnOutside DEF PublishMark, PublishUndo, CompensateMark, CompensateUndo
<1>. QED
  BY <1>1, <1>2, <1>3, <1>4 DEF Sweep

LEMMA EndAttemptOutside ==
  ASSUME TypeInv, NEW w \in Workers, NEW j, EndAttempt(w, j)
  PROVE  OutsideTx(w) /\ \A v \in Workers \ {w} : loc'[v] = loc[v]
BY GotoOutside, ReturnOutside DEF EndAttempt

LEMMA JobLocal ==
  ASSUME TypeInv, NEW w \in Workers, Process(w) \/ TakeJob(w) \/ Fault(w)
  PROVE  /\ \A v \in Workers \ {w} : loc'[v] = loc[v]
         /\ \/ OutsideTx(w)
            \/ SameAttempt(loc[w], loc'[w])
            \/ /\ LeaseCase(w)
               /\ \E j \in loc[w].job : loc'[w].now = passed[j.c]
               /\ loc'[w].job = loc[w].job
<1>1. CASE LeaseCase(w)
  <2>0. PICK j \in loc[w].job : \E t :
          \/ loc' = [loc EXCEPT ![w].pc = "a_tx", ![w].tok = t,
                                ![w].now = passed[j.c]]
          \/ Return(w)
    BY <1>1, Zenon DEF LeaseCase
  <2>1. PICK t :
          \/ loc' = [loc EXCEPT ![w].pc = "a_tx", ![w].tok = t,
                                ![w].now = passed[j.c]]
          \/ Return(w)
    BY <2>0, Zenon
  <2>2. CASE Return(w)
    BY <2>2, ReturnOutside
  <2>3. CASE loc' = [loc EXCEPT ![w].pc = "a_tx", ![w].tok = t,
                                ![w].now = passed[j.c]]
    BY <1>1, <2>3 DEF TypeInv, TypeOK, Local
  <2>. QED
    BY <2>1, <2>2, <2>3
<1>2. CASE AdvanceClaimedDeadline(w) \/ FailedWrite(w)
  BY <1>2, ReturnOutside DEF AdvanceClaimedDeadline, FailedWrite
<1>3. CASE ReleaseClaim(w)
  BY <1>3, EndAttemptOutside DEF ReleaseClaim
<1>4. CASE FailedRead(w)
  <2>1. PICK n : Return(w) \/ loc' = [loc EXCEPT ![w].pc = "f_write", ![w].fails = n]
    BY <1>4, Zenon DEF FailedRead
  <2>2. CASE Return(w)
    BY <2>2, ReturnOutside
  <2>3. CASE loc' = [loc EXCEPT ![w].pc = "f_write", ![w].fails = n]
    BY <2>3 DEF OutsideTx, TypeInv, TypeOK, Local
  <2>. QED
    BY <2>1, <2>2, <2>3
<1>5. CASE TakeJob(w)
  <2>1. PICK j : loc' = [loc EXCEPT ![w] = [Idle EXCEPT !.pc = "a_claim",
                                              !.job = {j}, !.owns = TRUE]]
    BY <1>5, Zenon DEF TakeJob
  <2>. QED
    BY <2>1 DEF OutsideTx, Idle, TypeInv, TypeOK, Local
<1>6. CASE SweepFails(w) \/ Crash(w)
  <2>1. Return(w) \/ Goto(w, "p_undo") \/ Goto(w, "c_undo")
    BY <1>6 DEF SweepFails, Crash
  <2>. QED
    BY <2>1, ReturnOutside, GotoOutside
<1>7. CASE AddFailsAfterAccept(w)
  BY <1>7, GotoOutside DEF AddFailsAfterAccept
<1>8. CASE JobFails(w)
  <2>1. PICK j : Goto(w, "a_release") \/ EndAttempt(w, j) \/ Return(w)
    BY <1>8, Zenon DEF JobFails
  <2>. QED
    BY <2>1, ReturnOutside, GotoOutside, EndAttemptOutside
<1>9. CASE LockLost(w)
  BY <1>9 DEF LockLost, SameAttempt, TypeInv, TypeOK, Local
<1>. QED
  BY <1>1, <1>2, <1>3, <1>4, <1>5, <1>6, <1>7, <1>8, <1>9 DEF Process, Fault

(* A job's steps keep the clock read and the single job; nothing else      *)
(* touches a worker, and time only moves forward.                          *)
LEMMA KeepsClockRead ==
  ASSUME PhaseInv, NEW w \in Workers, passed' = passed,
         Sweep(w) \/ Process(w) \/ TakeJob(w) \/ Fault(w)
  PROVE  ClockRead' /\ \A v \in Workers : OneJob(v)'
<1>0. TypeInv
  BY DEF PhaseInv
<1>1. /\ \A v \in Workers \ {w} : loc'[v] = loc[v]
      /\ \/ OutsideTx(w)
         \/ SameAttempt(loc[w], loc'[w])
         \/ /\ LeaseCase(w)
            /\ \E j \in loc[w].job : loc'[w].now = passed[j.c]
            /\ loc'[w].job = loc[w].job
  BY <1>0, SweepOutside, JobLocal
<1>2. \A j \in loc[w].job : passed[j.c] \in 0..3
  BY <1>0 DEF TypeInv, TypeOK, Local, Job
<1>3. ClockRead'
  <2>1. \A v \in Workers \ {w} : loc'[v].pc = "a_tx" =>
          \A j \in loc'[v].job : loc'[v].now <= passed'[j.c]
    BY <1>1 DEF PhaseInv, ClockRead
  <2>2. loc'[w].pc = "a_tx" => \A j \in loc'[w].job : loc'[w].now <= passed'[j.c]
    BY <1>1, <1>2 DEF PhaseInv, ClockRead, OutsideTx, SameAttempt, OneJob
  <2>. QED
    BY <2>1, <2>2 DEF ClockRead
<1>4. \A v \in Workers : OneJob(v)'
  BY <1>1 DEF PhaseInv, OneJob, OutsideTx, SameAttempt
<1>. QED
  BY <1>3, <1>4

LEMMA SamePhaseKeepsAtPhase ==
  ASSUME \A c \in Cases : AtPhase(doc[c]),
         \A c \in Cases : SamePhase(doc[c], doc'[c])
  PROVE  \A c \in Cases : AtPhase(doc'[c])
BY DEF AtPhase, SamePhase

LEMMA InitPhaseInv == Init => PhaseInv
<1> SUFFICES ASSUME Init PROVE PhaseInv
  OBVIOUS
<1>1. TypeInv
  BY InitTypeInv
<1>2. \A c \in Cases : AtPhase(doc[c])
  BY DEF Init, NewCase, AtPhase, Terminal, Timeline!NextDeadline
<1>3. \A w \in Workers : OneJob(w)
  BY DEF Init, Idle, OneJob
<1>4. ClockRead
  BY DEF Init, Idle, ClockRead
<1>. QED
  BY <1>1, <1>2, <1>3, <1>4 DEF PhaseInv

(* The two steps that move a case, seen from its document.                 *)
LEMMA AdvanceMoves ==
  ASSUME PhaseInv, NEW w \in Workers, AdvanceClaimedDeadline(w)
  PROVE  /\ passed' = passed
         /\ \/ doc' = doc
            \/ \E c \in Cases : \E e \in Transition(doc[c], loc[w].now) :
                 /\ doc' = [doc EXCEPT ![c] = e]
                 /\ doc[c] \in Doc /\ doc[c].status \in Active
                 /\ loc[w].now \in 0..3 /\ passed[c] \in 0..3
                 /\ doc[c].at <= loc[w].now /\ loc[w].now <= passed[c]
<1>1. PICK j \in loc[w].job :
        \/ doc' = doc
        \/ /\ LeaseHeld(doc[j.c], j, loc[w].tok, loc[w].now)
           /\ \E e \in Transition(doc[j.c], loc[w].now) :
                doc' = [doc EXCEPT ![j.c] = e]
  BY Zenon DEF AdvanceClaimedDeadline
<1>2. /\ j.c \in Cases /\ doc[j.c] \in Doc /\ loc[w].now \in 0..3
      /\ passed[j.c] \in 0..3
  BY DEF PhaseInv, TypeInv, TypeOK, Local, Job
<1>3. loc[w].now <= passed[j.c]
  BY DEF PhaseInv, ClockRead, AdvanceClaimedDeadline
<1>4. LeaseHeld(doc[j.c], j, loc[w].tok, loc[w].now) =>
        doc[j.c].status \in Active /\ doc[j.c].at <= loc[w].now
  BY DEF LeaseHeld
<1>. QED
  BY <1>1, <1>2, <1>3, <1>4, Zenon DEF AdvanceClaimedDeadline

LEMMA AdminMoves ==
  ASSUME PhaseInv, NEW c \in Cases, ResolveCaseForAdmin(c)
  PROVE  /\ passed' = passed /\ passed[c] \in 0..3
         /\ doc[c].status \in Active
         /\ passed[c] < Timeline!NextDeadline(doc[c].status, doc[c].reviewed)
         /\ \E e : /\ doc' = [doc EXCEPT ![c] = e] /\ AtPhase(e)
                   /\ e.status \in Terminal /\ e.reviewed = doc[c].reviewed
<1>1. doc[c] \in Doc /\ passed[c] \in 0..3 /\ AtPhase(doc[c])
  BY DEF PhaseInv, TypeInv, TypeOK
<1>2. PICK v \in Terminal : doc' = [doc EXCEPT ![c] = Resolved(@, v)]
  BY DEF ResolveCaseForAdmin
<1>3. LET e == Resolved(doc[c], v)
      IN  e.status = v /\ e.reviewed = doc[c].reviewed /\ e.at = 0
  BY <1>1, ResolvedFields
<1>4. AtPhase(Resolved(doc[c], v))
  BY <1>3 DEF AtPhase, Terminal
<1>5. /\ doc[c].status \in Active
      /\ passed[c] < Timeline!NextDeadline(doc[c].status, doc[c].reviewed)
  BY <1>1 DEF ResolveCaseForAdmin, Due, AtPhase, Timeline!NextDeadline,
              Active, Terminal
<1>. QED
  BY <1>1, <1>2, <1>3, <1>4, <1>5 DEF ResolveCaseForAdmin

LEMMA NextPhaseInv == PhaseInv /\ [Next]_vars => PhaseInv'
<1> SUFFICES ASSUME PhaseInv, [Next]_vars PROVE PhaseInv'
  OBVIOUS
<1>0. TypeInv /\ TypeInv' /\ \A c \in Cases : AtPhase(doc[c])
  BY NextTypeInv DEF PhaseInv
<1>1. CASE UNCHANGED vars
  BY <1>0, <1>1 DEF vars, PhaseInv, OneJob, ClockRead
<1>2. ASSUME NEW w \in Workers, AdvanceClaimedDeadline(w)
      PROVE  PhaseInv'
  <2>1. ASSUME NEW c \in Cases, NEW e \in Transition(doc[c], loc[w].now),
               doc' = [doc EXCEPT ![c] = e],
               doc[c] \in Doc, doc[c].status \in Active,
               loc[w].now \in 0..3, doc[c].at <= loc[w].now
        PROVE  \A k \in Cases : AtPhase(doc'[k])
    <3>1. AtPhase(e)
      BY <1>0, <2>1, TransitionPhase
    <3>. QED
      BY <1>0, <2>1, <3>1 DEF TypeInv, TypeOK
  <2>2. \A c \in Cases : AtPhase(doc'[c])
    BY <1>0, <1>2, <2>1, AdvanceMoves
  <2>. QED
    BY <1>0, <1>2, <2>2, AdvanceMoves, KeepsClockRead DEF PhaseInv, Process
<1>3. ASSUME NEW w \in Workers,
             Sweep(w) \/ LeaseCase(w) \/ ReleaseClaim(w) \/ FailedRead(w)
               \/ FailedWrite(w) \/ TakeJob(w) \/ Fault(w)
      PROVE  PhaseInv'
  BY <1>0, <1>3, SweepKeepsPhase, JobKeepsPhase, SamePhaseKeepsAtPhase,
     KeepsClockRead DEF PhaseInv, Process
<1>4. ASSUME NEW c \in Cases, ResolveCaseForAdmin(c)
      PROVE  PhaseInv'
  <2>1. \A k \in Cases : AtPhase(doc'[k])
    BY <1>0, <1>4, AdminMoves DEF TypeInv, TypeOK
  <2>. QED
    BY <1>0, <1>4, <2>1 DEF PhaseInv, ResolveCaseForAdmin, OneJob, ClockRead
<1>5. ASSUME NEW c \in Cases, Time(c)
      PROVE  PhaseInv'
  <2>1. \A k \in Cases : AtPhase(doc'[k])
    BY <1>0, <1>5, TimeKeepsPhase, SamePhaseKeepsAtPhase
  <2>2. loc' = loc
    BY <1>5 DEF Time, DeadlinePasses, ScheduleClaimExpires, LeaseExpires,
                CompensationClaimExpires, CompensationDelayPasses
  <2>3. \A k \in Cases : passed'[k] \in 0..3 /\ passed[k] \in 0..3 /\ passed[k] <= passed'[k]
    BY <1>0, <1>5, TimeKeepsPhase DEF DeadlinePasses, TypeInv, TypeOK
  <2>4. ClockRead'
    <3>1. \A w \in Workers : loc[w].now \in 0..3 /\ \A j \in loc[w].job : j.c \in Cases
      BY <1>0 DEF TypeInv, TypeOK, Local, Job
    <3>. QED
      BY <2>2, <2>3, <3>1 DEF PhaseInv, ClockRead
  <2>. QED
    BY <1>0, <2>1, <2>2, <2>4 DEF PhaseInv, OneJob
<1>. QED
  BY <1>1, <1>2, <1>3, <1>4, <1>5 DEF Next, Process

LEMMA NextTimeline ==
  PhaseInv /\ [Next]_vars => [Timeline!Next]_(Timeline!vars)
<1> SUFFICES ASSUME PhaseInv, [Next]_vars, ~ UNCHANGED Timeline!vars
             PROVE  Timeline!Next
  OBVIOUS
<1> USE DEF Timeline!vars
<1>0. doc \in [Cases -> Doc] /\ passed \in [Cases -> 0..3] /\ TypeInv
      /\ doc' \in [Cases -> Doc] /\ \A c \in Cases : AtPhase(doc[c])
  BY NextTypeInv DEF PhaseInv, TypeInv, TypeOK
<1>1. (\A c \in Cases : SamePhase(doc[c], doc'[c])) =>
        /\ [c \in Cases |-> doc[c].status]' = [c \in Cases |-> doc[c].status]
        /\ [c \in Cases |-> doc[c].reviewed]' = [c \in Cases |-> doc[c].reviewed]
  BY DEF SamePhase
<1>2. ASSUME NEW w \in Workers, AdvanceClaimedDeadline(w)
      PROVE  Timeline!Next
  <2>1. doc' # doc
    BY <1>2, AdvanceMoves
  <2>2. PICK c \in Cases : \E f \in Transition(doc[c], loc[w].now) :
          /\ doc' = [doc EXCEPT ![c] = f]
          /\ doc[c] \in Doc /\ doc[c].status \in Active
          /\ loc[w].now \in 0..3 /\ passed[c] \in 0..3
          /\ doc[c].at <= loc[w].now /\ loc[w].now <= passed[c]
    BY <1>2, <2>1, AdvanceMoves
  <2>e. PICK e \in Transition(doc[c], loc[w].now) : doc' = [doc EXCEPT ![c] = e]
    BY <2>2
  <2>3. /\ [k \in Cases |-> doc[k].status]' =
             [[k \in Cases |-> doc[k].status] EXCEPT ![c] = e.status]
        /\ [k \in Cases |-> doc[k].reviewed]' =
             [[k \in Cases |-> doc[k].reviewed] EXCEPT ![c] = e.reviewed]
        /\ passed' = passed
    BY <1>0, <1>2, <2>e, AdvanceMoves
  <2>4. AtPhase(doc[c])
    BY <1>0
  <2>5. \/ /\ doc[c].status = "OPEN" /\ doc[c].reviewed = FALSE /\ loc[w].now >= 1
           /\ e.reviewed = TRUE
           /\ \/ e.status \in {"OPEN"} \cup Terminal
              \/ e.status = "EMERGENCY" /\ loc[w].now >= 2
        \/ /\ doc[c].status = "OPEN" /\ doc[c].reviewed = TRUE /\ loc[w].now >= 2
           /\ e.status = "EMERGENCY" /\ e.reviewed = TRUE
        \/ /\ doc[c].status = "EMERGENCY" /\ loc[w].now >= 3
           /\ e.status \in Terminal /\ e.reviewed = doc[c].reviewed
    BY <2>2, <2>4, TransitionPhase
  <2>6. CASE /\ doc[c].status = "OPEN" /\ doc[c].reviewed = FALSE /\ loc[w].now >= 1
             /\ e.reviewed = TRUE
             /\ \/ e.status \in {"OPEN"} \cup Terminal
                \/ e.status = "EMERGENCY" /\ loc[w].now >= 2
    <3>0. /\ passed[c] >= 1
          /\ e.status \in {"OPEN"} \cup Timeline!Terminal
                         \cup (IF passed[c] >= 2 THEN {"EMERGENCY"} ELSE {})
      BY <2>2, <2>6 DEF Timeline!Terminal, Terminal
    <3>1. Timeline!FirstReview(c)
      BY <2>3, <2>6, <3>0, Zenon DEF Timeline!FirstReview
    <3>. QED
      BY <3>1 DEF Timeline!Next
  <2>7. CASE /\ doc[c].status = "OPEN" /\ doc[c].reviewed = TRUE /\ loc[w].now >= 2
             /\ e.status = "EMERGENCY" /\ e.reviewed = TRUE
    <3>1. [k \in Cases |-> doc[k].reviewed]' = [k \in Cases |-> doc[k].reviewed]
      BY <2>3, <2>7
    <3>2. Timeline!Escalate(c)
      BY <2>2, <2>3, <2>7, <3>1 DEF Timeline!Escalate
    <3>. QED
      BY <3>2 DEF Timeline!Next
  <2>8. CASE /\ doc[c].status = "EMERGENCY" /\ loc[w].now >= 3
             /\ e.status \in Terminal /\ e.reviewed = doc[c].reviewed
    <3>1. [k \in Cases |-> doc[k].reviewed]' = [k \in Cases |-> doc[k].reviewed]
      BY <2>3, <2>8
    <3>0. passed[c] >= 3 /\ e.status \in Timeline!Terminal
      BY <2>2, <2>8 DEF Timeline!Terminal, Terminal
    <3>2. Timeline!FinalReview(c)
      BY <2>3, <2>8, <3>0, <3>1, Zenon DEF Timeline!FinalReview
    <3>. QED
      BY <3>2 DEF Timeline!Next
  <2>. QED
    BY <2>5, <2>6, <2>7, <2>8
<1>3. ASSUME NEW c \in Cases, ResolveCaseForAdmin(c)
      PROVE  Timeline!Next
  <2>1. PICK e : /\ doc' = [doc EXCEPT ![c] = e]
                 /\ e.status \in Terminal /\ e.reviewed = doc[c].reviewed
    BY <1>3, AdminMoves
  <2>2. /\ [k \in Cases |-> doc[k].status]' =
             [[k \in Cases |-> doc[k].status] EXCEPT ![c] = e.status]
        /\ [k \in Cases |-> doc[k].reviewed]' = [k \in Cases |-> doc[k].reviewed]
    BY <1>0, <2>1
  <2>3. Timeline!AdminResolves(c)
    BY <1>3, <2>1, <2>2, AdminMoves
       DEF Timeline!AdminResolves, Timeline!Active, Active, Timeline!Terminal, Terminal
  <2>. QED
    BY <2>3 DEF Timeline!Next
<1>4. ASSUME NEW c \in Cases, Time(c)
      PROVE  Timeline!Next
  <2>1. DeadlinePasses(c)
    BY <1>0, <1>1, <1>4, TimeKeepsPhase
  <2>2. Timeline!DeadlinePasses(c)
    BY <2>1 DEF DeadlinePasses, Timeline!DeadlinePasses
  <2>. QED
    BY <2>2 DEF Timeline!Next
<1>5. ASSUME NEW w \in Workers,
             Sweep(w) \/ LeaseCase(w) \/ ReleaseClaim(w) \/ FailedRead(w)
               \/ FailedWrite(w) \/ TakeJob(w) \/ Fault(w)
      PROVE  FALSE
  BY <1>0, <1>1, <1>5, SweepKeepsPhase, JobKeepsPhase
<1>6. CASE UNCHANGED vars
  BY <1>6 DEF vars
<1>. QED
  BY <1>2, <1>3, <1>4, <1>5, <1>6 DEF Next, Process

(* Whatever is redelivered, retried, crashed or stale, the outbox moves a  *)
(* case only along its timeline: it implements CaseTimeline.               *)
THEOREM OutboxImplementsTimeline == Spec => TimelineSpec
<1>1. Init => Timeline!Init
  BY DEF Init, NewCase, Timeline!Init
<1>. QED
  BY <1>1, InitPhaseInv, NextPhaseInv, NextTimeline, PTL
     DEF Spec, TimelineSpec, Timeline!Spec

-----------------------------------------------------------------------------
(* A resolved case is left alone                                           *)

Silent(d) ==
  /\ d.at = 0 /\ d.dispatch = FALSE /\ d.cAt = "null"
  /\ d.sTok = None /\ d.sDel = None /\ d.eTok = None /\ d.cTok = None
  /\ d.cDel = None
  /\ d.sLive = FALSE /\ d.eLive = FALSE /\ d.cLive = FALSE
  /\ d.published = d.version

Quiet(d) == d.status \in Terminal => Silent(d)

QuietInv == TypeInv /\ \A c \in Cases : Quiet(doc[c])

LEMMA ResolvedSilent ==
  ASSUME NEW d \in Doc, NEW v \in Terminal
  PROVE  Silent(Resolved(d, v))
<1> DEFINE f == [d EXCEPT !.status = v]
<1>1. f \in Doc /\ f.version = d.version
  BY ZenonT(60) DEF Doc
<1>2. Silent(Completed(f))
  <2> HIDE DEF f
  <2>. QED
    BY <1>1, ZenonT(60) DEF Completed, Doc, Silent
<1>. QED
  BY <1>2 DEF Resolved

LEMMA TransitionQuiet ==
  ASSUME NEW d \in Doc, d.status \in Active, NEW now,
         NEW e \in Transition(d, now)
  PROVE  Quiet(e)
<1> DEFINE seen == [d EXCEPT !.reviewed = TRUE]
           urgent == [d EXCEPT !.status = "EMERGENCY", !.reviewed = TRUE]
<1>1. /\ seen \in Doc /\ urgent \in Doc
      /\ seen.status = d.status /\ urgent.status = "EMERGENCY"
  BY ReviewedType, ZenonT(60) DEF Doc
<1>2. /\ Rescheduled(urgent, 3).status = "EMERGENCY"
      /\ Rescheduled(seen, 2).status = d.status
  <2> HIDE DEF seen, urgent
  <2>. QED
    BY <1>1, RescheduledFields, 2 \in 0..3, 3 \in 0..3
<1>3. \/ e \in {Resolved(seen, v) : v \in Terminal}
      \/ e = Rescheduled(urgent, 3) \/ e = Rescheduled(seen, 2)
  BY Zenon DEF Transition
<1>4. e \in {Resolved(seen, v) : v \in Terminal} => Silent(e)
  <2> HIDE DEF seen
  <2>. QED
    BY <1>1, ResolvedSilent
<1>. QED
  BY <1>2, <1>3, <1>4 DEF Quiet, Active, Terminal

(* Every conditional write of a sweep misses a resolved case.              *)
LEMMA SweepMisses ==
  ASSUME TypeInv, NEW w \in Workers, Sweep(w), NEW c \in Cases,
         doc[c].status \in Terminal, Silent(doc[c])
  PROVE  doc'[c] = doc[c]
<1>1. None \notin Tokens
  BY BoundsAssumption DEF None
<1>2. loc[w].pc \in SweepPoints => loc[w].tok \in Tokens
  BY DEF TypeInv, TokenHeld
<1>3. ~(doc[c].status \in Active)
  BY DEF Active, Terminal
<1>4. CASE PublishClaim(w) \/ CompensateClaim(w)
  BY <1>3, <1>4, Zenon DEF PublishClaim, CompensateClaim, Publishable, Compensable
<1>5. CASE PublishMark(w)
  BY <1>1, <1>2, <1>5, Zenon DEF PublishMark, Silent, SweepPoints
<1>6. CASE PublishUndo(w)
  BY <1>1, <1>2, <1>6, Zenon DEF PublishUndo, Silent, SweepPoints
<1>7. CASE CompensateMark(w)
  BY <1>1, <1>2, <1>7, Zenon DEF CompensateMark, Silent, SweepPoints
<1>8. CASE CompensateUndo(w)
  BY <1>1, <1>2, <1>8, Zenon DEF CompensateUndo, Silent, SweepPoints
<1>9. CASE \/ StartPublish(w) \/ PublishRead(w) \/ AddCaseJobs(w, "p_add", "p_mark")
           \/ StartCompensate(w) \/ CompensateRead(w)
           \/ AddCaseJobs(w, "c_add", "c_mark")
  BY <1>9 DEF StartPublish, PublishRead, AddCaseJobs, StartCompensate, CompensateRead
<1>. QED
  BY <1>4, <1>5, <1>6, <1>7, <1>8, <1>9 DEF Sweep

(* So does every write of a job.                                           *)
LEMMA JobMisses ==
  ASSUME TypeInv, NEW w \in Workers,
         Process(w) \/ TakeJob(w) \/ Fault(w), NEW c \in Cases,
         doc[c].status \in Terminal, Silent(doc[c])
  PROVE  doc'[c] = doc[c]
<1>1. None \notin Tokens
  BY BoundsAssumption DEF None
<1>2. /\ \A j \in loc[w].job : j.tok \in Tokens
      /\ loc[w].pc = "a_release" => loc[w].tok \in Tokens
      /\ doc \in [Cases -> Doc]
  BY DEF TypeInv, TokenHeld, TypeOK, Local, Job
<1>3. ~(doc[c].status \in Active)
  BY DEF Active, Terminal
<1>a. ASSUME NEW j, NEW e, doc' = [doc EXCEPT ![j.c] = e], j.c # c
      PROVE  doc'[c] = doc[c]
  BY <1>2, <1>a
<1>4. CASE LeaseCase(w)
  <2>0. PICK j \in loc[w].job : \E t :
          \/ /\ doc' = [doc EXCEPT ![j.c].eTok = t, ![j.c].eVer = j.ver,
                                   ![j.c].eLive = TRUE]
             /\ doc[j.c].status \in Active
          \/ doc' = doc
    BY <1>4, Zenon DEF LeaseCase, Leasable
  <2>1. PICK t :
          \/ /\ doc' = [doc EXCEPT ![j.c].eTok = t, ![j.c].eVer = j.ver,
                                   ![j.c].eLive = TRUE]
             /\ doc[j.c].status \in Active
          \/ doc' = doc
    BY <2>0, Zenon
  <2> DEFINE e == [doc[j.c] EXCEPT !.eTok = t, !.eVer = j.ver, !.eLive = TRUE]
  <2>2. (doc' = [doc EXCEPT ![j.c] = e] /\ doc[j.c].status \in Active) \/ doc' = doc
    BY <2>1, Zenon
  <2>. QED
    BY <1>3, <1>a, <2>2
<1>5. CASE AdvanceClaimedDeadline(w)
  <2>1. PICK j \in loc[w].job :
          \/ doc[j.c].status \in Active /\ \E e : doc' = [doc EXCEPT ![j.c] = e]
          \/ doc' = doc
    BY <1>5, Zenon DEF AdvanceClaimedDeadline, LeaseHeld
  <2>. QED
    BY <1>3, <1>a, <2>1
<1>6. CASE ReleaseClaim(w)
  <2>1. PICK j \in loc[w].job :
          \/ /\ doc' = [doc EXCEPT ![j.c].eTok = None, ![j.c].eVer = None,
                                   ![j.c].eLive = FALSE]
             /\ doc[j.c].eTok = loc[w].tok /\ loc[w].pc = "a_release"
          \/ doc' = doc
    BY <1>6, Zenon DEF ReleaseClaim
  <2> DEFINE e == [doc[j.c] EXCEPT !.eTok = None, !.eVer = None, !.eLive = FALSE]
  <2>2. \/ /\ doc' = [doc EXCEPT ![j.c] = e]
           /\ doc[j.c].eTok = loc[w].tok /\ loc[w].pc = "a_release"
        \/ doc' = doc
    BY <2>1, Zenon
  <2> HIDE DEF e
  <2>. QED
    BY <1>1, <1>2, <1>a, <2>2 DEF Silent
<1>7. CASE FailedWrite(w)
  <2>1. PICK j \in loc[w].job :
          \/ /\ doc' = [doc EXCEPT ![j.c].cAt = "later", ![j.c].cTok = None,
                                   ![j.c].cLive = FALSE, ![j.c].cDel = None,
                                   ![j.c].fails = @ + 1]
             /\ doc[j.c].cDel = j.tok
          \/ doc' = doc
    BY <1>7, Zenon DEF FailedWrite, HoldsDelivery
  <2> DEFINE e == [doc[j.c] EXCEPT !.cAt = "later", !.cTok = None, !.cLive = FALSE,
                                   !.cDel = None, !.fails = @ + 1]
  <2>2. (doc' = [doc EXCEPT ![j.c] = e] /\ doc[j.c].cDel = j.tok) \/ doc' = doc
    BY <2>1, Zenon
  <2> HIDE DEF e
  <2>. QED
    BY <1>1, <1>2, <1>a, <2>2 DEF Silent
<1>8. CASE FailedRead(w) \/ TakeJob(w) \/ Fault(w)
  BY <1>8 DEF FailedRead, TakeJob, Fault, SweepFails, AddFailsAfterAccept, JobFails,
              Crash, LockLost
<1>. QED
  BY <1>4, <1>5, <1>6, <1>7, <1>8 DEF Process

LEMMA EnvironmentMisses ==
  ASSUME TypeInv, NEW k \in Cases, ResolveCaseForAdmin(k) \/ Time(k),
         NEW c \in Cases, doc[c].status \in Terminal, Silent(doc[c])
  PROVE  doc'[c] = doc[c]
<1>1. doc \in [Cases -> Doc] /\ ~(doc[c].status \in Active)
  BY DEF TypeInv, TypeOK, Active, Terminal
<1>2. CASE ResolveCaseForAdmin(k)
  BY <1>1, <1>2 DEF ResolveCaseForAdmin
<1>3. CASE DeadlinePasses(k)
  BY <1>3 DEF DeadlinePasses
<1>4. CASE \/ ScheduleClaimExpires(k) \/ LeaseExpires(k)
           \/ CompensationClaimExpires(k) \/ CompensationDelayPasses(k)
  <2>1. c # k
    BY <1>4 DEF ScheduleClaimExpires, LeaseExpires, CompensationClaimExpires,
                CompensationDelayPasses, Silent
  <2>2. PICK e : doc' = [doc EXCEPT ![k] = e]
    BY <1>4, Zenon DEF ScheduleClaimExpires, LeaseExpires, CompensationClaimExpires,
                       CompensationDelayPasses
  <2>. QED
    BY <1>1, <2>1, <2>2
<1>. QED
  BY <1>2, <1>3, <1>4 DEF Time

LEMMA NextQuietInv == PhaseInv /\ QuietInv /\ [Next]_vars => QuietInv'
<1> SUFFICES ASSUME PhaseInv, QuietInv, [Next]_vars PROVE QuietInv'
  OBVIOUS
<1>0. TypeInv /\ TypeInv'
  BY NextTypeInv DEF QuietInv
<1> SUFFICES ASSUME NEW c \in Cases PROVE Quiet(doc'[c])
  BY <1>0 DEF QuietInv
<1>1. doc \in [Cases -> Doc] /\ Quiet(doc[c])
  BY <1>0 DEF QuietInv, TypeInv, TypeOK
<1>2. CASE UNCHANGED vars
  BY <1>1, <1>2 DEF vars
<1>3. CASE doc[c].status \in Terminal
  <2>1. Silent(doc[c])
    BY <1>1, <1>3 DEF Quiet
  <2>2. doc'[c] = doc[c]
    BY <1>0, <1>3, <2>1, <1>2, SweepMisses, JobMisses, EnvironmentMisses DEF Next, vars
  <2>. QED
    BY <2>2, <1>1
<1>4. ASSUME NEW w \in Workers, AdvanceClaimedDeadline(w)
      PROVE  Quiet(doc'[c])
  <2>1. \/ doc' = doc
        \/ \E k \in Cases : \E e \in Transition(doc[k], loc[w].now) :
             /\ doc' = [doc EXCEPT ![k] = e]
             /\ doc[k] \in Doc /\ doc[k].status \in Active
    BY <1>4, AdvanceMoves
  <2>2. ASSUME NEW k \in Cases, NEW e \in Transition(doc[k], loc[w].now),
               doc' = [doc EXCEPT ![k] = e],
               doc[k] \in Doc, doc[k].status \in Active
        PROVE  Quiet(doc'[c])
    <3>1. Quiet(e)
      BY <2>2, TransitionQuiet
    <3>. QED
      BY <1>1, <2>2, <3>1
  <2>. QED
    BY <1>1, <2>1, <2>2
<1>5. ASSUME NEW k \in Cases, ResolveCaseForAdmin(k)
      PROVE  Quiet(doc'[c])
  <2>1. PICK v \in Terminal : doc' = [doc EXCEPT ![k] = Resolved(doc[k], v)]
    BY <1>1, <1>5 DEF ResolveCaseForAdmin
  <2>2. Silent(Resolved(doc[k], v))
    BY <1>1, ResolvedSilent
  <2>. QED
    BY <1>1, <2>1, <2>2 DEF Quiet
<1>6. ASSUME NEW w \in Workers,
             Sweep(w) \/ LeaseCase(w) \/ ReleaseClaim(w) \/ FailedRead(w)
               \/ FailedWrite(w) \/ TakeJob(w) \/ Fault(w),
             doc[c].status \notin Terminal
      PROVE  Quiet(doc'[c])
  BY <1>0, <1>6, SweepKeepsPhase, JobKeepsPhase DEF Quiet, SamePhase
<1>7. ASSUME NEW k \in Cases, Time(k), doc[c].status \notin Terminal
      PROVE  Quiet(doc'[c])
  BY <1>0, <1>7, TimeKeepsPhase DEF Quiet, SamePhase
<1>. QED
  BY <1>2, <1>3, <1>4, <1>5, <1>6, <1>7 DEF Next, Process

(* No sweep, lease or failed delivery that was under way when a case was   *)
(* resolved leaves a claim, a token or a dispatch time behind in it.       *)
THEOREM TerminalStaysQuiet == Spec => []TerminalIsQuiet
<1>1. Init => QuietInv
  BY InitTypeInv DEF Init, NewCase, QuietInv, Quiet, Terminal
<1>2. QuietInv => TerminalIsQuiet
  BY DEF QuietInv, Quiet, Silent, TerminalIsQuiet
<1>. QED
  BY <1>1, <1>2, InitPhaseInv, NextPhaseInv, NextQuietInv, PTL DEF Spec

-----------------------------------------------------------------------------
(* A lease has one holder                                                  *)

(* Workers inside the transaction took different tokens.                   *)
DistinctLeases ==
  \A v, w \in Workers :
    v # w /\ loc[v].pc = "a_tx" /\ loc[w].pc = "a_tx" => loc[v].tok # loc[w].tok

LEMMA LeaseIsFresh ==
  ASSUME TypeInv, NEW w \in Workers, LeaseCase(w), loc'[w].pc = "a_tx"
  PROVE  \A v \in Workers : loc'[w].tok # loc[v].tok
<1>0. PICK j \in loc[w].job : \E t :
        \/ t \in Fresh /\ loc' = [loc EXCEPT ![w].pc = "a_tx", ![w].tok = t,
                                             ![w].now = passed[j.c]]
        \/ Return(w)
  BY Zenon DEF LeaseCase
<1>1. PICK t :
        \/ t \in Fresh /\ loc' = [loc EXCEPT ![w].pc = "a_tx", ![w].tok = t,
                                             ![w].now = passed[j.c]]
        \/ Return(w)
  BY <1>0, Zenon
<1>2. ~Return(w)
  BY ReturnOutside DEF OutsideTx
<1>3. loc'[w].tok = t /\ t \notin Used
  BY <1>1, <1>2, FreshType DEF TypeInv, TypeOK, Local
<1>4. {loc[v].tok : v \in Workers} \subseteq Used
  BY DEF Used
<1>. QED
  BY <1>3, <1>4

LEMMA NextDistinctLeases ==
  TypeInv /\ DistinctLeases /\ [Next]_vars => DistinctLeases'
<1> SUFFICES ASSUME TypeInv, DistinctLeases, [Next]_vars PROVE DistinctLeases'
  OBVIOUS
<1>1. ASSUME NEW w \in Workers, Sweep(w) \/ Process(w) \/ TakeJob(w) \/ Fault(w)
      PROVE  DistinctLeases'
  <2>1. /\ \A v \in Workers \ {w} : loc'[v] = loc[v]
        /\ \/ OutsideTx(w) \/ SameAttempt(loc[w], loc'[w]) \/ LeaseCase(w)
    BY <1>1, SweepOutside, JobLocal
  <2>2. CASE OutsideTx(w) \/ SameAttempt(loc[w], loc'[w])
    BY <2>1, <2>2 DEF DistinctLeases, OutsideTx, SameAttempt
  <2>3. CASE LeaseCase(w)
    BY <2>1, <2>3, LeaseIsFresh DEF DistinctLeases
  <2>. QED
    BY <2>1, <2>2, <2>3
<1>2. ASSUME NEW c \in Cases, ResolveCaseForAdmin(c) \/ Time(c)
      PROVE  DistinctLeases'
  <2>1. loc' = loc
    BY <1>2 DEF ResolveCaseForAdmin, Time, DeadlinePasses, ScheduleClaimExpires,
                LeaseExpires, CompensationClaimExpires, CompensationDelayPasses
  <2>. QED
    BY <2>1 DEF DistinctLeases
<1>3. CASE UNCHANGED vars
  BY <1>3 DEF vars, DistinctLeases
<1>. QED
  BY <1>1, <1>2, <1>3 DEF Next

(* Two workers on the same case never both hold a lease the transaction    *)
(* would accept, however the first one's lease ended.                      *)
THEOREM LeaseHasOneHolder == Spec => []OneLeaseHolder
<1>1. Init => DistinctLeases
  BY DEF Init, Idle, DistinctLeases
<1>2. DistinctLeases => OneLeaseHolder
  BY DEF DistinctLeases, OneLeaseHolder, LeaseHeld
<1>. QED
  BY <1>1, <1>2, InitTypeInv, NextTypeInv, NextDistinctLeases, PTL DEF Spec

-----------------------------------------------------------------------------
(* What is marked published has been delivered                             *)

SamePublished(d, e) == e.published = d.published

LEMMA WritesKeepPublished ==
  ASSUME NEW d \in Doc, NEW t, NEW v, NEW n
  PROVE  /\ SamePublished(d, d)
         /\ SamePublished(d, [d EXCEPT !.sTok = t, !.sVer = v, !.sLive = TRUE,
                                       !.sDel = t])
         /\ SamePublished(d, [d EXCEPT !.sTok = None, !.sVer = None, !.sLive = FALSE,
                                       !.sDel = None])
         /\ SamePublished(d, [d EXCEPT !.cTok = t, !.cLive = TRUE, !.cDel = t])
         /\ SamePublished(d, [d EXCEPT !.cAt = "later", !.cTok = None, !.cLive = FALSE])
         /\ SamePublished(d, [d EXCEPT !.cAt = "now", !.cTok = None, !.cLive = FALSE,
                                       !.cDel = None])
         /\ SamePublished(d, [d EXCEPT !.eTok = t, !.eVer = v, !.eLive = TRUE])
         /\ SamePublished(d, [d EXCEPT !.eTok = None, !.eVer = None, !.eLive = FALSE])
         /\ SamePublished(d, [d EXCEPT !.cAt = "later", !.cTok = None, !.cLive = FALSE,
                                       !.cDel = None, !.fails = n])
         /\ SamePublished(d, [d EXCEPT !.sLive = FALSE])
         /\ SamePublished(d, [d EXCEPT !.eLive = FALSE])
         /\ SamePublished(d, [d EXCEPT !.cLive = FALSE])
         /\ SamePublished(d, [d EXCEPT !.cAt = "now"])
         /\ [d EXCEPT !.published = v, !.dispatch = FALSE, !.sTok = None,
                      !.sVer = None, !.sLive = FALSE, !.sDel = None,
                      !.cAt = "null", !.cDel = t, !.fails = 0].published = v
BY ZenonT(60) DEF Doc, SamePublished

(* The only write of published outside a transition: the mark, for the     *)
(* version the batch was claimed with.                                     *)
Marked(w, c) ==
  /\ loc[w].pc = "p_mark" /\ InBatch(w, c)
  /\ doc'[c].published = doc[c].version

LEMMA SweepPublishes ==
  ASSUME TypeInv, NEW w \in Workers, Sweep(w), NEW c \in Cases
  PROVE  SamePublished(doc[c], doc'[c]) \/ Marked(w, c)
<1>0. doc[c] \in Doc
  BY DEF TypeInv, TypeOK
<1>1. CASE PublishClaim(w)
  BY <1>0, <1>1, WritesKeepPublished, Zenon DEF PublishClaim
<1>2. CASE PublishMark(w)
  <2> DEFINE e == [doc[c] EXCEPT !.published = doc[c].version, !.dispatch = FALSE,
                     !.sTok = None, !.sVer = None, !.sLive = FALSE, !.sDel = None,
                     !.cAt = "null", !.cDel = loc[w].tok, !.fails = 0]
  <2>1. doc'[c] = doc[c] \/ (InBatch(w, c) /\ doc'[c] = e)
    BY <1>2, Zenon DEF PublishMark
  <2>2. e.published = doc[c].version
    BY <1>0, ZenonT(60) DEF Doc
  <2>. QED
    BY <1>2, <2>1, <2>2, Zenon DEF PublishMark, Marked, SamePublished
<1>3. CASE PublishUndo(w)
  BY <1>0, <1>3, WritesKeepPublished, Zenon DEF PublishUndo
<1>4. CASE CompensateClaim(w)
  BY <1>0, <1>4, WritesKeepPublished, Zenon DEF CompensateClaim
<1>5. CASE CompensateMark(w)
  BY <1>0, <1>5, WritesKeepPublished, Zenon DEF CompensateMark
<1>6. CASE CompensateUndo(w)
  BY <1>0, <1>6, WritesKeepPublished, Zenon DEF CompensateUndo
<1>7. CASE \/ StartPublish(w) \/ PublishRead(w) \/ AddCaseJobs(w, "p_add", "p_mark")
           \/ StartCompensate(w) \/ CompensateRead(w)
           \/ AddCaseJobs(w, "c_add", "c_mark")
  BY <1>7 DEF StartPublish, PublishRead, AddCaseJobs, StartCompensate,
              CompensateRead, SamePublished
<1>. QED
  BY <1>1, <1>2, <1>3, <1>4, <1>5, <1>6, <1>7 DEF Sweep

LEMMA JobPublishesNothing ==
  ASSUME TypeInv, NEW w \in Workers,
         LeaseCase(w) \/ ReleaseClaim(w) \/ FailedRead(w) \/ FailedWrite(w)
           \/ TakeJob(w) \/ Fault(w)
  PROVE  \A c \in Cases : SamePublished(doc[c], doc'[c])
<1>0. /\ \A c \in Cases : doc[c] \in Doc
      /\ \A j \in loc[w].job : j.c \in Cases
      /\ doc \in [Cases -> Doc]
  BY DEF TypeInv, TypeOK, Local, Job
<1>a. ASSUME NEW k \in Cases, NEW e, SamePublished(doc[k], e),
             doc' = [doc EXCEPT ![k] = e]
      PROVE  \A c \in Cases : SamePublished(doc[c], doc'[c])
  BY <1>0, <1>a, WritesKeepPublished
<1>b. doc' = doc => \A c \in Cases : SamePublished(doc[c], doc'[c])
  BY <1>0, WritesKeepPublished
<1>1. CASE LeaseCase(w)
  <2>0. PICK j \in loc[w].job : \E t :
          \/ doc' = [doc EXCEPT ![j.c].eTok = t, ![j.c].eVer = j.ver,
                                ![j.c].eLive = TRUE]
          \/ doc' = doc
    BY <1>1, Zenon DEF LeaseCase
  <2>1. PICK t :
          \/ doc' = [doc EXCEPT ![j.c].eTok = t, ![j.c].eVer = j.ver,
                                ![j.c].eLive = TRUE]
          \/ doc' = doc
    BY <2>0, Zenon
  <2> DEFINE e == [doc[j.c] EXCEPT !.eTok = t, !.eVer = j.ver, !.eLive = TRUE]
  <2>2. SamePublished(doc[j.c], e)
    BY <1>0, WritesKeepPublished, Zenon
  <2>3. doc' = [doc EXCEPT ![j.c] = e] \/ doc' = doc
    BY <2>1, Zenon
  <2>. QED
    BY <1>0, <1>a, <1>b, <2>2, <2>3, Zenon
<1>2. CASE ReleaseClaim(w)
  <2>1. PICK j \in loc[w].job :
          \/ doc' = [doc EXCEPT ![j.c].eTok = None, ![j.c].eVer = None,
                                ![j.c].eLive = FALSE]
          \/ doc' = doc
    BY <1>2, Zenon DEF ReleaseClaim
  <2> DEFINE e == [doc[j.c] EXCEPT !.eTok = None, !.eVer = None, !.eLive = FALSE]
  <2>2. SamePublished(doc[j.c], e)
    BY <1>0, WritesKeepPublished, Zenon
  <2>3. doc' = [doc EXCEPT ![j.c] = e] \/ doc' = doc
    BY <2>1, Zenon
  <2>. QED
    BY <1>0, <1>a, <1>b, <2>2, <2>3, Zenon
<1>3. CASE FailedWrite(w)
  <2>1. PICK j \in loc[w].job :
          \/ doc' = [doc EXCEPT ![j.c].cAt = "later", ![j.c].cTok = None,
                                ![j.c].cLive = FALSE, ![j.c].cDel = None,
                                ![j.c].fails = @ + 1]
          \/ doc' = doc
    BY <1>3, Zenon DEF FailedWrite
  <2> DEFINE e == [doc[j.c] EXCEPT !.cAt = "later", !.cTok = None, !.cLive = FALSE,
                                   !.cDel = None, !.fails = @ + 1]
  <2>2. SamePublished(doc[j.c], e)
    BY <1>0, WritesKeepPublished, Zenon
  <2>3. doc' = [doc EXCEPT ![j.c] = e] \/ doc' = doc
    BY <2>1, Zenon
  <2>. QED
    BY <1>0, <1>a, <1>b, <2>2, <2>3, Zenon
<1>4. CASE FailedRead(w) \/ TakeJob(w) \/ Fault(w)
  BY <1>4, <1>b DEF FailedRead, TakeJob, Fault, SweepFails, AddFailsAfterAccept,
                    JobFails, Crash, LockLost
<1>. QED
  BY <1>1, <1>2, <1>3, <1>4

LEMMA TimePublishesNothing ==
  ASSUME TypeInv, NEW k \in Cases, Time(k)
  PROVE  \A c \in Cases : SamePublished(doc[c], doc'[c])
<1>0. doc \in [Cases -> Doc]
  BY DEF TypeInv, TypeOK
<1>1. CASE DeadlinePasses(k)
  BY <1>1 DEF DeadlinePasses, SamePublished
<1>2. CASE ScheduleClaimExpires(k)
  BY <1>0, <1>2, WritesKeepPublished, Zenon DEF ScheduleClaimExpires
<1>3. CASE LeaseExpires(k)
  BY <1>0, <1>3, WritesKeepPublished, Zenon DEF LeaseExpires
<1>4. CASE CompensationClaimExpires(k)
  BY <1>0, <1>4, WritesKeepPublished, Zenon DEF CompensationClaimExpires
<1>5. CASE CompensationDelayPasses(k)
  BY <1>0, <1>5, WritesKeepPublished, Zenon DEF CompensationDelayPasses
<1>. QED
  BY <1>1, <1>2, <1>3, <1>4, <1>5 DEF Time

(* A sweep reaches its mark only with jobs it has handed to BullMQ; no     *)
(* version is published before the case has it.                            *)
BatchDelivered ==
  \A w \in Workers : loc[w].pc = "p_mark" =>
    \A b \in loc[w].batch : <<b.c, b.ver>> \in delivered

DeliveryInv ==
  /\ BatchDelivered
  /\ \A c \in Cases : doc[c].published <= doc[c].version
  /\ PublishedMeansDelivered

LEMMA NextBatchDelivered ==
  TypeInv /\ BatchDelivered /\ [Next]_vars
    => BatchDelivered' /\ delivered \subseteq delivered'
<1> SUFFICES ASSUME TypeInv, BatchDelivered, [Next]_vars
             PROVE  BatchDelivered' /\ delivered \subseteq delivered'
  OBVIOUS
<1>1. ASSUME NEW w \in Workers, loc'[w].pc # "p_mark",
             \A v \in Workers \ {w} : loc'[v] = loc[v],
             delivered \subseteq delivered'
      PROVE  BatchDelivered'
  BY <1>1 DEF BatchDelivered
<1>2. ASSUME NEW w \in Workers, Sweep(w)
      PROVE  BatchDelivered' /\ delivered \subseteq delivered'
  <2>1. CASE AddCaseJobs(w, "p_add", "p_mark")
    BY <2>1 DEF AddCaseJobs, Goto, BatchDelivered, TypeInv, TypeOK, Local
  <2>2. CASE StartPublish(w) \/ StartCompensate(w)
    <3>1. PICK S \in SUBSET Cases, t \in Tokens, pc \in {"p_claim", "c_claim"} :
            loc' = [loc EXCEPT ![w].pc = pc, ![w].tok = t,
                      ![w].batch = {[c |-> c, ver |-> doc[c].version,
                                     at |-> doc[c].at] : c \in S}]
      BY <2>2, FreshType DEF StartPublish, StartCompensate, Batches
    <3>2. loc'[w].pc # "p_mark"
      BY <3>1 DEF TypeInv, TypeOK, Local
    <3>. QED
      BY <1>1, <1>2, <2>2, <3>2, SweepOutside DEF StartPublish, StartCompensate
  <2>3. CASE PublishRead(w) \/ CompensateRead(w)
    <3>1. loc'[w].pc # "p_mark"
      BY <2>3 DEF PublishRead, CompensateRead, Return, Idle, TypeInv, TypeOK, Local
    <3>. QED
      BY <1>1, <1>2, <2>3, <3>1, SweepOutside DEF PublishRead, CompensateRead
  <2>4. CASE PublishClaim(w) \/ CompensateClaim(w) \/ PublishMark(w) \/ PublishUndo(w)
              \/ CompensateMark(w) \/ CompensateUndo(w)
    <3>1. Return(w) \/ Goto(w, "p_read") \/ Goto(w, "c_read")
      BY <2>4 DEF PublishClaim, CompensateClaim, PublishMark, PublishUndo,
                  CompensateMark, CompensateUndo
    <3>2. loc'[w].pc # "p_mark"
      BY <3>1 DEF Return, Idle, Goto, TypeInv, TypeOK, Local
    <3>. QED
      BY <1>1, <1>2, <2>4, <3>2, SweepOutside
         DEF PublishClaim, CompensateClaim, PublishMark, PublishUndo, CompensateMark,
             CompensateUndo
  <2>5. CASE AddCaseJobs(w, "c_add", "c_mark")
    <3>1. loc'[w].pc # "p_mark" /\ delivered \subseteq delivered'
      BY <2>5 DEF AddCaseJobs, Goto, TypeInv, TypeOK, Local
    <3>. QED
      BY <1>1, <1>2, <3>1, SweepOutside
  <2>. QED
    BY <1>2, <2>1, <2>2, <2>3, <2>4, <2>5 DEF Sweep
<1>3. ASSUME NEW w \in Workers, TakeJob(w) \/ Process(w) \/ Fault(w)
      PROVE  BatchDelivered' /\ delivered \subseteq delivered'
  <2>1. loc'[w].pc # "p_mark" /\ delivered \subseteq delivered'
    <3>1. CASE TakeJob(w)
      BY <3>1 DEF TakeJob, Idle, TypeInv, TypeOK
    <3>2. CASE LeaseCase(w) \/ FailedRead(w)
      <4>1. /\ delivered' = delivered
            /\ \/ Return(w)
               \/ \E t, n : loc' = [loc EXCEPT ![w].pc = "a_tx", ![w].tok = t,
                                               ![w].now = n]
               \/ \E n : loc' = [loc EXCEPT ![w].pc = "f_write", ![w].fails = n]
        BY <3>2, Zenon DEF LeaseCase, FailedRead
      <4>2. ASSUME NEW t, NEW n,
                   loc' = [loc EXCEPT ![w].pc = "a_tx", ![w].tok = t, ![w].now = n]
            PROVE  loc'[w].pc # "p_mark"
        BY <4>2 DEF TypeInv, TypeOK, Local
      <4>3. ASSUME NEW n,
                   loc' = [loc EXCEPT ![w].pc = "f_write", ![w].fails = n]
            PROVE  loc'[w].pc # "p_mark"
        BY <4>3 DEF TypeInv, TypeOK, Local
      <4>4. Return(w) => loc'[w].pc # "p_mark"
        BY DEF Return, Idle, TypeInv, TypeOK
      <4>. QED
        BY <4>1, <4>2, <4>3, <4>4
    <3>3. CASE AdvanceClaimedDeadline(w) \/ FailedWrite(w)
      <4>1. Return(w) /\ delivered' = delivered
        BY <3>3, Zenon DEF AdvanceClaimedDeadline, FailedWrite
      <4>. QED
        BY <4>1 DEF Return, Idle, TypeInv, TypeOK
    <3>4. CASE ReleaseClaim(w)
      <4>1. delivered' = delivered /\ (Return(w) \/ Goto(w, "f_read"))
        BY <3>4, Zenon DEF ReleaseClaim, EndAttempt
      <4>. QED
        BY <4>1 DEF Return, Idle, Goto, TypeInv, TypeOK, Local
    <3>5. CASE SweepFails(w) \/ JobFails(w) \/ Crash(w)
      <4>1. /\ delivered' = delivered
            /\ Return(w) \/ \E pc \in {"p_undo", "c_undo", "a_release", "f_read"} :
                              Goto(w, pc)
        BY <3>5, Zenon DEF SweepFails, JobFails, Crash, EndAttempt
      <4>. QED
        BY <4>1 DEF Return, Idle, Goto, TypeInv, TypeOK, Local
    <3>6. CASE AddFailsAfterAccept(w)
      BY <3>6 DEF AddFailsAfterAccept, Goto, TypeInv, TypeOK, Local
    <3>7. CASE LockLost(w)
      BY <3>7 DEF LockLost, JobPoints, TypeInv, TypeOK, Local
    <3>. QED
      BY <1>3, <3>1, <3>2, <3>3, <3>4, <3>5, <3>6, <3>7 DEF Process, Fault
  <2>. QED
    BY <1>1, <1>3, <2>1, JobLocal
<1>4. ASSUME NEW c \in Cases, ResolveCaseForAdmin(c) \/ Time(c)
      PROVE  BatchDelivered' /\ delivered \subseteq delivered'
  BY <1>4 DEF ResolveCaseForAdmin, Time, DeadlinePasses, ScheduleClaimExpires,
              LeaseExpires, CompensationClaimExpires, CompensationDelayPasses,
              BatchDelivered
<1>5. CASE UNCHANGED vars
  BY <1>5 DEF vars, BatchDelivered
<1>. QED
  BY <1>2, <1>3, <1>4, <1>5 DEF Next

LEMMA RescheduledUnpublished ==
  ASSUME NEW d \in Doc, d.published <= d.version, NEW now,
         NEW e \in Transition(d, now)
  PROVE  e.published <= e.version /\ (e.status \in Active => e.published < e.version)
<1> DEFINE seen == [d EXCEPT !.reviewed = TRUE]
           urgent == [d EXCEPT !.status = "EMERGENCY", !.reviewed = TRUE]
<1>1. /\ seen \in Doc /\ urgent \in Doc
      /\ seen.published = d.published /\ urgent.published = d.published
      /\ seen.version = d.version /\ urgent.version = d.version
      /\ d.published \in Nat /\ d.version \in Nat
  BY ReviewedType, ZenonT(60) DEF Doc
<1>2. ASSUME NEW f \in Doc, NEW at, f.published = d.published, f.version = d.version
      PROVE  Rescheduled(f, at).published < Rescheduled(f, at).version
  <2>1. /\ Rescheduled(f, at).published = f.published
        /\ Rescheduled(f, at).version = f.version + 1
    BY ZenonT(60) DEF Rescheduled, Doc
  <2>. QED
    BY <1>1, <1>2, <2>1
<1>3. \A v \in Terminal : /\ Resolved(seen, v).published = Resolved(seen, v).version
                          /\ Resolved(seen, v).status = v
                          /\ Resolved(seen, v) \in Doc
  <2> HIDE DEF seen
  <2>. QED
    BY <1>1, ResolvedSilent, ResolvedFields, ResolvedType DEF Silent
<1>4. \/ e \in {Resolved(seen, v) : v \in Terminal}
      \/ e = Rescheduled(urgent, 3) \/ e = Rescheduled(seen, 2)
  BY Zenon DEF Transition
<1>5. e \in {Resolved(seen, v) : v \in Terminal} =>
        /\ e.published = e.version /\ e.status \in Terminal /\ e.version \in Nat
  <2> HIDE DEF seen
  <2>. QED
    BY <1>3 DEF Doc
<1>6. e = Rescheduled(urgent, 3) \/ e = Rescheduled(seen, 2) => e.published < e.version
  <2> HIDE DEF seen, urgent
  <2>. QED
    BY <1>1, <1>2
<1>7. e \in Doc
  BY TransitionType
<1>. QED
  BY <1>4, <1>5, <1>6, <1>7 DEF Active, Terminal, Doc

LEMMA NextDeliveryInv == PhaseInv /\ DeliveryInv /\ [Next]_vars => DeliveryInv'
<1> SUFFICES ASSUME PhaseInv, DeliveryInv, [Next]_vars PROVE DeliveryInv'
  OBVIOUS
<1>0. TypeInv /\ TypeInv'
  BY NextTypeInv DEF PhaseInv
<1>1. BatchDelivered' /\ delivered \subseteq delivered'
  BY <1>0, NextBatchDelivered DEF DeliveryInv
<1> DEFINE Fine(d, c) ==
             /\ d.published <= d.version
             /\ d.status \in Active => \/ d.published < d.version
                                       \/ <<c, d.version>> \in delivered'
<1> SUFFICES ASSUME NEW c \in Cases PROVE Fine(doc'[c], c)
  BY <1>1 DEF DeliveryInv, PublishedMeansDelivered
<1>2. /\ doc \in [Cases -> Doc] /\ \A k \in Cases : Fine(doc[k], k)
      /\ doc[c].version \in Nat
  BY <1>0, <1>1 DEF DeliveryInv, PublishedMeansDelivered, TypeInv, TypeOK, Doc
<1>3. SamePhase(doc[c], doc'[c]) /\ SamePublished(doc[c], doc'[c]) => Fine(doc'[c], c)
  BY <1>2 DEF SamePhase, SamePublished
<1>4. CASE UNCHANGED vars
  BY <1>2, <1>4 DEF vars
<1>5. ASSUME NEW w \in Workers, Sweep(w)
      PROVE  Fine(doc'[c], c)
  <2>1. SamePhase(doc[c], doc'[c])
    BY <1>0, <1>5, SweepKeepsPhase
  <2>2. CASE Marked(w, c)
    <3>1. <<c, doc[c].version>> \in delivered'
      BY <1>1, <2>2 DEF Marked, InBatch, DeliveryInv, BatchDelivered
    <3>. QED
      BY <1>2, <2>1, <2>2, <3>1 DEF Marked, SamePhase
  <2>. QED
    BY <1>0, <1>3, <1>5, <2>1, <2>2, SweepPublishes
<1>6. ASSUME NEW w \in Workers,
             LeaseCase(w) \/ ReleaseClaim(w) \/ FailedRead(w)
               \/ FailedWrite(w) \/ TakeJob(w) \/ Fault(w)
      PROVE  Fine(doc'[c], c)
  BY <1>0, <1>3, <1>6, JobKeepsPhase, JobPublishesNothing
<1>7. ASSUME NEW k \in Cases, Time(k)
      PROVE  Fine(doc'[c], c)
  BY <1>0, <1>3, <1>7, TimeKeepsPhase, TimePublishesNothing
<1>8. ASSUME NEW w \in Workers, AdvanceClaimedDeadline(w)
      PROVE  Fine(doc'[c], c)
  <2>1. \/ doc' = doc
        \/ \E k \in Cases : \E e \in Transition(doc[k], loc[w].now) :
             doc' = [doc EXCEPT ![k] = e]
    BY <1>8, AdvanceMoves
  <2>2. ASSUME NEW k \in Cases, NEW e \in Transition(doc[k], loc[w].now),
               doc' = [doc EXCEPT ![k] = e]
        PROVE  Fine(doc'[c], c)
    <3>1. e.published <= e.version /\ (e.status \in Active => e.published < e.version)
      BY <1>2, RescheduledUnpublished
    <3>. QED
      BY <1>2, <2>2, <3>1
  <2>. QED
    BY <1>2, <2>1, <2>2
<1>9. ASSUME NEW k \in Cases, ResolveCaseForAdmin(k)
      PROVE  Fine(doc'[c], c)
  <2>1. PICK v \in Terminal : doc' = [doc EXCEPT ![k] = Resolved(doc[k], v)]
    BY <1>2, <1>9 DEF ResolveCaseForAdmin
  <2>2. /\ Resolved(doc[k], v).published = Resolved(doc[k], v).version
        /\ Resolved(doc[k], v).status = v /\ Resolved(doc[k], v).version \in Nat
    <3>1. doc[k] \in Doc
      BY <1>2
    <3>2. /\ Silent(Resolved(doc[k], v)) /\ Resolved(doc[k], v).status = v
          /\ Resolved(doc[k], v) \in Doc
      BY <3>1, ResolvedSilent, ResolvedFields, ResolvedType
    <3>. QED
      BY <3>2, Zenon DEF Silent, Doc
  <2>3. v \notin Active
    BY DEF Active, Terminal
  <2>. QED
    BY <1>2, <2>1, <2>2, <2>3
<1>. QED
  BY <1>4, <1>5, <1>6, <1>7, <1>8, <1>9 DEF Next, Process

(* A deadline version is marked published only after a job for that very   *)
(* version has been given to BullMQ, however late the marking sweep is.    *)
THEOREM PublishedWasDelivered == Spec => []PublishedMeansDelivered
<1>1. Init => DeliveryInv
  BY DEF Init, NewCase, Idle, DeliveryInv, BatchDelivered, PublishedMeansDelivered
<1>2. DeliveryInv => PublishedMeansDelivered
  BY DEF DeliveryInv
<1>. QED
  BY <1>1, <1>2, InitPhaseInv, NextPhaseInv, NextDeliveryInv, PTL DEF Spec

-----------------------------------------------------------------------------
(* No case is forgotten                                                    *)

(* One API process, as it is deployed, and faults at the points from which *)
(* a case recovers: the process does not die, and the release of a lease   *)
(* does not fail, while a job has its case leased; the hand-back of a      *)
(* delivery does not fail; and BullMQ requeues the job of every worker     *)
(* that goes silent.                                                       *)
OneWorker == \A v, w \in Workers : v = w

RecoverableFaults ==
  /\ CrashPoints \cap {"a_tx", "a_release"} = {}
  /\ ErrorPoints \cap {"a_release", "f_read", "f_write"} = {}
  /\ MaxCrashes <= MaxStalled

(* What a job, or an entry of a batch, says of its case holds as long as   *)
(* the case has the version it names.                                      *)
Known(x) ==
  /\ x.ver <= doc[x.c].version
  /\ x.ver = doc[x.c].version => x.at = doc[x.c].at

InQueue(c, ver, tok) == \E k \in jobs : k.c = c /\ k.ver = ver /\ k.tok = tok

(* What a worker knows at each place: its mark follows its jobs, a case it *)
(* has claimed for compensation still has its failure, a job that BullMQ   *)
(* has taken from it waits in the queue, and the job it has begun is due,  *)
(* then leased, then handed back with the failures it has read.            *)
SweepKnows(w) ==
  /\ loc[w].pc = "p_mark" =>
       \A b \in loc[w].batch : InQueue(b.c, b.ver, loc[w].tok)
  /\ loc[w].pc = "c_claim" => \A c \in Cases : doc[c].cTok # loc[w].tok
  /\ loc[w].pc \in {"c_read", "c_add", "c_mark", "c_undo"} =>
       \A c \in Cases : doc[c].cTok = loc[w].tok =>
                          doc[c].fails > 0 /\ doc[c].cAt # "null"

JobKnows(w) ==
  \A j \in loc[w].job :
    /\ loc[w].pc \in JobPoints
    /\ ~loc[w].owns => InQueue(j.c, j.ver, j.tok)
    /\ j.ver = doc[j.c].version =>
         /\ loc[w].pc = "a_claim" => j.at <= passed[j.c]
         /\ loc[w].pc = "a_tx" => LeaseHeld(doc[j.c], j, loc[w].tok, loc[w].now)
         /\ loc[w].pc = "f_write" => loc[w].fails = doc[j.c].fails

Knows(w) ==
  /\ \A x \in loc[w].batch \cup loc[w].job : Known(x)
  /\ \A j \in loc[w].job : j.stalls <= crashes
  /\ SweepKnows(w) /\ JobKnows(w)

QueueKnown == \A j \in jobs : Known(j) /\ j.stalls <= crashes

(* A lease that runs is the worker's.                                      *)
LeaseIsHeld ==
  \A c \in Cases : doc[c].eLive =>
    \E w \in Workers :
      /\ loc[w].pc \in {"a_tx", "a_release"} /\ doc[c].eTok = loc[w].tok
      /\ \E j \in loc[w].job : j.c = c /\ j.ver = doc[c].version /\ j.ver = doc[c].eVer

WatchInv ==
  /\ NeverForgotten /\ QueueKnown /\ LeaseIsHeld
  /\ \A w \in Workers : Knows(w)

(* Records by their fields.                                                *)
DocFields ==
  {"status", "reviewed", "at", "version", "published", "dispatch",
   "sTok", "sVer", "sLive", "sDel", "eTok", "eVer", "eLive",
   "cAt", "cTok", "cLive", "cDel", "fails"}
LocalFields == {"pc", "tok", "batch", "job", "owns", "now", "fails"}
JobFields   == {"c", "ver", "at", "tok", "att", "stalls"}

IsDoc(d) ==
  /\ DOMAIN d = DocFields
  /\ d.version \in Nat /\ d.published \in Nat /\ d.fails \in Nat /\ d.at \in 0..3

IsJob(j) ==
  /\ DOMAIN j = JobFields
  /\ j.c \in Cases /\ j.ver \in Nat /\ j.at \in 0..3 /\ j.tok \in Tokens
  /\ j.att \in Nat /\ j.stalls \in Nat

IsLocal(l) ==
  /\ DOMAIN l = LocalFields
  /\ \A b \in l.batch : b.c \in Cases /\ b.ver \in Nat
  /\ \A j \in l.job : IsJob(j)

LEMMA DocIsDoc == ASSUME NEW d \in Doc PROVE IsDoc(d)
<1>1. DOMAIN d = DocFields
  BY DEF Doc, DocFields
<1>. QED
  BY <1>1 DEF Doc, IsDoc

LEMMA JobIsJob == ASSUME NEW j \in Job PROVE IsJob(j)
BY DEF Job, IsJob, JobFields

LEMMA LocalIsLocal == ASSUME NEW l \in Local PROVE IsLocal(l)
<1>1. DOMAIN l = LocalFields
  BY DEF Local, LocalFields
<1>2. \A j \in l.job : j \in Job
  BY DEF Local
<1>3. \A b \in l.batch : b \in Delivery
  BY DEF Local
<1>. QED
  BY <1>1, <1>2, <1>3, JobIsJob DEF IsLocal, Delivery

(* The types in the form the steps need them.                              *)
Types ==
  /\ DOMAIN doc = Cases /\ \A c \in Cases : IsDoc(doc[c])
  /\ DOMAIN loc = Workers /\ \A w \in Workers : IsLocal(loc[w])
  /\ \A j \in jobs : IsJob(j)
  /\ passed \in [Cases -> 0..3] /\ crashes \in Nat
  /\ None \notin Tokens
  /\ TokenHeld

LEMMA TypesHold == ASSUME TypeInv PROVE Types
<1>1. /\ doc \in [Cases -> Doc] /\ loc \in [Workers -> Local] /\ jobs \subseteq Job
      /\ passed \in [Cases -> 0..3] /\ crashes \in Nat /\ TokenHeld
  BY DEF TypeInv, TypeOK
<1>2. None \notin Tokens
  BY BoundsAssumption DEF None
<1>3. \A c \in Cases : IsDoc(doc[c])
  BY <1>1, DocIsDoc
<1>4. \A w \in Workers : IsLocal(loc[w])
  BY <1>1, LocalIsLocal
<1>5. \A j \in jobs : IsJob(j)
  BY <1>1, JobIsJob
<1>. QED
  BY <1>1, <1>2, <1>3, <1>4, <1>5 DEF Types

-----------------------------------------------------------------------------
(* The clock and the administrator leave what the workers know.            *)
Undisturbed(d, e) ==
  /\ e.status = d.status /\ e.at = d.at /\ e.version = d.version
  /\ e.published = d.published /\ e.dispatch = d.dispatch
  /\ e.eTok = d.eTok /\ e.eVer = d.eVer
  /\ e.cTok = d.cTok /\ e.cDel = d.cDel /\ e.fails = d.fails
  /\ e.eLive => d.eLive
  /\ d.cAt # "null" => e.cAt # "null"

Ended(d, e) ==
  e.status \in Terminal /\ e.version > d.version /\ ~e.eLive /\ e.cTok = None

LEMMA EnvironmentKeepsWatch ==
  ASSUME Types, Types', WatchInv, UNCHANGED <<loc, jobs, crashes>>,
         \A c \in Cases : passed[c] <= passed'[c],
         \A c \in Cases : Undisturbed(doc[c], doc'[c]) \/ Ended(doc[c], doc'[c])
  PROVE  WatchInv'
<1>0. \A c \in Cases : doc[c].version \in Nat /\ doc'[c].version \in Nat
  BY DEF Types, IsDoc
<1>1. ASSUME NEW x, x.c \in Cases, x.ver \in Nat, Known(x)
      PROVE  Known(x)'
  BY <1>0, <1>1 DEF Known, Undisturbed, Ended
<1>2. QueueKnown'
  BY <1>1 DEF WatchInv, QueueKnown, Types, IsJob
<1>3. NeverForgotten'
  <2>. SUFFICES ASSUME NEW c \in Cases, doc'[c].status \in Active PROVE Awaited(c)'
    BY DEF NeverForgotten
  <2>1. Undisturbed(doc[c], doc'[c])
    BY DEF Ended, Active, Terminal
  <2>2. Awaited(c)
    BY <2>1 DEF WatchInv, NeverForgotten, Undisturbed
  <2>. QED
    BY <2>1, <2>2 DEF Awaited, Undisturbed
<1>4. LeaseIsHeld'
  BY DEF WatchInv, LeaseIsHeld, Undisturbed, Ended
<1>5. ASSUME NEW w \in Workers
      PROVE  Knows(w)'
  <2>1. Knows(w) /\ IsLocal(loc[w])
    BY DEF WatchInv, Types
  <2>2. \A x \in loc[w].batch \cup loc[w].job : Known(x)'
    BY <1>1, <2>1 DEF Knows, IsLocal, IsJob
  <2>3. SweepKnows(w)'
    <3>1. loc[w].pc \in {"c_claim", "c_read", "c_add", "c_mark", "c_undo"} =>
            loc[w].tok # None
      BY DEF Types, TokenHeld, SweepPoints
    <3>2. ASSUME NEW c \in Cases, doc'[c].cTok = loc[w].tok, loc[w].tok # None
          PROVE  /\ doc[c].cTok = loc[w].tok /\ doc'[c].fails = doc[c].fails
                 /\ doc[c].cAt # "null" => doc'[c].cAt # "null"
      BY <3>2 DEF Undisturbed, Ended
    <3>. QED
      BY <2>1, <3>1, <3>2 DEF Knows, SweepKnows, InQueue
  <2>4. JobKnows(w)'
    <3>. SUFFICES ASSUME NEW j \in loc[w].job
                  PROVE  /\ loc[w].pc \in JobPoints
                         /\ ~loc[w].owns => InQueue(j.c, j.ver, j.tok)
                         /\ j.ver = doc'[j.c].version =>
                              /\ loc[w].pc = "a_claim" => j.at <= passed'[j.c]
                              /\ loc[w].pc = "a_tx" =>
                                   LeaseHeld(doc'[j.c], j, loc[w].tok, loc[w].now)
                              /\ loc[w].pc = "f_write" => loc[w].fails = doc'[j.c].fails
      BY DEF JobKnows, InQueue
    <3>1. /\ IsJob(j) /\ Known(j) /\ loc[w].pc \in JobPoints
          /\ ~loc[w].owns => InQueue(j.c, j.ver, j.tok)
          /\ j.ver = doc[j.c].version =>
               /\ loc[w].pc = "a_claim" => j.at <= passed[j.c]
               /\ loc[w].pc = "a_tx" => LeaseHeld(doc[j.c], j, loc[w].tok, loc[w].now)
               /\ loc[w].pc = "f_write" => loc[w].fails = doc[j.c].fails
      BY <2>1 DEF Knows, JobKnows, IsLocal
    <3>2. j.ver = doc'[j.c].version => Undisturbed(doc[j.c], doc'[j.c])
      BY <1>0, <3>1 DEF IsJob, Known, Ended
    <3>3. passed[j.c] <= passed'[j.c] /\ passed[j.c] \in 0..3 /\ passed'[j.c] \in 0..3
          /\ j.at \in 0..3
      BY <3>1 DEF Types, IsJob
    <3>. QED
      BY <3>1, <3>2, <3>3 DEF Undisturbed, LeaseHeld
  <2>. QED
    BY <2>1, <2>2, <2>3, <2>4 DEF Knows
<1>. QED
  BY <1>2, <1>3, <1>4, <1>5 DEF WatchInv

LEMMA EnvironmentWatch ==
  ASSUME Types, Types', WatchInv, NEW c \in Cases, ResolveCaseForAdmin(c) \/ Time(c)
  PROVE  WatchInv'
<1>1. /\ UNCHANGED <<loc, jobs, crashes>>
      /\ passed' = passed \/ DeadlinePasses(c)
  BY DEF ResolveCaseForAdmin, Time, DeadlinePasses, ScheduleClaimExpires, LeaseExpires,
         CompensationClaimExpires, CompensationDelayPasses, faults
<1>2. \A k \in Cases : passed[k] <= passed'[k]
  BY <1>1 DEF DeadlinePasses, Types
<1>3. DOMAIN doc = Cases /\ \A k \in Cases : IsDoc(doc[k])
  BY DEF Types
<1>4. \A k \in Cases : Undisturbed(doc[k], doc[k])
  BY DEF Undisturbed
<1>5. CASE Time(c)
  <2>1. \/ doc' = doc
        \/ doc' = [doc EXCEPT ![c].sLive = FALSE]
        \/ doc' = [doc EXCEPT ![c].eLive = FALSE]
        \/ doc' = [doc EXCEPT ![c].cLive = FALSE]
        \/ doc' = [doc EXCEPT ![c].cAt = "now"]
    BY <1>5 DEF Time, DeadlinePasses, ScheduleClaimExpires, LeaseExpires,
                CompensationClaimExpires, CompensationDelayPasses
  <2>2. \A k \in Cases : Undisturbed(doc[k], doc'[k])
    BY <1>3, <2>1 DEF Undisturbed, IsDoc, DocFields
  <2>. QED
    BY <1>1, <1>2, <2>2, EnvironmentKeepsWatch
<1>6. CASE ResolveCaseForAdmin(c)
  <2>1. PICK v \in Terminal : doc' = [doc EXCEPT ![c] = Resolved(doc[c], v)]
    BY <1>3, <1>6 DEF ResolveCaseForAdmin
  <2>2. Ended(doc[c], Resolved(doc[c], v))
    BY <1>3 DEF Ended, Resolved, Completed, IsDoc, DocFields
  <2>3. \A k \in Cases : Undisturbed(doc[k], doc'[k]) \/ Ended(doc[k], doc'[k])
    BY <1>3, <1>4, <2>1, <2>2
  <2>. QED
    BY <1>1, <1>2, <2>3, EnvironmentKeepsWatch
<1>. QED
  BY <1>5, <1>6

-----------------------------------------------------------------------------
(* The sweeps.  A worker that has no job in hand leaves every case waiting *)
(* for a sweep, with a job in the queue or with its failure.               *)
SweepWrites(d, e) == e.status = d.status /\ e.at = d.at /\ e.version = d.version
                     /\ (e.eLive => d.eLive)

StillAwaited(c, d, e) ==
  \/ /\ e.published = d.published /\ e.dispatch = d.dispatch
     /\ e.cDel = d.cDel /\ e.fails = d.fails
     /\ d.cAt # "null" => e.cAt # "null"
  \/ e.fails > 0 /\ e.cAt # "null"
  \/ InQueue(c, e.version, e.cDel)

LEMMA SweepKeepsWatch ==
  ASSUME OneWorker, Types, Types', WatchInv, NEW w \in Workers,
         loc[w].job = {}, loc'[w].job = {},
         jobs' = jobs \/ jobs' = jobs \cup BatchJobs(w), crashes <= crashes',
         \A c \in Cases : /\ SweepWrites(doc[c], doc'[c])
                          /\ StillAwaited(c, doc[c], doc'[c]),
         \A b \in loc'[w].batch :
           b \in loc[w].batch \/ (b.ver = doc[b.c].version /\ b.at = doc[b.c].at),
         SweepKnows(w)'
  PROVE  WatchInv'
<1>0. /\ Knows(w) /\ IsLocal(loc[w]) /\ IsLocal(loc'[w]) /\ crashes \in Nat /\ crashes' \in Nat
      /\ \A c \in Cases : doc[c].version \in Nat
      /\ \A c \in Cases : doc'[c].version = doc[c].version /\ doc'[c].at = doc[c].at
  BY DEF WatchInv, Types, IsDoc, SweepWrites
<1>2. jobs \subseteq jobs'
  OBVIOUS
<1>3. \A x : x.c \in Cases /\ Known(x) => Known(x)'
  BY <1>0 DEF Known
<1>4. QueueKnown'
  <2>1. \A j \in jobs : Known(j)' /\ j.stalls <= crashes'
    BY <1>0, <1>3 DEF WatchInv, QueueKnown, Types, IsJob
  <2>2. \A j \in BatchJobs(w) : Known(j)' /\ j.stalls <= crashes'
    BY <1>0 DEF BatchJobs, Knows, Known, IsLocal
  <2>. QED
    BY <2>1, <2>2 DEF QueueKnown
<1>5. LeaseIsHeld'
  <2>1. \A v \in Workers : loc[v].job = {}
    BY DEF OneWorker
  <2>2. \A c \in Cases : ~doc[c].eLive
    BY <2>1 DEF WatchInv, LeaseIsHeld
  <2>. QED
    BY <2>2 DEF LeaseIsHeld, SweepWrites
<1>6. NeverForgotten'
  <2>. SUFFICES ASSUME NEW c \in Cases, doc'[c].status \in Active PROVE Awaited(c)'
    BY DEF NeverForgotten
  <2>1. Awaited(c) /\ doc'[c].version = doc[c].version
    BY DEF WatchInv, NeverForgotten, SweepWrites
  <2>2. \A v \in Workers : loc[v].job = {}
    BY DEF OneWorker
  <2>3. \/ doc[c].published < doc[c].version /\ doc[c].dispatch
        \/ InQueue(c, doc[c].version, doc[c].cDel)
        \/ doc[c].fails > 0 /\ doc[c].cAt # "null"
    BY <2>1, <2>2 DEF Awaited, InQueue
  <2>4. \A tok : InQueue(c, doc[c].version, tok) =>
          \E j \in jobs' : j.c = c /\ j.ver = doc[c].version /\ j.tok = tok
    BY <1>2 DEF InQueue
  <2>5. \/ doc'[c].published < doc'[c].version /\ doc'[c].dispatch
        \/ InQueue(c, doc[c].version, doc'[c].cDel)
        \/ doc'[c].fails > 0 /\ doc'[c].cAt # "null"
    BY <2>1, <2>3 DEF StillAwaited
  <2>. QED
    BY <2>1, <2>4, <2>5 DEF Awaited
<1>7. Knows(w)'
  <2>1. \A b \in loc'[w].batch : Known(b)'
    BY <1>0, <1>3 DEF Knows, IsLocal, Known
  <2>. QED
    BY <2>1 DEF Knows, JobKnows
<1>. QED
  BY <1>4, <1>5, <1>6, <1>7 DEF WatchInv, OneWorker

LEMMA IdleIsEmpty ==
  ASSUME Types, NEW w \in Workers, Return(w)
  PROVE  /\ loc'[w] = Idle /\ loc'[w].job = {} /\ loc'[w].batch = {}
         /\ SweepKnows(w)'
BY DEF Types, Return, Idle, SweepKnows

LEMMA GoesTo ==
  ASSUME Types, NEW w \in Workers, NEW pc, Goto(w, pc)
  PROVE  /\ loc'[w].pc = pc /\ loc'[w].job = loc[w].job /\ loc'[w].batch = loc[w].batch
         /\ loc'[w].tok = loc[w].tok /\ loc'[w].owns = loc[w].owns
         /\ loc'[w].now = loc[w].now /\ loc'[w].fails = loc[w].fails
BY DEF Types, IsLocal, LocalFields, Goto

LEMMA PublishKeepsWatch ==
  ASSUME OneWorker, Types, Types', WatchInv, NEW w \in Workers,
         StartPublish(w) \/ PublishClaim(w) \/ PublishRead(w)
           \/ AddCaseJobs(w, "p_add", "p_mark") \/ PublishMark(w) \/ PublishUndo(w)
  PROVE  WatchInv'
<1>0. /\ Knows(w) /\ IsLocal(loc[w]) /\ DOMAIN loc = Workers /\ crashes \in Nat
      /\ \A c \in Cases : IsDoc(doc[c])
  BY DEF WatchInv, Types
<1>1. \A c \in Cases : SweepWrites(doc[c], doc[c]) /\ StillAwaited(c, doc[c], doc[c])
  BY DEF SweepWrites, StillAwaited
<1>2. loc[w].pc \notin JobPoints => loc[w].job = {}
  BY <1>0 DEF Knows, JobKnows
<1>3. CASE StartPublish(w)
  <2>1. PICK S \in SUBSET Cases, t \in Tokens :
          loc' = [loc EXCEPT ![w].pc = "p_claim", ![w].tok = t,
                    ![w].batch = {[c |-> c, ver |-> doc[c].version, at |-> doc[c].at] : c \in S}]
    BY <1>3, FreshType DEF StartPublish, Batches
  <2>2. /\ loc'[w].pc = "p_claim" /\ loc'[w].job = loc[w].job
        /\ loc'[w].batch = {[c |-> c, ver |-> doc[c].version, at |-> doc[c].at] : c \in S}
    BY <1>0, <2>1 DEF IsLocal, LocalFields
  <2>3. SweepKnows(w)'
    BY <2>2 DEF SweepKnows
  <2>4. loc[w].pc \notin JobPoints /\ jobs' = jobs /\ crashes' = crashes /\ doc' = doc
    BY <1>3 DEF StartPublish, JobPoints, faults
  <2>. QED
    BY <1>0, <1>1, <1>2, <2>2, <2>3, <2>4, SweepKeepsWatch
<1>4. CASE PublishClaim(w)
  <2>1. \A c \in Cases : SweepWrites(doc[c], doc'[c]) /\ StillAwaited(c, doc[c], doc'[c])
    BY <1>0, <1>4 DEF PublishClaim, SweepWrites, StillAwaited, IsDoc, DocFields
  <2>2. loc[w].pc \notin JobPoints /\ jobs' = jobs /\ crashes' = crashes /\ Goto(w, "p_read")
    BY <1>4 DEF PublishClaim, JobPoints, faults
  <2>3. SweepKnows(w)'
    BY <2>2, GoesTo DEF SweepKnows
  <2>g. loc'[w].job = {} /\ loc'[w].batch = loc[w].batch
    BY <1>2, <2>1, <2>2, GoesTo
  <2>. QED
    BY <1>0, <1>2, <2>1, <2>2, <2>3, <2>g, SweepKeepsWatch
<1>5. CASE PublishRead(w)
  <2>1. loc[w].pc \notin JobPoints /\ jobs' = jobs /\ crashes' = crashes /\ doc' = doc
    BY <1>5 DEF PublishRead, JobPoints, faults
  <2>2. CASE Return(w)
    BY <1>0, <1>1, <1>2, <2>1, <2>2, IdleIsEmpty, SweepKeepsWatch
  <2>3. CASE ~Return(w)
    <3>1. PICK S \in SUBSET Cases :
            loc' = [loc EXCEPT ![w].pc = "p_add",
                      ![w].batch = {[c |-> c, ver |-> doc[c].version, at |-> doc[c].at] : c \in S}]
      BY <1>5, <2>3 DEF PublishRead
    <3>2. /\ loc'[w].pc = "p_add" /\ loc'[w].job = loc[w].job
          /\ loc'[w].batch = {[c |-> c, ver |-> doc[c].version, at |-> doc[c].at] : c \in S}
      BY <1>0, <3>1 DEF IsLocal, LocalFields
    <3>3. SweepKnows(w)'
      BY <3>2 DEF SweepKnows
    <3>. QED
      BY <1>0, <1>1, <1>2, <2>1, <3>2, <3>3, SweepKeepsWatch
  <2>. QED
    BY <2>2, <2>3
<1>6. CASE AddCaseJobs(w, "p_add", "p_mark")
  <2>1. /\ loc[w].pc \notin JobPoints /\ jobs' = jobs \cup BatchJobs(w) /\ crashes' = crashes
        /\ doc' = doc /\ Goto(w, "p_mark")
    BY <1>6 DEF AddCaseJobs, JobPoints, faults
  <2>2. ASSUME NEW b \in loc[w].batch
        PROVE  \E k \in jobs' : k.c = b.c /\ k.ver = b.ver /\ k.tok = loc[w].tok
    <3>. DEFINE k == [c |-> b.c, ver |-> b.ver, at |-> b.at, tok |-> loc[w].tok,
                      att |-> 0, stalls |-> 0]
    <3>1. k \in jobs'
      BY <2>1 DEF BatchJobs
    <3>2. k.c = b.c /\ k.ver = b.ver /\ k.tok = loc[w].tok
      OBVIOUS
    <3>. QED
      BY <3>1, <3>2
  <2>3. SweepKnows(w)'
    BY <2>1, <2>2, GoesTo DEF SweepKnows, InQueue
  <2>g. loc'[w].job = {} /\ loc'[w].batch = loc[w].batch
    BY <1>2, <2>1, GoesTo
  <2>. QED
    BY <1>0, <1>1, <1>2, <2>1, <2>3, <2>g, SweepKeepsWatch
<1>7. CASE PublishMark(w)
  <2>1. loc[w].pc \notin JobPoints /\ jobs' = jobs /\ crashes' = crashes /\ Return(w)
    BY <1>7 DEF PublishMark, JobPoints, faults
  <2>2. ASSUME NEW c \in Cases
        PROVE  SweepWrites(doc[c], doc'[c]) /\ StillAwaited(c, doc[c], doc'[c])
    <3>1. CASE doc'[c] = doc[c]
      BY <1>1, <3>1
    <3>2. CASE doc'[c] # doc[c]
      <4>1. /\ InBatch(w, c) /\ loc[w].pc = "p_mark"
            /\ doc'[c] = [doc[c] EXCEPT !.published = doc[c].version,
                            !.dispatch = FALSE, !.sTok = None, !.sVer = None,
                            !.sLive = FALSE, !.sDel = None, !.cAt = "null",
                            !.cDel = loc[w].tok, !.fails = 0]
        BY <1>7, <3>2 DEF PublishMark
      <4>2. InQueue(c, doc[c].version, loc[w].tok)
        BY <1>0, <4>1 DEF InBatch, Knows, SweepKnows
      <4>. QED
        BY <1>0, <4>1, <4>2 DEF SweepWrites, StillAwaited, IsDoc, DocFields
    <3>. QED
      BY <3>1, <3>2
  <2>. QED
    BY <1>0, <1>2, <2>1, <2>2, IdleIsEmpty, SweepKeepsWatch
<1>8. CASE PublishUndo(w)
  <2>1. \A c \in Cases : SweepWrites(doc[c], doc'[c]) /\ StillAwaited(c, doc[c], doc'[c])
    BY <1>0, <1>8 DEF PublishUndo, SweepWrites, StillAwaited, IsDoc, DocFields
  <2>2. loc[w].pc \notin JobPoints /\ jobs' = jobs /\ crashes' = crashes /\ Return(w)
    BY <1>8 DEF PublishUndo, JobPoints, faults
  <2>. QED
    BY <1>0, <1>2, <2>1, <2>2, IdleIsEmpty, SweepKeepsWatch
<1>. QED
  BY <1>3, <1>4, <1>5, <1>6, <1>7, <1>8

LEMMA CompensationKeepsWatch ==
  ASSUME OneWorker, Types, Types', WatchInv, NEW w \in Workers,
         StartCompensate(w) \/ CompensateClaim(w) \/ CompensateRead(w)
           \/ AddCaseJobs(w, "c_add", "c_mark") \/ CompensateMark(w) \/ CompensateUndo(w)
  PROVE  WatchInv'
<1>0. /\ Knows(w) /\ IsLocal(loc[w]) /\ DOMAIN loc = Workers /\ crashes \in Nat
      /\ \A c \in Cases : IsDoc(doc[c])
  BY DEF WatchInv, Types
<1>1. \A c \in Cases : SweepWrites(doc[c], doc[c]) /\ StillAwaited(c, doc[c], doc[c])
  BY DEF SweepWrites, StillAwaited
<1>2. loc[w].pc \notin JobPoints => loc[w].job = {}
  BY <1>0 DEF Knows, JobKnows
<1>3. CASE StartCompensate(w)
  <2>1. PICK S \in SUBSET Cases, t \in Fresh :
          loc' = [loc EXCEPT ![w].pc = "c_claim", ![w].tok = t,
                    ![w].batch = {[c |-> c, ver |-> doc[c].version, at |-> doc[c].at] : c \in S}]
    BY <1>3 DEF StartCompensate, Batches
  <2>2. /\ loc'[w].pc = "c_claim" /\ loc'[w].job = loc[w].job /\ loc'[w].tok = t
        /\ loc'[w].batch = {[c |-> c, ver |-> doc[c].version, at |-> doc[c].at] : c \in S}
    BY <1>0, <2>1 DEF IsLocal, LocalFields
  <2>3. \A c \in Cases : doc[c].cTok # t
    BY FreshType DEF Used
  <2>4. loc[w].pc \notin JobPoints /\ jobs' = jobs /\ crashes' = crashes /\ doc' = doc
    BY <1>3 DEF StartCompensate, JobPoints, faults
  <2>5. SweepKnows(w)'
    BY <2>2, <2>3, <2>4 DEF SweepKnows
  <2>. QED
    BY <1>0, <1>1, <1>2, <2>2, <2>4, <2>5, SweepKeepsWatch
<1>4. CASE CompensateClaim(w)
  <2>1. loc[w].pc \notin JobPoints /\ jobs' = jobs /\ crashes' = crashes /\ Goto(w, "c_read")
    BY <1>4 DEF CompensateClaim, JobPoints, faults
  <2>2. ASSUME NEW c \in Cases
        PROVE  /\ SweepWrites(doc[c], doc'[c]) /\ StillAwaited(c, doc[c], doc'[c])
               /\ doc'[c].cTok = loc[w].tok => doc'[c].fails > 0 /\ doc'[c].cAt # "null"
    <3>1. CASE doc'[c] = doc[c]
      BY <1>0, <1>1, <1>4, <3>1 DEF CompensateClaim, Knows, SweepKnows
    <3>2. CASE doc'[c] # doc[c]
      <4>1. /\ doc[c].fails > 0 /\ doc[c].cAt = "now"
            /\ doc'[c] = [doc[c] EXCEPT !.cTok = loc[w].tok, !.cLive = TRUE,
                                        !.cDel = loc[w].tok]
        BY <1>4, <3>2 DEF CompensateClaim, Compensable
      <4>. QED
        BY <1>0, <4>1 DEF SweepWrites, StillAwaited, IsDoc, DocFields
    <3>. QED
      BY <3>1, <3>2
  <2>3. SweepKnows(w)'
    BY <2>1, <2>2, GoesTo DEF SweepKnows
  <2>g. loc'[w].job = {} /\ loc'[w].batch = loc[w].batch
    BY <1>2, <2>1, <2>2, GoesTo
  <2>. QED
    BY <1>0, <1>2, <2>1, <2>2, <2>3, <2>g, SweepKeepsWatch
<1>5. CASE CompensateRead(w)
  <2>1. loc[w].pc = "c_read" /\ jobs' = jobs /\ crashes' = crashes /\ doc' = doc
    BY <1>5 DEF CompensateRead, faults
  <2>2. loc[w].pc \notin JobPoints
    BY <2>1 DEF JobPoints
  <2>3. CASE Return(w)
    BY <1>0, <1>1, <1>2, <2>1, <2>2, <2>3, IdleIsEmpty, SweepKeepsWatch
  <2>4. CASE ~Return(w)
    <3>1. PICK S \in SUBSET Cases :
            loc' = [loc EXCEPT ![w].pc = "c_add",
                      ![w].batch = {[c |-> c, ver |-> doc[c].version, at |-> doc[c].at] : c \in S}]
      BY <1>5, <2>4 DEF CompensateRead
    <3>2. /\ loc'[w].pc = "c_add" /\ loc'[w].job = loc[w].job /\ loc'[w].tok = loc[w].tok
          /\ loc'[w].batch = {[c |-> c, ver |-> doc[c].version, at |-> doc[c].at] : c \in S}
      BY <1>0, <3>1 DEF IsLocal, LocalFields
    <3>3. SweepKnows(w)'
      BY <1>0, <2>1, <3>2 DEF Knows, SweepKnows
    <3>. QED
      BY <1>0, <1>1, <1>2, <2>1, <2>2, <3>2, <3>3, SweepKeepsWatch
  <2>. QED
    BY <2>3, <2>4
<1>6. CASE AddCaseJobs(w, "c_add", "c_mark")
  <2>1. /\ loc[w].pc = "c_add" /\ jobs' = jobs \cup BatchJobs(w) /\ crashes' = crashes
        /\ doc' = doc /\ Goto(w, "c_mark")
    BY <1>6 DEF AddCaseJobs, faults
  <2>2. loc[w].pc \notin JobPoints
    BY <2>1 DEF JobPoints
  <2>3. SweepKnows(w)'
    BY <1>0, <2>1, GoesTo DEF Knows, SweepKnows
  <2>g. loc'[w].job = {} /\ loc'[w].batch = loc[w].batch
    BY <1>2, <2>1, <2>2, GoesTo
  <2>. QED
    BY <1>0, <1>1, <1>2, <2>1, <2>2, <2>3, <2>g, SweepKeepsWatch
<1>7. CASE CompensateMark(w)
  <2>1. \A c \in Cases : SweepWrites(doc[c], doc'[c]) /\ StillAwaited(c, doc[c], doc'[c])
    BY <1>0, <1>7 DEF CompensateMark, SweepWrites, StillAwaited, IsDoc, DocFields
  <2>2. loc[w].pc \notin JobPoints /\ jobs' = jobs /\ crashes' = crashes /\ Return(w)
    BY <1>7 DEF CompensateMark, JobPoints, faults
  <2>. QED
    BY <1>0, <1>2, <2>1, <2>2, IdleIsEmpty, SweepKeepsWatch
<1>8. CASE CompensateUndo(w)
  <2>1. ASSUME NEW c \in Cases
        PROVE  SweepWrites(doc[c], doc'[c]) /\ StillAwaited(c, doc[c], doc'[c])
    <3>1. CASE doc'[c] = doc[c]
      BY <1>1, <3>1
    <3>2. CASE doc'[c] # doc[c]
      <4>1. /\ doc[c].cTok = loc[w].tok /\ loc[w].pc = "c_undo"
            /\ doc'[c] = [doc[c] EXCEPT !.cAt = "now", !.cTok = None,
                                        !.cLive = FALSE, !.cDel = None]
        BY <1>8, <3>2 DEF CompensateUndo
      <4>2. doc[c].fails > 0
        BY <1>0, <4>1 DEF Knows, SweepKnows
      <4>. QED
        BY <1>0, <4>1, <4>2 DEF SweepWrites, StillAwaited, IsDoc, DocFields
    <3>. QED
      BY <3>1, <3>2
  <2>2. loc[w].pc \notin JobPoints /\ jobs' = jobs /\ crashes' = crashes /\ Return(w)
    BY <1>8 DEF CompensateUndo, JobPoints, faults
  <2>. QED
    BY <1>0, <1>2, <2>1, <2>2, IdleIsEmpty, SweepKeepsWatch
<1>. QED
  BY <1>3, <1>4, <1>5, <1>6, <1>7, <1>8

-----------------------------------------------------------------------------
(* The jobs.  Of a job that has ended, its case must be waiting again.     *)
Requeued(x, j) == x.c = j.c /\ x.ver = j.ver /\ x.at = j.at

LEMMA JobsStayKnown ==
  ASSUME Types, Types', WatchInv, NEW w \in Workers, NEW j \in loc[w].job,
         crashes <= crashes', \A x \in jobs' : x \in jobs \/ (Requeued(x, j) /\ x.stalls <= crashes'),
         \A c \in Cases : \/ doc'[c].version > doc[c].version
                          \/ doc'[c].version = doc[c].version /\ doc'[c].at = doc[c].at
  PROVE  QueueKnown' /\ \A x \in loc[w].batch \cup loc[w].job : Known(x)'
<1>1. /\ \A c \in Cases : doc[c].version \in Nat /\ doc'[c].version \in Nat
      /\ crashes \in Nat /\ crashes' \in Nat
      /\ Knows(w) /\ IsLocal(loc[w])
  BY DEF Types, IsDoc, WatchInv
<1>2. ASSUME NEW x, x.c \in Cases, x.ver \in Nat, Known(x)
      PROVE  Known(x)'
  BY <1>1, <1>2 DEF Known
<1>3. \A x \in loc[w].batch \cup loc[w].job : Known(x)'
  BY <1>1, <1>2 DEF Knows, IsLocal, IsJob
<1>4. ASSUME NEW x \in jobs'
      PROVE  Known(x)' /\ x.stalls <= crashes'
  <2>1. CASE x \in jobs
    BY <1>1, <1>2, <2>1 DEF WatchInv, QueueKnown, Types, IsJob
  <2>2. CASE Requeued(x, j) /\ x.stalls <= crashes'
    BY <1>3, <2>2 DEF Requeued, Known
  <2>. QED
    BY <1>4, <2>1, <2>2
<1>. QED
  BY <1>3, <1>4 DEF QueueKnown

LEMMA JobReturns ==
  ASSUME OneWorker, Types, Types', WatchInv, NEW w \in Workers, OneJob(w),
         NEW j \in loc[w].job, Return(w),
         jobs \subseteq jobs', crashes <= crashes',
         \A x \in jobs' : x \in jobs \/ (Requeued(x, j) /\ x.stalls <= crashes'),
         \A c \in Cases : /\ c # j.c => doc'[c] = doc[c]
                          /\ ~doc'[c].eLive,
         LET d == doc[j.c]
             e == doc'[j.c]
         IN  /\ e.version > d.version \/ (e.version = d.version /\ e.at = d.at)
             /\ e.status \in Active =>
                  \/ e.published < e.version /\ e.dispatch
                  \/ e.fails > 0 /\ e.cAt # "null"
                  \/ \E k \in jobs' : k.c = j.c /\ k.ver = e.version /\ k.tok = e.cDel
  PROVE  WatchInv'
<1>1. \A c \in Cases : \/ doc'[c].version > doc[c].version
                       \/ doc'[c].version = doc[c].version /\ doc'[c].at = doc[c].at
  OBVIOUS
<1>2. QueueKnown'
  BY <1>1, JobsStayKnown
<1>3. LeaseIsHeld'
  BY DEF LeaseIsHeld
<1>4. Knows(w)'
  BY IdleIsEmpty DEF Knows, JobKnows
<1>5. NeverForgotten'
  <2>. SUFFICES ASSUME NEW c \in Cases, doc'[c].status \in Active PROVE Awaited(c)'
    BY DEF NeverForgotten
  <2>1. CASE c = j.c
    BY <2>1 DEF Awaited
  <2>2. CASE c # j.c
    <3>1. doc'[c] = doc[c] /\ Awaited(c)
      BY <2>2 DEF WatchInv, NeverForgotten
    <3>2. \A v \in Workers : \A k \in loc[v].job : k.c # c
      BY <2>2 DEF OneWorker, OneJob
    <3>. QED
      BY <3>1, <3>2 DEF Awaited
  <2>. QED
    BY <2>1, <2>2
<1>. QED
  BY <1>2, <1>3, <1>4, <1>5 DEF WatchInv, OneWorker

LEMMA JobContinues ==
  ASSUME OneWorker, Types, Types', WatchInv, NEW w \in Workers,
         NEW j \in loc[w].job, loc'[w].job = loc[w].job, loc'[w].batch = loc[w].batch,
         loc'[w].pc \in JobPoints, JobKnows(w)', LeaseIsHeld',
         jobs \subseteq jobs', crashes <= crashes',
         \A x \in jobs' : x \in jobs \/ (Requeued(x, j) /\ x.stalls <= crashes'),
         \A c \in Cases : LET d == doc[c]
                              e == doc'[c]
                          IN  /\ e.status = d.status /\ e.at = d.at /\ e.version = d.version
                              /\ e.published = d.published /\ e.dispatch = d.dispatch
                              /\ e.cAt = d.cAt /\ e.cDel = d.cDel /\ e.fails = d.fails
  PROVE  WatchInv'
<1>1. QueueKnown' /\ \A x \in loc[w].batch \cup loc[w].job : Known(x)'
  BY JobsStayKnown
<1>2. Knows(w)'
  <2>1. SweepKnows(w)'
    BY DEF SweepKnows, JobPoints
  <2>2. \A k \in loc'[w].job : k.stalls <= crashes'
    BY DEF WatchInv, Knows, Types, IsLocal, IsJob
  <2>. QED
    BY <1>1, <2>1, <2>2 DEF Knows
<1>3. NeverForgotten'
  <2>. SUFFICES ASSUME NEW c \in Cases, doc'[c].status \in Active PROVE Awaited(c)'
    BY DEF NeverForgotten
  <2>1. Awaited(c)
    BY DEF WatchInv, NeverForgotten
  <2>2. \A v \in Workers : loc'[v].job = loc[v].job
    BY DEF OneWorker
  <2>. QED
    BY <2>1, <2>2 DEF Awaited
<1>. QED
  BY <1>1, <1>2, <1>3 DEF WatchInv, OneWorker

(* What the job in hand says when its worker is the only one.              *)
LEMMA JobInHand ==
  ASSUME OneWorker, Types, WatchInv, NEW w \in Workers, NEW j \in loc[w].job
  PROVE  /\ IsJob(j) /\ Known(j) /\ j.stalls <= crashes /\ loc[w].pc \in JobPoints
         /\ ~loc[w].owns => InQueue(j.c, j.ver, j.tok)
         /\ loc[w].pc \notin {"a_tx", "a_release"} => \A c \in Cases : ~doc[c].eLive
         /\ \A c \in Cases : doc[c].eLive =>
              /\ doc[c].eTok = loc[w].tok
              /\ \E k \in loc[w].job : k.c = c /\ k.ver = doc[c].version /\ k.ver = doc[c].eVer
<1>1. Knows(w) /\ IsLocal(loc[w])
  BY DEF WatchInv, Types
<1>2. \A c \in Cases : doc[c].eLive =>
        /\ loc[w].pc \in {"a_tx", "a_release"} /\ doc[c].eTok = loc[w].tok
        /\ \E k \in loc[w].job : k.c = c /\ k.ver = doc[c].version /\ k.ver = doc[c].eVer
  BY DEF OneWorker, WatchInv, LeaseIsHeld
<1>. QED
  BY <1>1, <1>2 DEF Knows, JobKnows, IsLocal

(* A case whose delivery is not the one in hand waits without it.          *)
LEMMA WaitsWithoutIt ==
  ASSUME OneWorker, WatchInv, NEW w \in Workers, OneJob(w), NEW j \in loc[w].job,
         j.c \in Cases, doc[j.c].status \in Active,
         ~(j.ver = doc[j.c].version /\ j.tok = doc[j.c].cDel)
  PROVE  \/ doc[j.c].published < doc[j.c].version /\ doc[j.c].dispatch
         \/ doc[j.c].fails > 0 /\ doc[j.c].cAt # "null"
         \/ InQueue(j.c, doc[j.c].version, doc[j.c].cDel)
<1>1. Awaited(j.c)
  BY DEF WatchInv, NeverForgotten
<1>2. \A v \in Workers : \A k \in loc[v].job : k = j
  BY DEF OneWorker, OneJob
<1>. QED
  BY <1>1, <1>2 DEF Awaited, InQueue

LEMMA TakenJobWatch ==
  ASSUME OneWorker, Types, Types', WatchInv, NEW w \in Workers, TakeJob(w)
  PROVE  WatchInv'
<1>1. PICK j \in jobs :
        /\ j.at <= passed[j.c] /\ jobs' = jobs \ {j}
        /\ loc' = [loc EXCEPT ![w] = [Idle EXCEPT !.pc = "a_claim", !.job = {j}, !.owns = TRUE]]
  BY DEF TakeJob
<1>2. /\ loc'[w].pc = "a_claim" /\ loc'[w].job = {j} /\ loc'[w].owns = TRUE /\ loc'[w].batch = {}
      /\ loc[w].pc = "idle" /\ UNCHANGED <<doc, passed, crashes>>
  BY <1>1 DEF TakeJob, Types, Idle, faults
<1>3. Knows(w) /\ IsJob(j) /\ Known(j) /\ j.stalls <= crashes
  BY DEF WatchInv, QueueKnown, Types
<1>4. loc[w].job = {}
  BY <1>2, <1>3 DEF Knows, JobKnows, JobPoints
<1>5. QueueKnown'
  BY <1>1, <1>2 DEF WatchInv, QueueKnown, Known
<1>6. Knows(w)'
  <2>1. SweepKnows(w)' /\ JobKnows(w)'
    BY <1>1, <1>2 DEF SweepKnows, JobKnows, JobPoints
  <2>. QED
    BY <1>2, <1>3, <2>1 DEF Knows, Known
<1>7. LeaseIsHeld'
  <2>1. \A c \in Cases : ~doc[c].eLive
    BY <1>4 DEF OneWorker, WatchInv, LeaseIsHeld
  <2>. QED
    BY <1>2, <2>1 DEF LeaseIsHeld
<1>8. NeverForgotten'
  <2>. SUFFICES ASSUME NEW c \in Cases, doc'[c].status \in Active PROVE Awaited(c)'
    BY DEF NeverForgotten
  <2>1. Awaited(c) /\ \A v \in Workers : loc[v].job = {}
    BY <1>2, <1>4 DEF OneWorker, WatchInv, NeverForgotten
  <2>2. jobs \subseteq jobs' \cup UNION {loc'[v].job : v \in Workers}
    BY <1>1, <1>2
  <2>3. jobs \cup UNION {loc[v].job : v \in Workers} = jobs
    BY <2>1
  <2>. QED
    BY <1>2, <2>1, <2>2, <2>3 DEF Awaited
<1>. QED
  BY <1>5, <1>6, <1>7, <1>8 DEF WatchInv, OneWorker

LEMMA LeaseKeepsWatch ==
  ASSUME OneWorker, PhaseInv, Types, Types', WatchInv, NEW w \in Workers, LeaseCase(w)
  PROVE  WatchInv'
<1>1. PICK j \in loc[w].job :
       \/ /\ Leasable(doc[j.c], j, passed[j.c])
          /\ \E t \in Fresh :
               /\ doc' = [doc EXCEPT ![j.c].eTok = t, ![j.c].eVer = j.ver,
                                     ![j.c].eLive = TRUE]
               /\ loc' = [loc EXCEPT ![w].pc = "a_tx", ![w].tok = t,
                                     ![w].now = passed[j.c]]
       \/ /\ ~Leasable(doc[j.c], j, passed[j.c])
          /\ Return(w) /\ UNCHANGED doc
  BY DEF LeaseCase
<1>2. /\ loc[w].pc = "a_claim" /\ UNCHANGED <<passed, jobs, crashes>>
      /\ OneJob(w) /\ crashes \in Nat
      /\ DOMAIN doc = Cases /\ DOMAIN loc = Workers /\ IsLocal(loc[w])
      /\ \A c \in Cases : IsDoc(doc[c])
  BY DEF LeaseCase, faults, PhaseInv, Types
<1>3. /\ IsJob(j) /\ Known(j)
      /\ ~loc[w].owns => InQueue(j.c, j.ver, j.tok)
      /\ \A c \in Cases : ~doc[c].eLive
  BY <1>2, JobInHand
<1>4. CASE Leasable(doc[j.c], j, passed[j.c])
  <2>1. PICK t \in Fresh :
          /\ doc' = [doc EXCEPT ![j.c].eTok = t, ![j.c].eVer = j.ver, ![j.c].eLive = TRUE]
          /\ loc' = [loc EXCEPT ![w].pc = "a_tx", ![w].tok = t, ![w].now = passed[j.c]]
    BY <1>1, <1>4
  <2>2. /\ loc'[w].pc = "a_tx" /\ loc'[w].tok = t /\ loc'[w].now = passed[j.c]
        /\ loc'[w].job = loc[w].job /\ loc'[w].batch = loc[w].batch
        /\ loc'[w].owns = loc[w].owns
    BY <1>2, <2>1 DEF IsLocal, LocalFields
  <2>3. LET d == doc[j.c]
            e == doc'[j.c]
        IN  /\ e.status = d.status /\ e.at = d.at /\ e.version = d.version
            /\ e.published = d.published /\ e.dispatch = d.dispatch
            /\ e.cAt = d.cAt /\ e.cDel = d.cDel /\ e.fails = d.fails
            /\ e.eTok = t /\ e.eVer = j.ver
    BY <1>2, <1>3, <2>1 DEF IsJob, IsDoc, DocFields
  <2>4. \A c \in Cases : c # j.c => doc'[c] = doc[c]
    BY <1>2, <2>1
  <2>5. LeaseHeld(doc'[j.c], j, t, passed[j.c])
    BY <1>4, <2>3 DEF Leasable, LeaseHeld
  <2>6. JobKnows(w)'
    BY <1>2, <1>3, <2>2, <2>5 DEF JobKnows, OneJob, JobPoints, InQueue
  <2>7. LeaseIsHeld'
    <3>1. j.ver = doc'[j.c].version /\ loc'[w].pc \in {"a_tx", "a_release"}
      BY <1>4, <2>2, <2>3 DEF Leasable
    <3>. QED
      BY <1>3, <2>2, <2>3, <2>4, <3>1 DEF LeaseIsHeld
  <2>8. \A c \in Cases : LET d == doc[c]
                             e == doc'[c]
                         IN  /\ e.status = d.status /\ e.at = d.at /\ e.version = d.version
                             /\ e.published = d.published /\ e.dispatch = d.dispatch
                             /\ e.cAt = d.cAt /\ e.cDel = d.cDel /\ e.fails = d.fails
    BY <2>3, <2>4
  <2>. QED
    BY <1>2, <2>2, <2>6, <2>7, <2>8, JobContinues DEF JobPoints
<1>5. CASE ~Leasable(doc[j.c], j, passed[j.c])
  <2>1. Return(w) /\ doc' = doc
    BY <1>1, <1>5
  <2>2. ASSUME doc[j.c].status \in Active, j.ver = doc[j.c].version, j.tok = doc[j.c].cDel
        PROVE  FALSE
    <3>1. doc[j.c].at # 0
      BY <1>3, <2>2 DEF PhaseInv, AtPhase, IsJob, Timeline!NextDeadline, Active, Terminal
    <3>2. doc[j.c].at <= passed[j.c]
      BY <1>2, <1>3, <2>2 DEF WatchInv, Knows, JobKnows, Known
    <3>. QED
      BY <1>3, <1>5, <2>2, <3>1, <3>2 DEF Leasable, IsJob
  <2>3. doc[j.c].status \in Active =>
          \/ doc[j.c].published < doc[j.c].version /\ doc[j.c].dispatch
          \/ doc[j.c].fails > 0 /\ doc[j.c].cAt # "null"
          \/ InQueue(j.c, doc[j.c].version, doc[j.c].cDel)
    BY <1>2, <1>3, <2>2, WaitsWithoutIt DEF IsJob
  <2>. QED
    BY <1>2, <1>3, <2>1, <2>3, JobReturns DEF InQueue
<1>. QED
  BY <1>4, <1>5

(* What the deadline transaction makes of a case.                          *)
LEMMA TransitionRenews ==
  ASSUME NEW d \in Doc, d.published <= d.version, NEW now,
         NEW e \in Transition(d, now)
  PROVE  /\ e.version > d.version /\ ~e.eLive
         /\ e.status \in Active => e.published < e.version /\ e.dispatch
<1> DEFINE seen == [d EXCEPT !.reviewed = TRUE]
           urgent == [d EXCEPT !.status = "EMERGENCY", !.reviewed = TRUE]
<1>0. IsDoc(d)
  BY DocIsDoc
<1>1. \/ \E v \in Terminal : e = Resolved(seen, v)
      \/ e = Rescheduled(urgent, 3) \/ e = Rescheduled(seen, 2)
  BY Zenon DEF Transition
<1>2. /\ IsDoc(seen) /\ seen.version = d.version
      /\ IsDoc(urgent) /\ urgent.version = d.version
  BY <1>0 DEF IsDoc, DocFields
<1>3. ASSUME NEW f, NEW at, IsDoc(f), f.version = d.version
      PROVE  Rescheduled(f, at).version > d.version /\ ~Rescheduled(f, at).eLive
             /\ Rescheduled(f, at).dispatch
  BY <1>3 DEF Rescheduled, IsDoc, DocFields
<1>4. ASSUME NEW f, NEW v, IsDoc(f), f.version = d.version
      PROVE  Resolved(f, v).version > d.version /\ ~Resolved(f, v).eLive
  BY <1>4 DEF Resolved, Completed, IsDoc, DocFields
<1>5. e.status \in Active => e.published < e.version
  BY RescheduledUnpublished
<1>6. ASSUME NEW v \in Terminal, e = Resolved(seen, v)
      PROVE  e.status \notin Active
  BY <1>2, <1>6 DEF Resolved, Completed, IsDoc, DocFields, Active, Terminal
<1>. HIDE DEF seen, urgent
<1>. QED
  BY <1>1, <1>2, <1>3, <1>4, <1>5, <1>6

LEMMA AdvanceKeepsWatch ==
  ASSUME OneWorker, PhaseInv, DeliveryInv, Types, Types', WatchInv,
         NEW w \in Workers, AdvanceClaimedDeadline(w)
  PROVE  WatchInv'
<1>1. PICK j \in loc[w].job :
        IF LeaseHeld(doc[j.c], j, loc[w].tok, loc[w].now)
          THEN \E d \in Transition(doc[j.c], loc[w].now) : doc' = [doc EXCEPT ![j.c] = d]
          ELSE UNCHANGED doc
  BY DEF AdvanceClaimedDeadline
<1>2. /\ loc[w].pc = "a_tx" /\ UNCHANGED <<jobs, crashes>> /\ Return(w)
      /\ OneJob(w) /\ crashes \in Nat /\ DOMAIN doc = Cases
      /\ \A c \in Cases : doc[c] \in Doc /\ doc[c].published <= doc[c].version
  BY DEF AdvanceClaimedDeadline, faults, PhaseInv, DeliveryInv, TypeInv, TypeOK
<1>3. /\ IsJob(j) /\ Known(j)
      /\ \A c \in Cases : doc[c].eLive =>
           /\ doc[c].eTok = loc[w].tok
           /\ j.c = c /\ j.ver = doc[c].version /\ j.ver = doc[c].eVer
      /\ j.ver = doc[j.c].version => LeaseHeld(doc[j.c], j, loc[w].tok, loc[w].now)
  <2>1. \A k \in loc[w].job : k = j
    BY <1>2 DEF OneJob
  <2>. QED
    BY <1>2, <2>1, JobInHand DEF WatchInv, Knows, JobKnows
<1>4. CASE LeaseHeld(doc[j.c], j, loc[w].tok, loc[w].now)
  <2>1. PICK e \in Transition(doc[j.c], loc[w].now) : doc' = [doc EXCEPT ![j.c] = e]
    BY <1>1, <1>4
  <2>2. /\ e.version > doc[j.c].version /\ ~e.eLive
        /\ e.status \in Active => e.published < e.version /\ e.dispatch
    BY <1>2, <1>3, TransitionRenews DEF IsJob
  <2>3. doc'[j.c] = e /\ \A c \in Cases : c # j.c => doc'[c] = doc[c]
    BY <1>2, <1>3, <2>1 DEF IsJob
  <2>4. \A c \in Cases : ~doc'[c].eLive
    BY <1>3, <2>2, <2>3
  <2>. QED
    BY <1>2, <1>3, <2>2, <2>3, <2>4, JobReturns
<1>5. CASE ~LeaseHeld(doc[j.c], j, loc[w].tok, loc[w].now)
  <2>1. doc' = doc /\ j.ver # doc[j.c].version
    BY <1>1, <1>3, <1>5
  <2>2. \A c \in Cases : ~doc[c].eLive
    BY <1>3, <2>1
  <2>3. doc[j.c].status \in Active =>
          \/ doc[j.c].published < doc[j.c].version /\ doc[j.c].dispatch
          \/ doc[j.c].fails > 0 /\ doc[j.c].cAt # "null"
          \/ InQueue(j.c, doc[j.c].version, doc[j.c].cDel)
    BY <1>2, <1>3, <2>1, WaitsWithoutIt DEF IsJob
  <2>. QED
    BY <1>2, <1>3, <2>1, <2>2, <2>3, JobReturns DEF InQueue
<1>. QED
  BY <1>4, <1>5

(* An attempt ends when no lease runs.                                     *)
LEMMA AttemptEndKeepsWatch ==
  ASSUME OneWorker, PhaseInv, Types, Types', WatchInv, NEW w \in Workers,
         NEW j \in loc[w].job, EndAttempt(w, j), crashes' = crashes,
         \A c \in Cases : ~doc'[c].eLive,
         \A c \in Cases : c # j.c => doc'[c] = doc[c],
         LET d == doc[j.c]
             e == doc'[j.c]
         IN  /\ e.status = d.status /\ e.at = d.at /\ e.version = d.version
             /\ e.published = d.published /\ e.dispatch = d.dispatch
             /\ e.cAt = d.cAt /\ e.cDel = d.cDel /\ e.fails = d.fails
  PROVE  WatchInv'
<1>1. /\ IsJob(j) /\ Known(j) /\ j.stalls <= crashes /\ loc[w].pc \in JobPoints
      /\ ~loc[w].owns => InQueue(j.c, j.ver, j.tok)
      /\ OneJob(w) /\ crashes \in Nat
  BY JobInHand DEF PhaseInv, Types
<1>2. CASE j.att + 1 >= Attempts
  <2>1. Goto(w, "f_read") /\ jobs' = jobs
    BY <1>2 DEF EndAttempt
  <2>2. /\ loc'[w].pc = "f_read" /\ loc'[w].job = loc[w].job /\ loc'[w].batch = loc[w].batch
        /\ loc'[w].owns = loc[w].owns
    BY <2>1, GoesTo
  <2>3. JobKnows(w)'
    BY <1>1, <2>1, <2>2 DEF JobKnows, JobPoints, OneJob, InQueue
  <2>4. LeaseIsHeld'
    BY DEF LeaseIsHeld
  <2>5. \A c \in Cases : LET d == doc[c]
                             e == doc'[c]
                         IN  /\ e.status = d.status /\ e.at = d.at /\ e.version = d.version
                             /\ e.published = d.published /\ e.dispatch = d.dispatch
                             /\ e.cAt = d.cAt /\ e.cDel = d.cDel /\ e.fails = d.fails
    OBVIOUS
  <2>. QED
    BY <1>1, <2>1, <2>2, <2>3, <2>4, <2>5, JobContinues DEF JobPoints
<1>3. CASE ~(j.att + 1 >= Attempts)
  <2>. DEFINE k == [j EXCEPT !.att = @ + 1]
  <2>1. Return(w) /\ jobs' = IF loc[w].owns THEN jobs \cup {k} ELSE jobs
    BY <1>3 DEF EndAttempt
  <2>2. Requeued(k, j) /\ k.stalls = j.stalls /\ k.tok = j.tok
    BY <1>1 DEF IsJob, JobFields, Requeued
  <2>. HIDE DEF k
  <2>3. \A x \in jobs' : x \in jobs \/ (Requeued(x, j) /\ x.stalls <= crashes')
    BY <1>1, <2>1, <2>2
  <2>4. \E x \in jobs' : x.c = j.c /\ x.ver = j.ver /\ x.tok = j.tok
    BY <1>1, <2>1, <2>2 DEF InQueue, Requeued
  <2>5. jobs \subseteq jobs'
    BY <2>1
  <2>6. doc[j.c].status \in Active =>
          \/ doc[j.c].published < doc[j.c].version /\ doc[j.c].dispatch
          \/ doc[j.c].fails > 0 /\ doc[j.c].cAt # "null"
          \/ \E x \in jobs' : x.c = j.c /\ x.ver = doc[j.c].version /\ x.tok = doc[j.c].cDel
    <3>1. CASE j.ver = doc[j.c].version /\ j.tok = doc[j.c].cDel
      BY <2>4, <3>1
    <3>2. CASE ~(j.ver = doc[j.c].version /\ j.tok = doc[j.c].cDel)
      BY <1>1, <2>5, <3>2, WaitsWithoutIt DEF IsJob, InQueue
    <3>. QED
      BY <3>1, <3>2
  <2>. QED
    BY <1>1, <2>1, <2>3, <2>5, <2>6, JobReturns
<1>. QED
  BY <1>2, <1>3

LEMMA ReleaseKeepsWatch ==
  ASSUME OneWorker, PhaseInv, Types, Types', WatchInv, NEW w \in Workers, ReleaseClaim(w)
  PROVE  WatchInv'
<1>1. PICK j \in loc[w].job :
        /\ doc' = IF /\ doc[j.c].version = j.ver /\ doc[j.c].eVer = j.ver
                     /\ doc[j.c].eTok = loc[w].tok
                    THEN [doc EXCEPT ![j.c].eTok = None, ![j.c].eVer = None,
                                     ![j.c].eLive = FALSE]
                    ELSE doc
        /\ EndAttempt(w, j)
  BY DEF ReleaseClaim
<1>2. /\ loc[w].pc = "a_release" /\ crashes' = crashes /\ OneJob(w) /\ DOMAIN doc = Cases
      /\ \A c \in Cases : IsDoc(doc[c])
  BY DEF ReleaseClaim, faults, PhaseInv, Types
<1>3. /\ j.c \in Cases
      /\ \A c \in Cases : doc[c].eLive =>
           /\ doc[c].eTok = loc[w].tok
           /\ j.c = c /\ j.ver = doc[c].version /\ j.ver = doc[c].eVer
  <2>1. \A k \in loc[w].job : k = j
    BY <1>2 DEF OneJob
  <2>. QED
    BY <1>2, <2>1, JobInHand DEF IsJob
<1>4. \A c \in Cases : c # j.c => doc'[c] = doc[c]
  BY <1>1, <1>2, <1>3
<1>5. LET d == doc[j.c]
          e == doc'[j.c]
      IN  /\ e.status = d.status /\ e.at = d.at /\ e.version = d.version
          /\ e.published = d.published /\ e.dispatch = d.dispatch
          /\ e.cAt = d.cAt /\ e.cDel = d.cDel /\ e.fails = d.fails
          /\ ~e.eLive
  BY <1>1, <1>2, <1>3 DEF IsDoc, DocFields
<1>6. \A c \in Cases : ~doc'[c].eLive
  BY <1>3, <1>4, <1>5
<1>. QED
  BY <1>1, <1>2, <1>4, <1>5, <1>6, AttemptEndKeepsWatch

LEMMA HandBackKeepsWatch ==
  ASSUME OneWorker, PhaseInv, Types, Types', WatchInv, NEW w \in Workers,
         FailedRead(w) \/ FailedWrite(w)
  PROVE  WatchInv'
<1>1. /\ loc[w].pc \in {"f_read", "f_write"} /\ UNCHANGED <<jobs, passed, crashes>>
      /\ OneJob(w) /\ crashes \in Nat /\ DOMAIN doc = Cases /\ DOMAIN loc = Workers
      /\ IsLocal(loc[w]) /\ \A c \in Cases : IsDoc(doc[c])
  BY DEF FailedRead, FailedWrite, faults, PhaseInv, Types
<1>2. \A c \in Cases : ~doc[c].eLive
  BY <1>1 DEF OneWorker, WatchInv, LeaseIsHeld
<1>3. ASSUME NEW j \in loc[w].job
      PROVE  /\ IsJob(j) /\ Known(j)
             /\ ~loc[w].owns => InQueue(j.c, j.ver, j.tok)
             /\ loc[w].pc = "f_write" /\ j.ver = doc[j.c].version => loc[w].fails = doc[j.c].fails
  BY <1>3, JobInHand DEF WatchInv, Knows, JobKnows
<1>4. ASSUME NEW j \in loc[w].job, Return(w), doc' = doc,
             ~(j.ver = doc[j.c].version /\ j.tok = doc[j.c].cDel)
      PROVE  WatchInv'
  <2>1. doc[j.c].status \in Active =>
          \/ doc[j.c].published < doc[j.c].version /\ doc[j.c].dispatch
          \/ doc[j.c].fails > 0 /\ doc[j.c].cAt # "null"
          \/ InQueue(j.c, doc[j.c].version, doc[j.c].cDel)
    BY <1>1, <1>3, <1>4, WaitsWithoutIt DEF IsJob
  <2>. QED
    BY <1>1, <1>2, <1>3, <1>4, <2>1, JobReturns DEF InQueue
<1>5. CASE FailedRead(w)
  <2>1. PICK j \in loc[w].job :
          IF HoldsDelivery(doc[j.c], j)
            THEN loc' = [loc EXCEPT ![w].pc = "f_write", ![w].fails = doc[j.c].fails]
            ELSE Return(w)
    BY <1>5 DEF FailedRead
  <2>2. doc' = doc
    BY <1>5 DEF FailedRead
  <2>3. CASE HoldsDelivery(doc[j.c], j)
    <3>1. /\ loc'[w].pc = "f_write" /\ loc'[w].fails = doc[j.c].fails
          /\ loc'[w].job = loc[w].job /\ loc'[w].batch = loc[w].batch
          /\ loc'[w].owns = loc[w].owns
      BY <1>1, <2>1, <2>3 DEF IsLocal, LocalFields
    <3>2. JobKnows(w)'
      BY <1>1, <1>3, <2>2, <3>1 DEF JobKnows, JobPoints, OneJob, InQueue
    <3>3. LeaseIsHeld'
      BY <1>2, <2>2 DEF LeaseIsHeld
    <3>. QED
      BY <1>1, <2>2, <3>1, <3>2, <3>3, JobContinues DEF JobPoints
  <2>4. CASE ~HoldsDelivery(doc[j.c], j)
    BY <1>4, <2>1, <2>2, <2>4 DEF HoldsDelivery
  <2>. QED
    BY <2>3, <2>4
<1>6. CASE FailedWrite(w)
  <2>1. PICK j \in loc[w].job :
          doc' = IF HoldsDelivery(doc[j.c], j) /\ doc[j.c].fails = loc[w].fails
                   THEN [doc EXCEPT ![j.c].cAt = "later", ![j.c].cTok = None,
                                    ![j.c].cLive = FALSE, ![j.c].cDel = None,
                                    ![j.c].fails = @ + 1]
                   ELSE doc
    BY <1>6, Zenon DEF FailedWrite
  <2>2. Return(w) /\ loc[w].pc = "f_write"
    BY <1>6 DEF FailedWrite
  <2>3. CASE HoldsDelivery(doc[j.c], j) /\ doc[j.c].fails = loc[w].fails
    <3>1. PICK n : /\ n = doc[j.c].fails + 1
                   /\ doc' = [doc EXCEPT ![j.c].cAt = "later", ![j.c].cTok = None,
                                         ![j.c].cLive = FALSE, ![j.c].cDel = None,
                                         ![j.c].fails = n]
      BY <1>1, <1>3, <2>1, <2>3 DEF IsJob, IsDoc, DocFields
    <3>2. LET d == doc[j.c]
              e == doc'[j.c]
          IN  /\ e.at = d.at /\ e.version = d.version /\ e.eLive = d.eLive
              /\ e.fails = n /\ e.cAt = "later"
      BY <1>1, <1>3, <3>1 DEF IsJob, IsDoc, DocFields
    <3>3. n > 0 /\ "later" # "null"
      BY <1>1, <1>3, <3>1 DEF IsJob, IsDoc
    <3>4. \A c \in Cases : c # j.c => doc'[c] = doc[c]
      BY <1>1, <3>1
    <3>5. \A c \in Cases : ~doc'[c].eLive
      BY <1>2, <3>2, <3>4
    <3>. QED
      BY <1>1, <2>2, <3>2, <3>3, <3>4, <3>5, JobReturns
  <2>4. CASE ~(HoldsDelivery(doc[j.c], j) /\ doc[j.c].fails = loc[w].fails)
    <3>1. doc' = doc
      BY <2>1, <2>4
    <3>2. ~(j.ver = doc[j.c].version /\ j.tok = doc[j.c].cDel)
      BY <1>3, <2>2, <2>4 DEF HoldsDelivery
    <3>. QED
      BY <1>4, <2>2, <3>1, <3>2
  <2>. QED
    BY <2>3, <2>4
<1>. QED
  BY <1>5, <1>6

-----------------------------------------------------------------------------
(* The faults.                                                             *)

LEMMA SweepFaultKeepsWatch ==
  ASSUME OneWorker, Types, Types', WatchInv, NEW w \in Workers,
         SweepFails(w) \/ AddFailsAfterAccept(w)
  PROVE  WatchInv'
<1>0. /\ Knows(w) /\ crashes \in Nat /\ crashes' = crashes /\ doc' = doc
      /\ loc[w].pc \in SweepPoints
  BY DEF WatchInv, Types, SweepFails, AddFailsAfterAccept, SweepPoints
<1>1. \A c \in Cases : SweepWrites(doc[c], doc[c]) /\ StillAwaited(c, doc[c], doc[c])
  BY DEF SweepWrites, StillAwaited
<1>2. loc[w].job = {}
  BY <1>0 DEF Knows, JobKnows, SweepPoints, JobPoints
<1>3. jobs' = jobs \/ jobs' = jobs \cup BatchJobs(w)
  BY DEF SweepFails, AddFailsAfterAccept
<1>4. CASE Return(w)
  BY <1>0, <1>1, <1>2, <1>3, <1>4, IdleIsEmpty, SweepKeepsWatch
<1>5. CASE Goto(w, "p_undo")
  <2>1. loc'[w].job = {} /\ loc'[w].batch = loc[w].batch /\ SweepKnows(w)'
    BY <1>2, <1>5, GoesTo DEF SweepKnows
  <2>. QED
    BY <1>0, <1>1, <1>2, <1>3, <2>1, SweepKeepsWatch
<1>6. CASE Goto(w, "c_undo") /\ loc[w].pc = "c_add"
  <2>1. /\ loc'[w].job = {} /\ loc'[w].batch = loc[w].batch
        /\ loc'[w].pc = "c_undo" /\ loc'[w].tok = loc[w].tok
    BY <1>2, <1>6, GoesTo
  <2>2. SweepKnows(w)'
    BY <1>0, <1>6, <2>1 DEF Knows, SweepKnows
  <2>. QED
    BY <1>0, <1>1, <1>2, <1>3, <2>1, <2>2, SweepKeepsWatch
<1>. QED
  BY <1>4, <1>5, <1>6 DEF SweepFails, AddFailsAfterAccept

LEMMA JobFaultKeepsWatch ==
  ASSUME OneWorker, RecoverableFaults, PhaseInv, Types, Types', WatchInv,
         NEW w \in Workers, JobFails(w)
  PROVE  WatchInv'
<1>1. PICK j \in loc[w].job :
        CASE loc[w].pc = "a_tx" -> Goto(w, "a_release") /\ UNCHANGED jobs
          [] loc[w].pc \in {"a_claim", "a_release"} -> EndAttempt(w, j)
          [] OTHER -> Return(w) /\ UNCHANGED jobs
  BY DEF JobFails
<1>2. /\ loc[w].pc \in {"a_claim", "a_tx"} /\ UNCHANGED <<doc, passed, crashes>>
      /\ crashes \in Nat
  BY DEF JobFails, RecoverableFaults, JobPoints, Types
<1>3. CASE loc[w].pc = "a_claim"
  <2>1. EndAttempt(w, j)
    BY <1>1, <1>3
  <2>2. \A c \in Cases : ~doc[c].eLive
    BY <1>3, JobInHand
  <2>. QED
    BY <1>2, <2>1, <2>2, AttemptEndKeepsWatch
<1>4. CASE loc[w].pc = "a_tx"
  <2>1. Goto(w, "a_release") /\ jobs' = jobs
    BY <1>1, <1>4
  <2>2. /\ loc'[w].pc = "a_release" /\ loc'[w].job = loc[w].job /\ loc'[w].batch = loc[w].batch
        /\ loc'[w].tok = loc[w].tok /\ loc'[w].owns = loc[w].owns
    BY <2>1, GoesTo
  <2>3. JobKnows(w)'
    BY <1>2, <2>1, <2>2 DEF WatchInv, Knows, JobKnows, JobPoints, InQueue
  <2>4. LeaseIsHeld'
    <3>1. \A c \in Cases : doc[c].eLive =>
            /\ doc[c].eTok = loc[w].tok
            /\ \E k \in loc[w].job : k.c = c /\ k.ver = doc[c].version /\ k.ver = doc[c].eVer
      BY JobInHand
    <3>. QED
      BY <1>2, <2>2, <3>1 DEF LeaseIsHeld
  <2>. QED
    BY <1>2, <2>1, <2>2, <2>3, <2>4, JobContinues DEF JobPoints
<1>. QED
  BY <1>2, <1>3, <1>4

(* A worker that goes silent: BullMQ requeues what it had a lock on.       *)
LEMMA StalledIsRequeued ==
  ASSUME Types, RecoverableFaults, crashes < MaxCrashes, crashes' = crashes + 1,
         NEW j, IsJob(j), j.stalls <= crashes
  PROVE  /\ \E k \in Stalled(j) : Requeued(k, j) /\ k.tok = j.tok
         /\ \A k \in Stalled(j) : Requeued(k, j) /\ k.tok = j.tok /\ k.stalls <= crashes'
<1>. DEFINE k == [j EXCEPT !.stalls = @ + 1]
<1>1. crashes \in Nat /\ MaxCrashes \in Nat /\ MaxStalled \in Nat /\ j.stalls \in Nat
  BY BoundsAssumption DEF Types, IsJob
<1>2. Stalled(j) = {k}
  BY <1>1 DEF Stalled, RecoverableFaults
<1>3. Requeued(k, j) /\ k.tok = j.tok /\ k.stalls = j.stalls + 1
  BY DEF IsJob, JobFields, Requeued
<1>. HIDE DEF k
<1>. QED
  BY <1>1, <1>2, <1>3

LEMMA SilenceKeepsWatch ==
  ASSUME OneWorker, RecoverableFaults, PhaseInv, Types, Types', WatchInv,
         NEW w \in Workers, Crash(w) \/ LockLost(w)
  PROVE  WatchInv'
<1>0. /\ Knows(w) /\ crashes \in Nat /\ crashes' = crashes + 1 /\ crashes < MaxCrashes
      /\ UNCHANGED <<doc, passed>> /\ OneJob(w)
      /\ IsLocal(loc[w]) /\ DOMAIN loc = Workers
  BY DEF WatchInv, Types, Crash, LockLost, PhaseInv
<1>1. \A c \in Cases : SweepWrites(doc[c], doc[c]) /\ StillAwaited(c, doc[c], doc[c])
  BY DEF SweepWrites, StillAwaited
<1>2. CASE loc[w].job = {}
  <2>1. jobs' = jobs
    BY <1>2 DEF Crash, LockLost
  <2>2. CASE Crash(w)
    <3>1. Return(w)
      BY <2>2 DEF Crash
    <3>. QED
      BY <1>0, <1>1, <1>2, <2>1, <3>1, IdleIsEmpty, SweepKeepsWatch
  <2>3. CASE LockLost(w)
    <3>1. /\ loc'[w].job = {} /\ loc'[w].batch = loc[w].batch
          /\ loc'[w].pc \in JobPoints
      BY <1>0, <1>2, <2>3 DEF LockLost, IsLocal, LocalFields
    <3>2. SweepKnows(w)'
      BY <3>1 DEF SweepKnows, JobPoints
    <3>. QED
      BY <1>0, <1>1, <1>2, <2>1, <3>1, <3>2, SweepKeepsWatch
  <2>. QED
    BY <2>2, <2>3
<1>3. ASSUME NEW j \in loc[w].job
      PROVE  WatchInv'
  <2>1. /\ IsJob(j) /\ Known(j) /\ j.stalls <= crashes /\ loc[w].pc \in JobPoints
        /\ ~loc[w].owns => InQueue(j.c, j.ver, j.tok)
        /\ loc[w].pc \notin {"a_tx", "a_release"} => \A c \in Cases : ~doc[c].eLive
        /\ loc[w].job = {j}
    BY <1>0, JobInHand DEF OneJob
  <2>2. /\ \E k \in Stalled(j) : Requeued(k, j) /\ k.tok = j.tok
        /\ \A k \in Stalled(j) : Requeued(k, j) /\ k.tok = j.tok /\ k.stalls <= crashes'
    BY <1>0, <2>1, StalledIsRequeued
  <2>3. jobs' = IF loc[w].owns THEN jobs \cup Stalled(j) ELSE jobs
    BY <2>1 DEF Crash, LockLost
  <2>4. /\ jobs \subseteq jobs'
        /\ \A x \in jobs' : x \in jobs \/ (Requeued(x, j) /\ x.stalls <= crashes')
    BY <2>2, <2>3
  <2>5. \E x \in jobs' : x.c = j.c /\ x.ver = j.ver /\ x.tok = j.tok
    BY <2>1, <2>2, <2>3 DEF InQueue, Requeued
  <2>6. CASE Crash(w)
    <3>1. Return(w) /\ loc[w].pc \notin {"a_tx", "a_release"}
      BY <2>6 DEF Crash, RecoverableFaults
    <3>2. doc[j.c].status \in Active =>
            \/ doc[j.c].published < doc[j.c].version /\ doc[j.c].dispatch
            \/ doc[j.c].fails > 0 /\ doc[j.c].cAt # "null"
            \/ \E x \in jobs' : x.c = j.c /\ x.ver = doc[j.c].version /\ x.tok = doc[j.c].cDel
      <4>1. CASE j.ver = doc[j.c].version /\ j.tok = doc[j.c].cDel
        BY <2>5, <4>1
      <4>2. CASE ~(j.ver = doc[j.c].version /\ j.tok = doc[j.c].cDel)
        BY <1>0, <2>1, <2>4, <4>2, WaitsWithoutIt DEF IsJob, InQueue
      <4>. QED
        BY <4>1, <4>2
    <3>. QED
      BY <1>0, <2>1, <2>4, <3>1, <3>2, JobReturns
  <2>7. CASE LockLost(w)
    <3>1. /\ loc'[w].pc = loc[w].pc /\ loc'[w].job = loc[w].job /\ loc'[w].batch = loc[w].batch
          /\ loc'[w].tok = loc[w].tok /\ loc'[w].now = loc[w].now /\ loc'[w].fails = loc[w].fails
      BY <1>0, <2>7 DEF LockLost, IsLocal, LocalFields
    <3>2. JobKnows(w)'
      BY <1>0, <2>1, <2>5, <3>1 DEF Knows, JobKnows, InQueue
    <3>3. LeaseIsHeld'
      <4>1. \A c \in Cases : doc[c].eLive =>
              /\ doc[c].eTok = loc[w].tok
              /\ \E k \in loc[w].job : k.c = c /\ k.ver = doc[c].version /\ k.ver = doc[c].eVer
        BY <1>3, JobInHand
      <4>. QED
        BY <1>0, <2>1, <3>1, <4>1 DEF LeaseIsHeld
    <3>4. loc'[w].pc \in JobPoints /\ crashes <= crashes' /\ \A c \in Cases : doc'[c] = doc[c]
      BY <1>0, <2>1, <3>1
    <3>. QED
      BY <2>4, <3>1, <3>2, <3>3, <3>4, JobContinues
  <2>. QED
    BY <2>6, <2>7
<1>. QED
  BY <1>2, <1>3

-----------------------------------------------------------------------------
LEMMA WorkerKeepsWatch ==
  ASSUME OneWorker, RecoverableFaults, PhaseInv, DeliveryInv, Types, Types', WatchInv,
         NEW w \in Workers, Sweep(w) \/ TakeJob(w) \/ Process(w) \/ Fault(w)
  PROVE  WatchInv'
<1>1. CASE Sweep(w)
  BY <1>1, PublishKeepsWatch, CompensationKeepsWatch DEF Sweep
<1>2. CASE TakeJob(w)
  BY <1>2, TakenJobWatch
<1>3. CASE Process(w)
  BY <1>3, LeaseKeepsWatch, AdvanceKeepsWatch, ReleaseKeepsWatch, HandBackKeepsWatch DEF Process
<1>4. CASE Fault(w)
  BY <1>4, SweepFaultKeepsWatch, JobFaultKeepsWatch, SilenceKeepsWatch DEF Fault
<1>. QED
  BY <1>1, <1>2, <1>3, <1>4

LEMMA NextWatchInv ==
  ASSUME OneWorker, RecoverableFaults, PhaseInv, DeliveryInv, Types, Types', WatchInv,
         [Next]_vars
  PROVE  WatchInv'
<1>1. CASE UNCHANGED vars
  <2>1. UNCHANGED <<doc, passed, jobs, loc, crashes>>
    BY <1>1 DEF vars
  <2>2. \A c \in Cases : passed[c] <= passed'[c]
    BY <2>1 DEF Types
  <2>3. \A c \in Cases : Undisturbed(doc[c], doc'[c])
    BY <2>1 DEF Undisturbed
  <2>. QED
    BY <2>1, <2>2, <2>3, EnvironmentKeepsWatch
<1>2. CASE Next
  BY <1>2, WorkerKeepsWatch, EnvironmentWatch DEF Next
<1>. QED
  BY <1>1, <1>2

LEMMA InitWatchInv == ASSUME Init PROVE WatchInv
<1>1. /\ doc = [c \in Cases |-> NewCase] /\ jobs = {}
      /\ loc = [w \in Workers |-> Idle]
  BY DEF Init
<1>2. NeverForgotten
  BY <1>1 DEF NeverForgotten, Awaited, NewCase
<1>3. QueueKnown /\ LeaseIsHeld
  BY <1>1 DEF QueueKnown, LeaseIsHeld, NewCase
<1>4. \A w \in Workers : Knows(w)
  BY <1>1 DEF Knows, SweepKnows, JobKnows, Idle
<1>. QED
  BY <1>2, <1>3, <1>4 DEF WatchInv

(* With one API process, as deployed, and faults from which the outbox     *)
(* recovers, an active case is never forgotten: the publishing sweep is    *)
(* going to deliver its deadline, or its delivery waits in the queue or is *)
(* being processed, or its failure has been counted and the compensation   *)
(* sweep is going to deliver it again.  Any number of cases, batches of    *)
(* any size, any number of attempts and of failing calls.                  *)
THEOREM CasesAreWatched ==
  ASSUME OneWorker, RecoverableFaults
  PROVE  Spec => []NeverForgotten
<1>1. Spec => [](TypeInv /\ PhaseInv /\ DeliveryInv)
  <2>1. Init => DeliveryInv
    BY DEF Init, NewCase, Idle, DeliveryInv, BatchDelivered, PublishedMeansDelivered
  <2>. QED
    BY <2>1, InitTypeInv, NextTypeInv, InitPhaseInv, NextPhaseInv, NextDeliveryInv, PTL DEF Spec
<1>2. TypeInv => Types
  BY TypesHold
<1>3. Init => WatchInv
  BY InitWatchInv
<1>4. PhaseInv /\ DeliveryInv /\ Types /\ Types' /\ WatchInv /\ [Next]_vars => WatchInv'
  BY NextWatchInv
<1>5. WatchInv => NeverForgotten
  BY DEF WatchInv
<1>. QED
  BY <1>1, <1>2, <1>3, <1>4, <1>5, PTL DEF Spec

=============================================================================
