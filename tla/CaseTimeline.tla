---------------------------- MODULE CaseTimeline ----------------------------
(***************************************************************************)
(* What the deadlines of a governance case promise, whatever machinery     *)
(* drives them: a first review once firstReviewAt has passed, which may    *)
(* resolve the case; the emergency phase once normalDeadlineAt has passed; *)
(* a forced resolution once emergencyDeadlineAt has passed.  An            *)
(* administrator may resolve a case, but not one whose next transition is  *)
(* already due.  A resolved case never changes.                            *)
(***************************************************************************)
EXTENDS Integers

CONSTANT Cases

VARIABLES
  status,     \* status[c]: GovernanceCase.status
  reviewed,   \* reviewed[c]: firstReviewedAt is set
  passed      \* passed[c]: how many of the three deadlines have passed

vars == <<status, reviewed, passed>>

Active   == {"OPEN", "EMERGENCY"}
Terminal == {"RESOLVED_VIOLATION", "RESOLVED_NOT_VIOLATION"}

Init ==
  /\ status = [c \in Cases |-> "OPEN"]
  /\ reviewed = [c \in Cases |-> FALSE]
  /\ passed = [c \in Cases |-> 0]

(* The deadline that ends the phase a case is in.                          *)
NextDeadline(s, r) == IF s = "EMERGENCY" THEN 3 ELSE IF r THEN 2 ELSE 1

DeadlinePasses(c) ==
  /\ passed[c] < 3
  /\ passed' = [passed EXCEPT ![c] = @ + 1]
  /\ UNCHANGED <<status, reviewed>>

(* The first review; one held after normalDeadlineAt goes straight to the  *)
(* emergency phase.                                                        *)
FirstReview(c) ==
  /\ status[c] = "OPEN" /\ ~reviewed[c] /\ passed[c] >= 1
  /\ \E s \in {"OPEN"} \cup Terminal
             \cup (IF passed[c] >= 2 THEN {"EMERGENCY"} ELSE {}) :
       status' = [status EXCEPT ![c] = s]
  /\ reviewed' = [reviewed EXCEPT ![c] = TRUE]
  /\ UNCHANGED passed

Escalate(c) ==
  /\ status[c] = "OPEN" /\ reviewed[c] /\ passed[c] >= 2
  /\ status' = [status EXCEPT ![c] = "EMERGENCY"]
  /\ UNCHANGED <<reviewed, passed>>

FinalReview(c) ==
  /\ status[c] = "EMERGENCY" /\ passed[c] >= 3
  /\ \E s \in Terminal : status' = [status EXCEPT ![c] = s]
  /\ UNCHANGED <<reviewed, passed>>

AdminResolves(c) ==
  /\ status[c] \in Active
  /\ passed[c] < NextDeadline(status[c], reviewed[c])
  /\ \E s \in Terminal : status' = [status EXCEPT ![c] = s]
  /\ UNCHANGED <<reviewed, passed>>

Next ==
  \E c \in Cases : \/ DeadlinePasses(c) \/ FirstReview(c) \/ Escalate(c)
                   \/ FinalReview(c) \/ AdminResolves(c)

Spec == Init /\ [][Next]_vars

=============================================================================
