------------------------- MODULE MCDeadlineRecovery -------------------------
(***************************************************************************)
(* Instances of GovernanceDeadline for TLC under fairness, with batches of *)
(* one case: one case is open and the other one has been resolved before,  *)
(* and calls fail again and again; or both are due at once, when one sweep *)
(* after the other takes them up, and one call fails.                      *)
(***************************************************************************)
EXTENDS MCGovernanceDeadline

CONSTANT OtherCase

ResolvedBefore == Resolved(NewCase, "RESOLVED_NOT_VIOLATION")

RecoveryInit ==
  /\ jobs = {} /\ delivered = {}
  /\ loc = [w \in Workers |-> Idle]
  /\ \/ /\ doc = [c \in Cases |-> IF c = OtherCase THEN ResolvedBefore ELSE NewCase]
        /\ passed = [c \in Cases |-> IF c = OtherCase THEN 3 ELSE 0]
        /\ crashes = 0 /\ errors = 0
     \/ /\ doc = [c \in Cases |-> NewCase]
        /\ passed = [c \in Cases |-> 0]
        /\ crashes = MaxCrashes /\ errors = MaxErrors - 1

RecoverySpec == RecoveryInit /\ [][Next]_vars /\ Fairness

=============================================================================
