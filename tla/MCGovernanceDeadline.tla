------------------------ MODULE MCGovernanceDeadline ------------------------
(* Instances of GovernanceDeadline for TLC.                                *)
EXTENDS GovernanceDeadline, TLC

(* Every point of a sweep, and a job that has not leased its case yet.     *)
MCSafeCrashPoints == SweepPoints \cup {"a_claim"}
MCAllCrashPoints  == SweepPoints \cup JobPoints

(* Every call but the ones that give a lease or a delivery back.           *)
MCSafeErrorPoints == SweepPoints \cup {"a_claim", "a_tx"}
MCAllErrorPoints  == SweepPoints \cup JobPoints

(* The workers are interchangeable; no run with this symmetry checks a     *)
(* liveness property.                                                      *)
MCSymmetry == Permutations(Workers)

=============================================================================
