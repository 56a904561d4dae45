--------------------------- MODULE MCRunLifecycle ---------------------------
(* Small instances of RunLifecycle for TLC. *)
EXTENDS RunLifecycle, TLC

\* The budgets of the runs, fault by fault.
Budget(failures, stalls, rejections, evictions, drops) ==
  [failures |-> failures, stalls |-> stalls, rejections |-> rejections,
   evictions |-> evictions, drops |-> drops]

RetriesAndDrop == Budget(2, 0, 1, 1, 1)
Stalls == Budget(0, 1, 1, 0, 0)
StallAndFailure == Budget(1, 1, 1, 0, 0)

Anonymous == Permutations(Jobs) \cup Permutations(Reviews) \cup Permutations(Workers)
=============================================================================
