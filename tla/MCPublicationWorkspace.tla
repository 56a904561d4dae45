----------------------- MODULE MCPublicationWorkspace -----------------------
(* Small instances of PublicationWorkspace for TLC. *)
EXTENDS PublicationWorkspace, TLC

CONSTANTS a, b, c, shared, other

\* Run a writes two files, run b one of them, run c another.
Documents == [r \in Authors |-> CASE r = a -> {shared, other} [] r = b -> {shared} [] r = c -> {other}]

Budget(failures, rollbacks, crashes, merges, ages, revocations, total) ==
  [failures |-> failures, rollbacks |-> rollbacks, crashes |-> crashes,
   merges |-> merges, ages |-> ages, revocations |-> revocations, total |-> total]

Everything == Budget(2, 1, 1, 1, 1, 1, 3)
=============================================================================
