----------------------------- MODULE MCRunPage -----------------------------
(* Small instances of RunPage for TLC. *)
EXTENDS RunPage

CONSTANTS mine, other

Pipeline == <<"DocumentationCritic", "CreatePullRequest">>
Budget(failures, breaks, restarts, reloads, total) ==
  [failures |-> failures, breaks |-> breaks, restarts |-> restarts, reloads |-> reloads,
   total |-> total]
Turbulence == Budget(2, 1, 1, 1, 2)
=============================================================================
