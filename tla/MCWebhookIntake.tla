-------------------------- MODULE MCWebhookIntake --------------------------
(* Small instances of WebhookIntake for TLC. *)
EXTENDS WebhookIntake

\* The budgets of the runs, fault by fault.
Budget(failures, restarts, repeats, revocations) ==
  [failures |-> failures, restarts |-> restarts, repeats |-> repeats,
   revocations |-> revocations]

Turbulence == Budget(2, 1, 2, 1)
=============================================================================
