---------------------------- MODULE ReviewGate ----------------------------
(***************************************************************************)
(* What a workflow run promises its reviewers, whatever happens to the     *)
(* processes and jobs that carry it out: one question at a time, one       *)
(* answer to each question, and nothing on GitHub before a yes.            *)
(***************************************************************************)
EXTENDS Naturals

CONSTANT Reviews

VARIABLES
  verdict,    \* what became of each review: "NONE" until it is asked for
  published   \* whether anything of the run can be seen on GitHub

gateVars == <<verdict, published>>

GateInit == verdict = [r \in Reviews |-> "NONE"] /\ published = FALSE

\* The pipeline suspends and asks for a review.
Ask(r) ==
  /\ verdict[r] = "NONE"
  /\ \A q \in Reviews : verdict[q] # "PENDING"
  /\ verdict' = [verdict EXCEPT ![r] = "PENDING"]
  /\ UNCHANGED published

\* The reviewer answers; nobody can answer again.
Judge(r) ==
  /\ verdict[r] = "PENDING"
  /\ \E v \in {"APPROVED", "REJECTED"} : verdict' = [verdict EXCEPT ![r] = v]
  /\ UNCHANGED published

\* Publication cannot be taken back.
Publish ==
  /\ \E r \in Reviews : verdict[r] = "APPROVED"
  /\ published' = TRUE
  /\ UNCHANGED verdict

GateNext == Publish \/ \E r \in Reviews : Ask(r) \/ Judge(r)

GateSpec == GateInit /\ [][GateNext]_gateVars
=============================================================================
