--------------------------- MODULE MCOnboarding ---------------------------
(* A small instance of Onboarding for TLC. *)
EXTENDS Onboarding

CONSTANTS first, second, none

OneLeft == [clicks |-> 3, expiries |-> 1, faults |-> 1, uninstalls |-> 1]
=============================================================================
