-------------------------- MODULE MC_Integrations --------------------------
(* Small instances of Integrations for TLC.                                *)
EXTENDS Integrations, TLC

CONSTANTS n1, n2, r1, r2, r3

\* Flows and requests are interchangeable.
MCSymmetry == Permutations(Nonces) \cup Permutations(Requests)

=============================================================================
