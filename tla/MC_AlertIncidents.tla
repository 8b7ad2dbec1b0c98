------------------------- MODULE MC_AlertIncidents -------------------------
(* Small instances of AlertIncidents for TLC.                              *)
EXTENDS AlertIncidents, TLC

CONSTANTS r1, slack, pager

\* slack takes everything, pager only what is critical.
MCFloor == slack :> "none" @@ pager :> "critical"

\* One channel is enough where routing is not the question.
SlackOnly == slack :> "none"

\* One tick for every rule: two incidents need the clock to move.
ShortCooldown == [r \in Rules |-> 1]

\* A tick beyond the hour that cleanup takes for the longest.
LongCooldown == [r \in Rules |-> CleanupAge + 1]

=============================================================================
