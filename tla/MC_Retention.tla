---------------------------- MODULE MC_Retention ----------------------------
(* Small instances of AccessRules and Retention for TLC.                   *)
EXTENDS Retention, TLC

CONSTANTS ann, bob, k1, q1, q2, home, other

\* A key that can do all its creator can, one that makes keys, one for the
\* team.
MCScopes == {{ALL}, {"api_keys_manage"}, {"team_manage"}}

\* 90 and 30 days, in a small unit.
MCDefault == ("task_events" :> 3) @@ ("worker_events" :> 2)

\* Each is the shorter of one table and longer than the default of the other.
MCAsks == {<<1, 4, 1>>, <<4, 1, 1>>}

=============================================================================
