-------------------------- MODULE IncidentContract --------------------------
(***************************************************************************)
(* What the alerting of one tenant promises, whatever the passes, reads    *)
(* and restarts it takes: "one notification when a condition starts        *)
(* firing, a green resolved notice when it clears, and nothing in between" *)
(* (README.md of the repository).  A rule has at most one incident, which  *)
(* opens on an observation that found the condition firing, and closes     *)
(* when it was found clear twice in a row or when the rule was withdrawn,  *)
(* that is disabled or deleted.                                            *)
(***************************************************************************)
EXTENDS Naturals

CONSTANTS
    Rules,
    ClearsToResolve   \* observations in a row that must find a rule clear

VARIABLES
    incident,   \* the rules with an open incident
    clears,     \* observations in a row that found the rule clear (saturates)
    withdrawn,  \* open rules disabled at some moment of their incident
    deleted     \* the rules that were deleted

vars == <<incident, clears, withdrawn, deleted>>

Init ==
    /\ incident = {}
    /\ clears = [r \in Rules |-> 0]
    /\ withdrawn = {}
    /\ deleted = {}

ObserveFiring(r) ==
    /\ clears' = [clears EXCEPT ![r] = 0]
    /\ UNCHANGED <<incident, withdrawn, deleted>>

ObserveClear(r) ==
    /\ clears' = [clears EXCEPT ![r] = IF @ < ClearsToResolve THEN @ + 1 ELSE @]
    /\ UNCHANGED <<incident, withdrawn, deleted>>

\* The last observation found r firing; a rule withdrawn meanwhile still opens.
Open(r) ==
    /\ r \notin incident \cup deleted
    /\ clears[r] = 0
    /\ incident' = incident \cup {r}
    /\ withdrawn' \in {withdrawn, withdrawn \cup {r}}
    /\ UNCHANGED <<clears, deleted>>

Resolve(r) ==
    /\ r \in incident
    /\ clears[r] >= ClearsToResolve
    /\ incident' = incident \ {r}
    /\ withdrawn' = withdrawn \ {r}
    /\ UNCHANGED <<clears, deleted>>

Withdraw(r) ==
    /\ r \in incident
    /\ withdrawn' = withdrawn \cup {r}
    /\ UNCHANGED <<incident, clears, deleted>>

\* An incident withdrawn at some moment may close with no resolve notice.
CloseWithdrawn(r) ==
    /\ r \in incident \cap withdrawn
    /\ incident' = incident \ {r}
    /\ withdrawn' = withdrawn \ {r}
    /\ UNCHANGED <<clears, deleted>>

\* Deleting the rule takes its history along.
Delete(r) ==
    /\ r \notin deleted
    /\ deleted' = deleted \cup {r}
    /\ incident' = incident \ {r}
    /\ withdrawn' = withdrawn \ {r}
    /\ UNCHANGED clears

Next == \E r \in Rules :
    \/ ObserveFiring(r) \/ ObserveClear(r)
    \/ Open(r) \/ Resolve(r)
    \/ Withdraw(r) \/ CloseWithdrawn(r) \/ Delete(r)

Spec == Init /\ [][Next]_vars

=============================================================================
