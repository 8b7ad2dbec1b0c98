-------------------------- MODULE TeamAccessProofs --------------------------
(***************************************************************************)
(* Theorems about AccessRules and Retention.                               *)
(*                                                                         *)
(* Every step of Retention is, for the variables of AccessRules, a step of *)
(* TeamSpec or a stutter; so what is proved of TeamSpec holds of both.     *)
(***************************************************************************)
EXTENDS Retention, TLAPS

\* What lies behind the permissions of a request: a token tells the role its
\* member still has, a key in use has been made, and who has a role has joined.
RoleInv ==
    /\ \A t \in tokens : t.role # NoRole => role[t.member] = t.role
    /\ \A q \in Requests : req[q].key # NoKey => keys[req[q].key].state # "unmade"
    /\ \A m \in Members : role[m] # NoRole => status[m] # "none"

TeamInv == TypeOK /\ RoleInv

-----------------------------------------------------------------------------
(* The operators.                                                          *)

\* What a role grants is a set of permissions, and no role grants nothing.
LEMMA RolesGrantPermissions ==
    /\ \A r \in SystemRoles \cup {NoRole} : RolePermissions(r) \subseteq PERMISSIONS
    /\ RolePermissions(NoRole) = {}
<1>1. \A r \in SystemRoles : init_system_roles[r] \subseteq PERMISSIONS
  BY DEF SystemRoles, init_system_roles, PERMISSIONS
<1> QED
  BY <1>1, AccessAssumption DEF RolePermissions

\* The cap of a key: no more than its creator, no more than its scopes.
LEMMA KeysAreCapped ==
    ASSUME NEW scopes, NEW creator
    PROVE  /\ KeyPermissions(scopes, creator) \subseteq creator
           /\ ALL \notin scopes => KeyPermissions(scopes, creator) \subseteq scopes
  BY DEF KeyPermissions

-----------------------------------------------------------------------------
(* The types and the permissions.                                          *)

\* The founder alone is in the team at first.
LEMMA TeamInit == Init => TeamInv
<1> SUFFICES ASSUME Init PROVE TeamInv
  OBVIOUS
<1> USE AccessAssumption DEF Init, Idle
<1>1. TypeOK
  BY DEF TypeOK, NoMoreThanThePerson, Claims, RequestSteps, SystemRoles
<1>2. RoleInv
  BY DEF RoleInv
<1> QED
  BY <1>1, <1>2 DEF TeamInv

\* What a step that leaves keys and roles alone does to one request.
LEMMA RequestStep ==
    ASSUME TeamInv, NEW q \in Requests,
           NEW r \in [at : RequestSteps, by : Members, key : Keys \cup {NoKey},
                      perms : SUBSET PERMISSIONS],
           req' = [req EXCEPT ![q] = r],
           r.at \in {"creator", "roles"} => r.key \in Keys,
           r.perms \subseteq RolePermissions(role[r.by]),
           r.key # NoKey => /\ keys[r.key].state # "unmade"
                            /\ \/ r.perms \subseteq keys[r.key].scopes
                               \/ ALL \in keys[r.key].scopes,
           UNCHANGED <<status, role, signing, tokens, keys>>
    PROVE  TeamInv'
<1>1. req' \in [Requests -> [at : RequestSteps, by : Members, key : Keys \cup {NoKey},
                             perms : SUBSET PERMISSIONS]]
  BY DEF TeamInv, TypeOK
<1>2. \A p \in Requests : req'[p] = IF p = q THEN r ELSE req[p]
  BY DEF TeamInv, TypeOK
<1>3. NoMoreThanThePerson'
  BY <1>2 DEF TeamInv, TypeOK, NoMoreThanThePerson
<1>4. TypeOK'
  BY <1>1, <1>2, <1>3 DEF TeamInv, TypeOK
<1>5. RoleInv'
  BY <1>2 DEF TeamInv, RoleInv
<1> QED
  BY <1>4, <1>5 DEF TeamInv

\* An answered request holds nothing.
LEMMA AnswerStep ==
    ASSUME TeamInv, NEW q \in Requests, Answer(q),
           UNCHANGED <<status, role, signing, tokens, keys>>
    PROVE  TeamInv'
<1>1. Idle \in [at : RequestSteps, by : Members, key : Keys \cup {NoKey},
                perms : SUBSET PERMISSIONS]
  BY AccessAssumption DEF Idle, RequestSteps
<1> QED
  BY <1>1, RequestStep DEF Answer, Idle

\* Steps that leave requests alone, or answer one, and unmake no key.
KeysKeptInv ==
    /\ keys' \in [Keys -> [state : {"unmade", "on", "off"}, by : Members,
                           scopes : SUBSET (PERMISSIONS \cup {ALL})]]
    /\ \A j \in Keys : keys[j].state # "unmade" =>
          keys'[j].state # "unmade" /\ keys'[j].scopes = keys[j].scopes

\* While the keys and the roles stay, so does what the requests may hold.
LEMMA KeysKept ==
    ASSUME TeamInv, KeysKeptInv, UNCHANGED <<status, role, signing, tokens, req>>
    PROVE  TeamInv'
<1>1. NoMoreThanThePerson'
  BY DEF KeysKeptInv, TeamInv, TypeOK, RoleInv, NoMoreThanThePerson
<1>2. TypeOK'
  BY <1>1 DEF KeysKeptInv, TeamInv, TypeOK
<1>3. RoleInv'
  BY DEF KeysKeptInv, TeamInv, TypeOK, RoleInv
<1> QED
  BY <1>2, <1>3 DEF TeamInv

\* The same with one request answered.
LEMMA AnswerKeysKept ==
    ASSUME TeamInv, KeysKeptInv, NEW q \in Requests, Answer(q),
           status' \in [Members -> {"none", "active", "removed"}],
           \A n \in Members : status[n] # "none" => status'[n] # "none",
           UNCHANGED <<role, signing, tokens>>
    PROVE  TeamInv'
<1>1. /\ req' \in [Requests -> [at : RequestSteps, by : Members, key : Keys \cup {NoKey},
                                perms : SUBSET PERMISSIONS]]
      /\ \A p \in Requests : req'[p] = IF p = q THEN Idle ELSE req[p]
  BY AccessAssumption DEF Answer, Idle, TeamInv, TypeOK, RequestSteps
<1>2. NoMoreThanThePerson'
  BY <1>1 DEF Idle, KeysKeptInv, TeamInv, TypeOK, RoleInv, NoMoreThanThePerson
<1>3. TypeOK'
  BY <1>1, <1>2 DEF Idle, KeysKeptInv, TeamInv, TypeOK
<1>4. RoleInv'
  BY <1>1 DEF Idle, KeysKeptInv, TeamInv, TypeOK, RoleInv
<1> QED
  BY <1>3, <1>4 DEF TeamInv

\* Every step of TeamNext keeps both.
LEMMA TeamStep ==
    ASSUME TeamInv, [TeamNext]_accessVars
    PROVE  TeamInv'
<1> USE AccessAssumption
<1>1. ASSUME NEW m \in Members, Join(m) PROVE TeamInv'
  <2>1. /\ \A n \in Members : role[n] = role'[n]
        /\ status' \in [Members -> {"none", "active", "removed"}]
        /\ \A n \in Members : status[n] # "none" => status'[n] # "none"
    BY <1>1 DEF Join, TeamInv, TypeOK
  <2>2. TypeOK'
    BY <1>1, <2>1 DEF Join, TeamInv, TypeOK, NoMoreThanThePerson
  <2>3. RoleInv'
    BY <1>1, <2>1 DEF Join, TeamInv, RoleInv
  <2> QED
    BY <2>2, <2>3 DEF TeamInv
<1>2. ASSUME NEW m \in Members, NEW r \in SystemRoles, AssignRole(m, r) PROVE TeamInv'
  <2>1. /\ role' \in [Members -> SystemRoles \cup {NoRole}]
        /\ \A n \in Members : role[n] # NoRole => role'[n] = role[n]
        /\ \A n \in Members : role'[n] # NoRole => status[n] # "none"
    BY <1>2 DEF AssignRole, TeamInv, TypeOK, RoleInv
  <2>2. \A n \in Members : RolePermissions(role[n]) \subseteq RolePermissions(role'[n])
    BY <2>1, RolesGrantPermissions
  <2>3. NoMoreThanThePerson'
    BY <1>2, <2>2 DEF AssignRole, TeamInv, TypeOK, NoMoreThanThePerson
  <2>4. TypeOK'
    BY <1>2, <2>1, <2>3 DEF AssignRole, TeamInv, TypeOK
  <2>5. RoleInv'
    BY <1>2, <2>1 DEF AssignRole, TeamInv, TypeOK, RoleInv, Claims
  <2> QED
    BY <2>4, <2>5 DEF TeamInv
<1>3. ASSUME NEW m \in Members, FindUser(m) PROVE TeamInv'
  BY <1>3 DEF FindUser, TeamInv, TypeOK, NoMoreThanThePerson, RoleInv
<1>4. ASSUME NEW m \in Members, IssueToken(m) PROVE TeamInv'
  <2>1. tokens' \subseteq tokens \cup {[member |-> m, role |-> role[m]]}
    BY <1>4 DEF IssueToken
  <2>2. TypeOK'
    BY <1>4, <2>1 DEF IssueToken, TeamInv, TypeOK, NoMoreThanThePerson, Claims
  <2>3. RoleInv'
    BY <1>4, <2>1 DEF IssueToken, TeamInv, RoleInv
  <2> QED
    BY <2>2, <2>3 DEF TeamInv
<1>5. ASSUME NEW t \in tokens, TokenExpires(t) PROVE TeamInv'
  BY <1>5 DEF TokenExpires, TeamInv, TypeOK, NoMoreThanThePerson, RoleInv
<1>6. ASSUME NEW k \in Keys, KeyExpires(k) PROVE TeamInv'
  <2>1. /\ keys' \in [Keys -> [state : {"unmade", "on", "off"}, by : Members,
                               scopes : SUBSET (PERMISSIONS \cup {ALL})]]
        /\ \A j \in Keys : /\ keys'[j].scopes = keys[j].scopes
                           /\ keys[j].state # "unmade" => keys'[j].state # "unmade"
    BY <1>6 DEF KeyExpires, TeamInv, TypeOK
  <2> QED
    BY <1>6, <2>1, KeysKept DEF KeyExpires, KeysKeptInv
<1>7. ASSUME NEW q \in Requests, NEW t \in tokens, BySession(q, t) PROVE TeamInv'
  <2>1. /\ t \in Claims
        /\ RolePermissions(t.role) \subseteq RolePermissions(role[t.member])
        /\ RolePermissions(t.role) \subseteq PERMISSIONS
    BY <1>7, RolesGrantPermissions DEF TeamInv, TypeOK, RoleInv, Claims
  <2> DEFINE r == [at |-> "serve", by |-> t.member, key |-> NoKey,
                   perms |-> RolePermissions(t.role)]
  <2>2. r \in [at : RequestSteps, by : Members, key : Keys \cup {NoKey}, perms : SUBSET PERMISSIONS]
    BY <2>1 DEF Claims, RequestSteps
  <2> QED
    BY <1>7, <2>1, <2>2, RequestStep DEF BySession
<1>8. ASSUME NEW q \in Requests, NEW k \in Keys, ByKey(q, k) PROVE TeamInv'
  <2> DEFINE r == [at |-> "creator", by |-> keys[k].by, key |-> k, perms |-> {}]
  <2>1. r \in [at : RequestSteps, by : Members, key : Keys \cup {NoKey}, perms : SUBSET PERMISSIONS]
    BY DEF TeamInv, TypeOK, RequestSteps
  <2> QED
    BY <1>8, <2>1, RequestStep DEF ByKey
<1>9. ASSUME NEW q \in Requests, FindCreator(q) PROVE TeamInv'
  <2>1. CASE status[req[q].by] = "active"
    <3> DEFINE r == [req[q] EXCEPT !.at = "roles"]
    <3>1. /\ r \in [at : RequestSteps, by : Members, key : Keys \cup {NoKey},
                    perms : SUBSET PERMISSIONS]
          /\ r.by = req[q].by /\ r.key = req[q].key /\ r.perms = req[q].perms
          /\ r.key \in Keys
      BY <1>9 DEF FindCreator, TeamInv, TypeOK, RequestSteps
    <3>2. req' = [req EXCEPT ![q] = r]
      BY <1>9, <2>1 DEF FindCreator
    <3>3. /\ r.perms \subseteq RolePermissions(role[r.by])
          /\ keys[r.key].state # "unmade"
          /\ r.perms \subseteq keys[r.key].scopes \/ ALL \in keys[r.key].scopes
      BY <3>1 DEF TeamInv, TypeOK, NoMoreThanThePerson, RoleInv
    <3> QED
      BY <1>9, <3>1, <3>2, <3>3, RequestStep DEF FindCreator
  <2>2. CASE status[req[q].by] # "active"
    BY <1>9, <2>2, AnswerStep DEF FindCreator, Answer
  <2> QED
    BY <2>1, <2>2
<1>10. ASSUME NEW q \in Requests, CapScopes(q) PROVE TeamInv'
  <2> DEFINE k == req[q].key
             p == KeyPermissions(keys[k].scopes, RolePermissions(role[req[q].by]))
             r == [req[q] EXCEPT !.at = "serve", !.perms = p]
  <2>1. /\ k \in Keys /\ req[q].by \in Members
        /\ keys[k].state # "unmade"
    BY <1>10 DEF CapScopes, TeamInv, TypeOK, RoleInv
  <2>2. /\ p \subseteq RolePermissions(role[req[q].by])
        /\ p \subseteq keys[k].scopes \/ ALL \in keys[k].scopes
        /\ RolePermissions(role[req[q].by]) \subseteq PERMISSIONS
    BY <2>1, KeysAreCapped, RolesGrantPermissions DEF TeamInv, TypeOK
  <2>3. /\ r \in [at : RequestSteps, by : Members, key : Keys \cup {NoKey},
                  perms : SUBSET PERMISSIONS]
        /\ r.by = req[q].by /\ r.key = k /\ r.perms = p
    BY <2>1, <2>2 DEF TeamInv, TypeOK, RequestSteps
  <2>4. req' = [req EXCEPT ![q] = r]
    BY <1>10 DEF CapScopes, TeamInv, TypeOK
  <2> QED
    BY <1>10, <2>1, <2>2, <2>3, <2>4, RequestStep DEF CapScopes
<1>11. ASSUME NEW q \in Requests, NEW k \in Keys, NEW S \in ScopeSets, CreateKey(q, k, S)
       PROVE  TeamInv'
  <2>1. /\ keys' \in [Keys -> [state : {"unmade", "on", "off"}, by : Members,
                               scopes : SUBSET (PERMISSIONS \cup {ALL})]]
        /\ \A j \in Keys : keys[j].state # "unmade" => keys'[j] = keys[j]
    BY <1>11 DEF CreateKey, TeamInv, TypeOK
  <2> QED
    BY <1>11, <2>1, AnswerKeysKept DEF CreateKey, KeysKeptInv, TeamInv, TypeOK
<1>12. ASSUME NEW q \in Requests, NEW k \in Keys, RevokeKey(q, k) PROVE TeamInv'
  <2>1. /\ keys' \in [Keys -> [state : {"unmade", "on", "off"}, by : Members,
                               scopes : SUBSET (PERMISSIONS \cup {ALL})]]
        /\ \A j \in Keys : /\ keys'[j].scopes = keys[j].scopes
                           /\ keys[j].state # "unmade" => keys'[j].state # "unmade"
    BY <1>12 DEF RevokeKey, TeamInv, TypeOK
  <2> QED
    BY <1>12, <2>1, AnswerKeysKept DEF RevokeKey, KeysKeptInv, TeamInv, TypeOK
<1>13. ASSUME NEW q \in Requests, NEW m \in Members, RemoveMember(q, m) PROVE TeamInv'
  <2>1. /\ status' \in [Members -> {"none", "active", "removed"}]
        /\ \A n \in Members : status[n] # "none" => status'[n] # "none"
    BY <1>13 DEF RemoveMember, TeamInv, TypeOK
  <2> QED
    BY <1>13, <2>1, AnswerKeysKept DEF RemoveMember, KeysKeptInv, TeamInv, TypeOK
<1>14. ASSUME NEW q \in Requests, EndRequest(q) PROVE TeamInv'
  BY <1>14, AnswerStep DEF EndRequest
<1>15. CASE UNCHANGED accessVars
  BY <1>15 DEF accessVars, TeamInv, TypeOK, NoMoreThanThePerson, RoleInv
<1> QED
  BY <1>1, <1>2, <1>3, <1>4, <1>5, <1>6, <1>7, <1>8, <1>9, <1>10, <1>11, <1>12, <1>13,
     <1>14, <1>15 DEF TeamNext

-----------------------------------------------------------------------------
(* Removals and managers.                                                  *)

\* Of a member who is out no session, no key and no request comes back.
LEMMA OutStep ==
    ASSUME TeamInv, [TeamNext]_accessVars, NEW m \in Members, Out(m)
    PROVE  Out(m)'
<1>1. CASE UNCHANGED accessVars
  BY <1>1 DEF accessVars, Out
<1>2. ASSUME NEW n \in Members,
             \/ Join(n) \/ FindUser(n) \/ IssueToken(n)
             \/ \E r \in SystemRoles : AssignRole(n, r)
      PROVE  Out(m)'
  <2>1. status'[m] = "removed"
    BY <1>2 DEF Join, FindUser, IssueToken, AssignRole, Out, TeamInv, TypeOK
  <2>2. m \notin signing' /\ \A t \in tokens' : t.member # m
    BY <1>2 DEF Join, FindUser, IssueToken, AssignRole, Out
  <2>3. req' = req
    BY <1>2 DEF Join, FindUser, IssueToken, AssignRole
  <2> QED
    BY <2>1, <2>2, <2>3 DEF Out
<1>3. CASE (\E t \in tokens : TokenExpires(t)) \/ (\E k \in Keys : KeyExpires(k))
  BY <1>3 DEF TokenExpires, KeyExpires, Out
<1>4. ASSUME NEW q \in Requests,
             \/ \E t \in tokens : BySession(q, t)
             \/ \E k \in Keys : ByKey(q, k) \/ RevokeKey(q, k)
             \/ FindCreator(q) \/ CapScopes(q)
             \/ \E k \in Keys, S \in ScopeSets : CreateKey(q, k, S)
             \/ \E n \in Members : RemoveMember(q, n)
             \/ EndRequest(q)
      PROVE  Out(m)'
  <2>1. status'[m] = "removed"
    BY <1>4 DEF BySession, ByKey, RevokeKey, FindCreator, CapScopes, CreateKey,
                RemoveMember, EndRequest, Out, TeamInv, TypeOK
  <2>2. UNCHANGED <<signing, tokens>>
    BY <1>4 DEF BySession, ByKey, RevokeKey, FindCreator, CapScopes, CreateKey,
                RemoveMember, EndRequest
  <2>3. \A p \in Requests \ {q} : req'[p] = req[p]
    BY <1>4 DEF BySession, ByKey, RevokeKey, FindCreator, CapScopes, CreateKey,
                RemoveMember, EndRequest, Answer, TeamInv, TypeOK
  <2>4. req'[q].at \in {"roles", "serve"} => req'[q].by # m
    <3>1. CASE \E t \in tokens : BySession(q, t)
      BY <3>1 DEF BySession, Out, TeamInv, TypeOK
    <3>2. CASE \E k \in Keys : ByKey(q, k)
      BY <3>2 DEF ByKey, TeamInv, TypeOK
    <3>3. CASE FindCreator(q)
      BY <3>3 DEF FindCreator, Idle, Out, TeamInv, TypeOK
    <3>4. CASE CapScopes(q)
      BY <3>4 DEF CapScopes, Out, TeamInv, TypeOK
    <3>5. CASE Answer(q)
      BY <3>5 DEF Answer, Idle, TeamInv, TypeOK
    <3> QED
      BY <1>4, <3>1, <3>2, <3>3, <3>4, <3>5 DEF RevokeKey, CreateKey, RemoveMember, EndRequest
  <2> QED
    BY <2>1, <2>2, <2>3, <2>4 DEF Out
<1> QED
  BY <1>1, <1>2, <1>3, <1>4 DEF TeamNext

\* Only RemoveMember takes a manager away.
LEMMA ManagerStep ==
    ASSUME TeamInv, [TeamNext]_accessVars, NEW m \in Managers, m \notin Managers'
    PROVE  \E q \in Requests : RemoveMember(q, m)
<1>1. /\ m \in Members /\ status[m] = "active" /\ role[m] # NoRole
      /\ "team_manage" \in RolePermissions(role[m])
  BY RolesGrantPermissions DEF Managers
<1>2. status'[m] # "active" \/ role'[m] # role[m]
  BY <1>1 DEF Managers
<1>3. role'[m] = role[m]
  BY <1>1 DEF TeamNext, accessVars, Join, AssignRole, FindUser, IssueToken, TokenExpires,
              KeyExpires, BySession, ByKey, RevokeKey, FindCreator, CapScopes, CreateKey,
              RemoveMember, EndRequest, TeamInv, TypeOK
<1>4. status'[m] = "active" \/ \E q \in Requests : RemoveMember(q, m)
  BY <1>1 DEF TeamNext, accessVars, Join, AssignRole, FindUser, IssueToken, TokenExpires,
              KeyExpires, BySession, ByKey, RevokeKey, FindCreator, CapScopes, CreateKey,
              RemoveMember, EndRequest, TeamInv, TypeOK
<1> QED
  BY <1>2, <1>3, <1>4

\* Who removes the last one managed the team, and does so no longer.
LEMMA LastManagerStep ==
    ASSUME TeamInv, [TeamNext]_accessVars, Managers # {}, Managers' = {}
    PROVE  \E q \in Requests : /\ req[q].at = "serve" /\ req'[q] = Idle
                               /\ status[req[q].by] = "removed"
<1>1. PICK m \in Managers : m \notin Managers'
  OBVIOUS
<1>2. PICK q \in Requests : RemoveMember(q, m)
  BY <1>1, ManagerStep
<1> DEFINE b == req[q].by
<1>3. b \in Members /\ b # m /\ req[q].at = "serve" /\ req'[q] = Idle
  BY <1>2 DEF RemoveMember, Allowed, Answer, TeamInv, TypeOK
<1>4. "team_manage" \in RolePermissions(role[b])
  BY <1>2 DEF RemoveMember, Allowed, TeamInv, TypeOK, NoMoreThanThePerson
<1>5. status[b] # "none"
  BY <1>3, <1>4, RolesGrantPermissions DEF TeamInv, RoleInv
<1>6. status'[b] = status[b] /\ role'[b] = role[b]
  BY <1>2, <1>3 DEF RemoveMember, TeamInv, TypeOK
<1>7. status[b] # "active"
  BY <1>3, <1>4, <1>6 DEF Managers
<1>8. status[b] \in {"none", "active", "removed"}
  BY <1>3 DEF TeamInv, TypeOK
<1> QED
  BY <1>3, <1>5, <1>7, <1>8

-----------------------------------------------------------------------------
(* Retention.                                                              *)

SettingsInv ==
    /\ policy \in [Tenants -> [ResourceNames -> {Unset} \cup Days]]
    /\ ttl \in [Tables -> Nat \ {Unset}]
    /\ saving \in [Requests -> {NoSave} \cup [days : Asks, written : 0 .. 2]]
    /\ sweep \in [at : {"rest", "read", "worker_events"}, todo : SUBSET Tenants,
                  min : [Tables -> Nat]]
    /\ \A t \in Tables : sweep.min[t] \in 1 .. Default[t]

\* The resources by name and number.
LEMMA ThreeResources ==
    /\ Len(Resources) = 3 /\ DOMAIN Resources = 1 .. 3
    /\ \A n \in 1 .. 3 : Resources[n] \in ResourceNames
    /\ Tables \subseteq ResourceNames
<1>1. Len(Resources) = 3 /\ DOMAIN Resources = 1 .. 3
  BY DEF Resources
<1>2. \A n \in 1 .. 3 : Resources[n] \in ResourceNames
  BY <1>1 DEF ResourceNames
<1>3. Resources[1] = "task_events" /\ Resources[2] = "worker_events"
  BY DEF Resources
<1> QED
  BY <1>1, <1>2, <1>3 DEF Tables

\* The first state of the settings is typed, any default being one tick at least.
LEMMA SettingsInitInv == SettingsInit => SettingsInv
<1> SUFFICES ASSUME SettingsInit PROVE SettingsInv
  OBVIOUS
<1>1. AtRest \in [at : {"rest", "read", "worker_events"}, todo : SUBSET Tenants,
                  min : [Tables -> Nat]]
  BY RetentionAssumption DEF AtRest, Unset
<1>2. \A t \in Tables : Default[t] \in 1 .. Default[t]
  BY RetentionAssumption DEF Unset
<1> QED
  BY <1>1, <1>2, RetentionAssumption DEF SettingsInit, SettingsInv, AtRest

\* Saves, sweeps and their failures keep the settings typed.
LEMMA SettingsStep ==
    ASSUME SettingsInv, [Next]_vars
    PROVE  SettingsInv'
<1> USE RetentionAssumption
<1>1. ASSUME NEW q \in Requests, NEW days \in Asks, SaveRetention(q, days) PROVE SettingsInv'
  BY <1>1 DEF SaveRetention, SettingsInv
<1>2. ASSUME NEW q \in Requests, Upsert(q) PROVE SettingsInv'
  <2> DEFINE n == saving[q].written + 1
  <2>1. saving[q].days \in Asks /\ saving[q].written \in 0 .. 2 /\ n \in 1 .. 3
    BY <1>2 DEF Upsert, SettingsInv, NoSave
  <2>2. Resources[n] \in ResourceNames /\ saving[q].days[n] \in Days
    BY <2>1, ThreeResources DEF Days
  <2>3. policy' \in [Tenants -> [ResourceNames -> {Unset} \cup Days]]
    BY <1>2, <2>2 DEF Upsert, SettingsInv
  <2>4. saving' \in [Requests -> {NoSave} \cup [days : Asks, written : 0 .. 2]]
    <3>1. CASE n = 3
      BY <1>2, <3>1, ThreeResources DEF Upsert, SettingsInv
    <3>2. CASE n # 3
      <4>1. [saving[q] EXCEPT !.written = n] \in [days : Asks, written : 0 .. 2]
        <5>1. saving[q] \in [days : Asks, written : 0 .. 2] /\ n \in 0 .. 2
          BY <1>2, <2>1, <3>2 DEF Upsert, SettingsInv, NoSave
        <5> QED
          BY <5>1
      <4> QED
        BY <1>2, <3>2, <4>1, ThreeResources DEF Upsert, SettingsInv
    <3> QED
      BY <3>1, <3>2
  <2> QED
    BY <1>2, <2>3, <2>4 DEF Upsert, SettingsInv
<1>3. ASSUME NEW q \in Requests, SaveFails(q) PROVE SettingsInv'
  BY <1>3 DEF SaveFails, SettingsInv
<1>4. ASSUME BeginSweep PROVE SettingsInv'
  BY <1>4 DEF BeginSweep, SettingsInv, Unset
<1>5. ASSUME NEW t \in Tenants, ReadPolicies(t) PROVE SettingsInv'
  <2> DEFINE low == Lower(sweep.min, policy[t])
  <2>1. \A x \in Tables : policy[t][x] \in Nat
    BY ThreeResources DEF SettingsInv, Days, Unset
  <2>2. /\ low \in [Tables -> Nat]
        /\ \A x \in Tables : low[x] \in 1 .. Default[x]
    BY <2>1 DEF Lower, Shorter, SettingsInv, Unset
  <2>3. CASE sweep' = [sweep EXCEPT !.todo = @ \ {t}, !.min = Lower(@, policy[t])]
    BY <1>5, <2>2, <2>3 DEF ReadPolicies, SettingsInv
  <2>4. CASE sweep' = [sweep EXCEPT !.todo = @ \ {t}]
    BY <1>5, <2>4 DEF ReadPolicies, SettingsInv
  <2> QED
    BY <1>5, <2>3, <2>4 DEF ReadPolicies
<1>6. ASSUME NEW table \in Tables, NEW from, NEW to \in {"worker_events", "rest"},
             ApplyTtl(table, from, to)
      PROVE  SettingsInv'
  <2>1. AtRest \in [at : {"rest", "read", "worker_events"}, todo : SUBSET Tenants,
                    min : [Tables -> Nat]]
        /\ \A t \in Tables : AtRest.min[t] \in 1 .. Default[t]
    BY DEF AtRest, Unset
  <2>2. ttl' \in [Tables -> Nat \ {Unset}]
    BY <1>6 DEF ApplyTtl, SettingsInv, Unset
  <2> QED
    BY <1>6, <2>1, <2>2 DEF ApplyTtl, SettingsInv
<1>7. ASSUME SweepFails PROVE SettingsInv'
  <2>1. AtRest \in [at : {"rest", "read", "worker_events"}, todo : SUBSET Tenants,
                    min : [Tables -> Nat]]
        /\ \A t \in Tables : AtRest.min[t] \in 1 .. Default[t]
    BY DEF AtRest, Unset
  <2> QED
    BY <1>7, <2>1 DEF SweepFails, SettingsInv
<1>8. CASE UNCHANGED settingsVars
  BY <1>8 DEF settingsVars, SettingsInv
<1>9. "task_events" \in Tables /\ "worker_events" \in Tables
  BY DEF Tables
<1>10. CASE SettingsNext
  BY <1>1, <1>2, <1>3, <1>4, <1>5, <1>6, <1>7, <1>8, <1>9, <1>10 DEF SettingsNext, Sweep
<1> QED
  BY <1>8, <1>10 DEF Next, vars

-----------------------------------------------------------------------------
(* The theorems.                                                           *)

\* For the variables of the team, saving retention is a request that ends.
LEMMA StepsAreTeamSteps == [Next]_vars => [TeamNext]_accessVars
<1> SUFFICES ASSUME [Next]_vars PROVE [TeamNext]_accessVars
  OBVIOUS
<1>1. ASSUME NEW q \in Requests, NEW days \in Asks, SaveRetention(q, days) PROVE TeamNext
  <2>1. EndRequest(q)
    BY <1>1 DEF SaveRetention, EndRequest, Allowed
  <2> QED
    BY <2>1 DEF TeamNext
<1>2. ASSUME SettingsNext PROVE [TeamNext]_accessVars
  <2>1. CASE \/ \E q \in Requests, t \in tokens : BySession(q, t)
             \/ \E m \in Members : FindUser(m) \/ IssueToken(m)
    BY <2>1 DEF TeamNext
  <2>2. CASE \/ \E q \in Requests : Upsert(q) \/ SaveFails(q)
             \/ Sweep \/ SweepFails
    BY <2>2 DEF Upsert, SaveFails, Sweep, SweepFails, BeginSweep, ReadPolicies, ApplyTtl
  <2> QED
    BY <1>1, <1>2, <2>1, <2>2 DEF SettingsNext
<1> QED
  BY <1>2 DEF Next, vars

\* Retention implements AccessRules: what a save, a sweep and their failures do
\* leaves the team as some request, or nothing, does.
THEOREM RetentionKeepsTeam == Spec => TeamSpec
<1>1. SettingsInit => Init
  BY DEF SettingsInit
<1> QED
  BY <1>1, StepsAreTeamSteps, PTL DEF Spec, TeamSpec

\* Whatever the members, keys and requests do, TeamInv holds throughout.
THEOREM TeamInvariant == TeamSpec => []TeamInv
<1>1. TeamInv /\ [TeamNext]_accessVars => TeamInv'
  BY TeamStep
<1> QED
  BY TeamInit, <1>1, PTL DEF TeamSpec

\* Whoever the members and whatever keys they make: no request ever holds a
\* permission its person lacks or its key was not given, and every variable of
\* Retention keeps its type.
THEOREM PermissionsAreHeld == Spec => []SettingsTypeOK
<1>1. Spec => []TeamInv
  BY RetentionKeepsTeam, TeamInvariant, PTL
<1>2. SettingsInv /\ [Next]_vars => SettingsInv'
  BY SettingsStep
<1>3. Spec => []SettingsInv
  BY SettingsInitInv, <1>2, PTL DEF Spec
<1>4. TeamInv /\ SettingsInv => SettingsTypeOK
  <2> SUFFICES ASSUME TeamInv, SettingsInv PROVE SettingsTypeOK
    OBVIOUS
  <2>1. \A q \in Requests : saving[q] # NoSave =>
            saving[q].days \in Asks /\ saving[q].written + 1 \in DOMAIN Resources
    BY ThreeResources DEF SettingsInv
  <2> QED
    BY <2>1 DEF SettingsTypeOK, TeamInv, SettingsInv
<1> QED
  BY <1>1, <1>3, <1>4, PTL

\* Nothing brings back a member who is out.
THEOREM RemovalsAreFinal == Spec => RemovalIsFinal
<1>1. TeamInv /\ [TeamNext]_accessVars
      => [\A m \in Members : Out(m) => Out(m)']_accessVars
  BY OutStep
<1> QED
  BY <1>1, RetentionKeepsTeam, TeamInvariant, PTL DEF TeamSpec, RemovalIsFinal

\* Only a person removed before can remove the last manager.
THEOREM LastManagerGoesByTheRemoved == Spec => LastManagerStays
<1> DEFINE A == Managers # {} /\ Managers' = {} =>
                  \E q \in Requests : /\ req[q].at = "serve" /\ req'[q] = Idle
                                      /\ status[req[q].by] = "removed"
<1>1. TeamInv /\ [TeamNext]_accessVars => [A]_accessVars
  BY LastManagerStep
<1> QED
  BY <1>1, RetentionKeepsTeam, TeamInvariant, PTL DEF TeamSpec, LastManagerStays

=============================================================================
