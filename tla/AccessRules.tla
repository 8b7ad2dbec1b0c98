----------------------------- MODULE AccessRules -----------------------------
(***************************************************************************)
(* Who may do what in one organisation (auth/src/middleware.rs, rbac.rs,   *)
(* jwt.rs; api/src/routes/api_keys.rs and the team routes of tenants.rs;   *)
(* db/src/postgres/rbac.rs, api_keys.rs, users.rs).                        *)
(*                                                                         *)
(* A request is authenticated either by an access token, whose claims are  *)
(* believed as they were signed, or by an API key, which is looked up:     *)
(* the key, then its creator, then the creator's roles, three statements   *)
(* between which others act.  What comes out is a set of permissions, and  *)
(* every handler begins by asking for the one it needs.                    *)
(*                                                                         *)
(* How a person comes to an access token is in Sessions; here a sign-in    *)
(* stands for sign-in, refresh and switch alike.  The name a key is stored *)
(* under, its hash and the time of its last use are left out.              *)
(***************************************************************************)
EXTENDS Integers, Sequences, FiniteSets

CONSTANTS
    Members,   \* people with an invitation to the organisation
    Founder,   \* who registered it
    Keys,      \* the API keys that may be made
    Requests,  \* slots for requests under way
    ScopeSets, \* the scopes a key may be asked for with
    NoRole,    \* no row in user_roles
    NoKey      \* not authenticated by a key

PERMISSIONS ==
    {"tasks_read", "tasks_retry", "tasks_revoke", "workers_read",
     "workers_shutdown", "alerts_read", "alerts_write", "beat_read",
     "metrics_read", "settings_read", "settings_write", "team_manage",
     "api_keys_manage", "brokers_manage"}

\* Wildcard scope of a key: whatever its creator can do.
ALL == "*"

\* The roles every organisation is given when it is registered; no route adds
\* another or changes one.
init_system_roles ==
    [admin    |-> PERMISSIONS,
     editor   |-> PERMISSIONS \ {"tasks_revoke", "workers_shutdown",
                                 "settings_write", "team_manage"},
     viewer   |-> {"tasks_read", "workers_read", "alerts_read", "beat_read",
                   "metrics_read"},
     readonly |-> {"tasks_read", "workers_read"}]

SystemRoles == {"admin", "editor", "viewer", "readonly"}

RolePermissions(r) == IF r = NoRole THEN {} ELSE init_system_roles[r]

ASSUME AccessAssumption ==
    /\ Founder \in Members
    /\ ScopeSets \subseteq SUBSET (PERMISSIONS \cup {ALL})
    /\ NoRole \notin SystemRoles
    /\ NoKey \notin Keys

VARIABLES
    status,   \* users.is_active of each member's row, "none" before it exists
    role,     \* the member's row of user_roles
    signing,  \* members a sign-in has found active and not answered yet
    tokens,   \* access tokens that have not expired: the claims they carry
    keys,     \* api_keys
    req       \* the requests under way

accessVars == <<status, role, signing, tokens, keys, req>>

Claims == [member : Members, role : SystemRoles \cup {NoRole}]

Idle == [at |-> "idle", by |-> Founder, key |-> NoKey, perms |-> {}]

Init ==
    /\ status = [m \in Members |-> IF m = Founder THEN "active" ELSE "none"]
    /\ role = [m \in Members |-> IF m = Founder THEN "admin" ELSE NoRole]
    /\ signing = {}
    /\ tokens = {}
    /\ keys = [k \in Keys |-> [state |-> "unmade", by |-> Founder, scopes |-> {}]]
    /\ req = [q \in Requests |-> Idle]

-----------------------------------------------------------------------------
(* Members and their sessions.                                             *)

\* accept_invite inserts the user and then the role the invitation named.  Its
\* second statement may never run: the member then stays without a role.
Join(m) ==
    /\ status[m] = "none"
    /\ status' = [status EXCEPT ![m] = "active"]
    /\ UNCHANGED <<role, signing, tokens, keys, req>>

AssignRole(m, r) ==
    /\ status[m] # "none"
    /\ role[m] = NoRole
    /\ role' = [role EXCEPT ![m] = r]
    /\ UNCHANGED <<status, signing, tokens, keys, req>>

\* A sign-in looks for an active user, and later reads the roles and signs.
FindUser(m) ==
    /\ status[m] = "active"
    /\ signing' = signing \cup {m}
    /\ UNCHANGED <<status, role, tokens, keys, req>>

IssueToken(m) ==
    /\ m \in signing
    /\ signing' = signing \ {m}
    /\ \/ tokens' = tokens \cup {[member |-> m, role |-> role[m]]}
       \/ UNCHANGED tokens
    /\ UNCHANGED <<status, role, keys, req>>

\* Fifteen minutes later.
TokenExpires(t) ==
    /\ tokens' = tokens \ {t}
    /\ UNCHANGED <<status, role, signing, keys, req>>

-----------------------------------------------------------------------------
(* Authentication.                                                         *)

\* session_user: the claims are enough, nothing is looked up.
BySession(q, t) ==
    /\ req[q].at = "idle"
    /\ t \in tokens
    /\ req' = [req EXCEPT ![q] =
                 [at |-> "serve", by |-> t.member, key |-> NoKey,
                  perms |-> RolePermissions(t.role)]]
    /\ UNCHANGED <<status, role, signing, tokens, keys>>

\* authenticate_api_key: the key's row, if it is active and has not expired.
ByKey(q, k) ==
    /\ req[q].at = "idle"
    /\ keys[k].state = "on"
    /\ req' = [req EXCEPT ![q] =
                 [at |-> "creator", by |-> keys[k].by, key |-> k, perms |-> {}]]
    /\ UNCHANGED <<status, role, signing, tokens, keys>>

\* Slip: the creator's row is read active or not.
FindCreatorAny(q) ==
    /\ req[q].at = "creator"
    /\ req' = [req EXCEPT ![q].at = "roles"]
    /\ UNCHANGED <<status, role, signing, tokens, keys>>

\* Then the user who made it, if still active; the request is refused if not.
FindCreator(q) ==
    /\ req[q].at = "creator"
    /\ req' = [req EXCEPT ![q] = IF status[req[q].by] = "active"
                                 THEN [@ EXCEPT !.at = "roles"]
                                 ELSE Idle]
    /\ UNCHANGED <<status, role, signing, tokens, keys>>

\* Slip: the wildcard is everything rather than what the creator can do.
KeyPermissionsWild(scopes, creator) ==
    IF ALL \in scopes THEN PERMISSIONS ELSE scopes \cap creator

\* The scopes of a key, capped by what its creator can do now.
KeyPermissions(scopes, creator) ==
    IF ALL \in scopes THEN creator ELSE scopes \cap creator

\* Then the creator's roles.
CapScopes(q) ==
    /\ req[q].at = "roles"
    /\ req' = [req EXCEPT ![q].at = "serve",
                          ![q].perms = KeyPermissions(keys[req[q].key].scopes,
                                                      RolePermissions(role[req[q].by]))]
    /\ UNCHANGED <<status, role, signing, tokens, keys>>

-----------------------------------------------------------------------------
(* Handlers: the permission first, then the effect.                        *)

Allowed(q, p) == req[q].at = "serve" /\ p \in req[q].perms

Answer(q) == req' = [req EXCEPT ![q] = Idle]

\* validate_scopes: what the maker holds, or the wildcard.
CreateKey(q, k, scopes) ==
    /\ Allowed(q, "api_keys_manage")
    /\ keys[k].state = "unmade"
    /\ scopes # {}
    /\ scopes \ {ALL} \subseteq req[q].perms
    /\ keys' = [keys EXCEPT ![k] = [state |-> "on", by |-> req[q].by, scopes |-> scopes]]
    /\ Answer(q)
    /\ UNCHANGED <<status, role, signing, tokens>>

RevokeKey(q, k) ==
    /\ Allowed(q, "api_keys_manage")
    /\ keys[k].state # "unmade"
    /\ keys' = [keys EXCEPT ![k].state = "off"]
    /\ Answer(q)
    /\ UNCHANGED <<status, role, signing, tokens>>

\* A key made with an expiry reaches it.
KeyExpires(k) ==
    /\ keys[k].state = "on"
    /\ keys' = [keys EXCEPT ![k].state = "off"]
    /\ UNCHANGED <<status, role, signing, tokens, req>>

\* Slip: without "Cannot remove yourself".
RemoveMemberOrSelf(q, m) ==
    /\ Allowed(q, "team_manage")
    /\ status[m] = "active"
    /\ status' = [status EXCEPT ![m] = "removed"]
    /\ Answer(q)
    /\ UNCHANGED <<role, signing, tokens, keys>>

\* remove_member deactivates the row and leaves tokens and keys alone.
RemoveMember(q, m) ==
    /\ Allowed(q, "team_manage")
    /\ m # req[q].by
    /\ status[m] = "active"
    /\ status' = [status EXCEPT ![m] = "removed"]
    /\ Answer(q)
    /\ UNCHANGED <<role, signing, tokens, keys>>

\* A handler that changes nothing here, a refusal, or a client that went away.
EndRequest(q) ==
    /\ req[q].at # "idle"
    /\ Answer(q)
    /\ UNCHANGED <<status, role, signing, tokens, keys>>

TeamNext ==
    \/ \E m \in Members :
          \/ Join(m) \/ FindUser(m) \/ IssueToken(m)
          \/ \E r \in SystemRoles : AssignRole(m, r)
    \/ \E t \in tokens : TokenExpires(t)
    \/ \E k \in Keys : KeyExpires(k)
    \/ \E q \in Requests :
          \/ \E t \in tokens : BySession(q, t)
          \/ \E k \in Keys : ByKey(q, k) \/ RevokeKey(q, k)
          \/ FindCreator(q) \/ CapScopes(q)
          \/ \E k \in Keys, S \in ScopeSets : CreateKey(q, k, S)
          \/ \E m \in Members : RemoveMember(q, m)
          \/ EndRequest(q)

TeamSpec == Init /\ [][TeamNext]_accessVars

-----------------------------------------------------------------------------
(* Properties.                                                             *)

RequestSteps == {"idle", "creator", "roles", "serve"}

\* A request never holds a permission the person it acts for does not have
\* now, and one made with a key holds no more than the key's scopes, whoever
\* made the key with what and whatever happened since (README.md:113: "A key
\* can only do what its creator can").
NoMoreThanThePerson ==
    \A q \in Requests :
        /\ req[q].perms \subseteq RolePermissions(role[req[q].by])
        /\ req[q].key # NoKey
           => \/ req[q].perms \subseteq keys[req[q].key].scopes
              \/ ALL \in keys[req[q].key].scopes

\* Every variable stays in its type, a request at a key's steps knows its key,
\* and the permissions of a request are its person's.
TypeOK ==
    /\ status \in [Members -> {"none", "active", "removed"}]
    /\ role \in [Members -> SystemRoles \cup {NoRole}]
    /\ signing \subseteq Members
    /\ tokens \subseteq Claims
    /\ keys \in [Keys -> [state : {"unmade", "on", "off"}, by : Members,
                          scopes : SUBSET (PERMISSIONS \cup {ALL})]]
    /\ req \in [Requests -> [at : RequestSteps, by : Members,
                             key : Keys \cup {NoKey}, perms : SUBSET PERMISSIONS]]
    /\ \A q \in Requests : req[q].at \in {"creator", "roles"} => req[q].key \in Keys
    /\ NoMoreThanThePerson

\* A member who has been removed, whose last access token has expired and who
\* has no sign-in or checked request under way is out for good: not a sign-in,
\* a new role, an older or newer key brings any of it back.
Out(m) ==
    /\ status[m] = "removed"
    /\ m \notin signing
    /\ \A t \in tokens : t.member # m
    /\ \A q \in Requests : req[q].at \in {"roles", "serve"} => req[q].by # m

RemovalIsFinal == [][\A m \in Members : Out(m) => Out(m)']_accessVars

\* Nobody can remove themselves, so an organisation is left without anybody to
\* manage its team only by the request of somebody removed before.
Managers == {m \in Members : /\ status[m] = "active"
                             /\ "team_manage" \in RolePermissions(role[m])}

LastManagerStays ==
    [][Managers # {} /\ Managers' = {} =>
          \E q \in Requests : /\ req[q].at = "serve" /\ req'[q] = Idle
                              /\ status[req[q].by] = "removed"]_accessVars

=============================================================================
