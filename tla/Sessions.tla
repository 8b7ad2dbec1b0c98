------------------------------ MODULE Sessions ------------------------------
(***************************************************************************)
(* How one person gets and loses sessions (api/src/routes/auth.rs and the  *)
(* team routes of tenants.rs, over the tables of db/src/postgres): sign-in *)
(* by password, refresh of a token, switch of organisation, magic links,   *)
(* invitations, registration, sign-out, removal and password reset.        *)
(*                                                                         *)
(* A person is one e-mail address.  Each organisation has at most one user *)
(* row for it, active or not: UNIQUE (tenant_id, email).  A handler is a   *)
(* request in a slot of Requests; each of its statements that changes a    *)
(* table, or reads what another request may change before it is used, is   *)
(* a step, and between any two the others may act.  A request may end at   *)
(* any step: a statement fails, the client goes away, the process stops.   *)
(* A first step that is refused changes nothing and is not shown.          *)
(*                                                                         *)
(* Roles and permissions are left out (AccessRules has them), and so are   *)
(* access tokens: they live for fifteen minutes, are stored nowhere, and   *)
(* what they open to a person is opened here to anyone ever signed in.     *)
(***************************************************************************)
EXTENDS Integers, Sequences, FiniteSets

CONSTANTS
    Orgs,         \* tenants, by slug
    Links,        \* the magic links that may be mailed
    Invites,      \* the invitations that may be mailed
    InviteOrg,    \* the organisation an invitation is for
    Requests,     \* slots for requests under way
    NoTicket,     \* no link and no invitation
    NoOrg,        \* no organisation chosen
    AllowSignup,  \* ALLOW_SIGNUP
    MaxTokens     \* bound: sessions issued in a behaviour

Tickets == Links \cup Invites

ASSUME SessionsAssumption ==
    /\ Links \cap Invites = {}
    /\ InviteOrg \in [Invites -> Orgs]
    /\ NoTicket \notin Tickets
    /\ NoOrg \notin Orgs
    /\ AllowSignup \in BOOLEAN
    /\ MaxTokens \in Nat

VARIABLES
    tenants,    \* the organisations that exist
    member,     \* the person's user row in an organisation
    ticket,     \* rows of magic_link_tokens and user_invites
    tokens,     \* refresh_tokens, in order of insertion
    req,        \* the requests under way
    grants      \* history: sign-ins by a link, users made by an invitation

vars == <<tenants, member, ticket, tokens, req, grants>>

Idle == [at |-> "idle", org |-> NoOrg, ticket |-> NoTicket, old |-> 0, late |-> FALSE]

\* A request at a step, for an organisation, with the link or invitation it
\* brought or the number of the refresh token it brought.
\* late: history, the person lost access there while it looked for a user or
\* was about to issue a session.
At(step, o, t, k) == [at |-> step, org |-> o, ticket |-> t, old |-> k, late |-> FALSE]

Init ==
    /\ tenants = {}
    /\ member = [o \in Orgs |-> "none"]
    /\ ticket = [t \in Tickets |-> "unsent"]
    /\ tokens = <<>>
    /\ req = [r \in Requests |-> Idle]
    /\ grants = [t \in Tickets |-> 0]

\* find_users_by_email.
Active == {o \in Orgs : member[o] = "active"}

\* The organisation signed in to: the one chosen, or the only one there is.
\* Without a choice several organisations are offered and nobody signs in.
Resolved(o) ==
    IF o # NoOrg THEN Active \cap {o}
    ELSE IF Cardinality(Active) = 1 THEN Active ELSE {}

Start(r, rec) ==
    /\ req[r] = Idle
    /\ req' = [req EXCEPT ![r] = rec]

Goto(r, step) == req' = [req EXCEPT ![r].at = step]

End(r) == req' = [req EXCEPT ![r] = Idle]

\* The person loses the access to o that was asked for before.
Withdrawn(o) ==
    [r \in Requests |-> IF /\ req[r].at \in {"find", "consume", "issue"}
                           /\ req[r].org = o
                        THEN [req[r] EXCEPT !.late = TRUE] ELSE req[r]]

-----------------------------------------------------------------------------
(* Signing in.  The last step of every way in is issue_session.            *)

Login(r) ==
    /\ \E slug \in Orgs \cup {NoOrg} : \E o \in Resolved(slug) :
          Start(r, At("issue", o, NoTicket, 0))
    /\ UNCHANGED <<tenants, member, ticket, tokens, grants>>

\* The claims of an access token and active membership are all it takes.
SwitchOrg(r) ==
    /\ tokens # <<>>
    /\ \E o \in Active : Start(r, At("issue", o, NoTicket, 0))
    /\ UNCHANGED <<tenants, member, ticket, tokens, grants>>

\* refresh, find_valid_refresh_token.
Refresh(r) ==
    /\ \E k \in 1 .. Len(tokens) :
          /\ tokens[k].state = "live"
          /\ Start(r, At("find", tokens[k].org, NoTicket, k))
    /\ UNCHANGED <<tenants, member, ticket, tokens, grants>>

\* Slips of the next action: the old token is revoked before there is a new
\* one; a removed member is taken for an active one.
FindUserRevoking(r) ==
    /\ req[r].at = "find"
    /\ IF member[req[r].org] = "active" THEN Goto(r, "issue") ELSE End(r)
    /\ tokens' = [tokens EXCEPT ![req[r].old].state = "rotated"]
    /\ UNCHANGED <<tenants, member, ticket, grants>>

FindAnyUser(r) ==
    /\ req[r].at = "find"
    /\ Goto(r, "issue")
    /\ UNCHANGED <<tenants, member, ticket, tokens, grants>>

\* get_user_by_id: the user of the refresh token must be active.
FindUser(r) ==
    /\ req[r].at = "find"
    /\ IF member[req[r].org] = "active" THEN Goto(r, "issue") ELSE End(r)
    /\ UNCHANGED <<tenants, member, ticket, tokens, grants>>

\* issue_session: a new row, after which only a refresh has more to do.
\* raced and toMember are history: whether access was lost on the way and, if
\* not, whether the session went to a member.
IssueSession(r) ==
    LET o == req[r].org IN
    /\ req[r].at = "issue"
    /\ Len(tokens) < MaxTokens
    /\ tokens' = Append(tokens, [org |-> o, state |-> "live", parent |-> req[r].old,
                                 raced |-> req[r].late,
                                 toMember |-> req[r].late \/ member[o] = "active"])
    /\ IF req[r].old # 0 THEN Goto(r, "revokeOld") ELSE End(r)
    /\ grants' = IF req[r].ticket \in Links
                 THEN [grants EXCEPT ![req[r].ticket] = @ + 1] ELSE grants
    /\ UNCHANGED <<tenants, member, ticket>>

\* revoke_refresh_token; its failure is logged, and is a Drop here.
RevokeOld(r) ==
    /\ req[r].at = "revokeOld"
    /\ tokens' = [tokens EXCEPT ![req[r].old].state = IF @ = "live" THEN "rotated" ELSE @]
    /\ End(r)
    /\ UNCHANGED <<tenants, member, ticket, grants>>

-----------------------------------------------------------------------------
(* Magic links.                                                            *)

Fresh(t) == ticket[t] = "unsent" /\ \A q \in Requests : req[q].ticket # t

\* magic_link_request, and a Google sign-in: the address must have a user.
MagicLinkRequest(r) ==
    /\ Active # {}
    /\ \E l \in Links : Fresh(l) /\ Start(r, At("sendLink", NoOrg, l, 0))
    /\ UNCHANGED <<tenants, member, ticket, tokens, grants>>

CreateMagicLink(r) ==
    /\ req[r].at = "sendLink"
    /\ ticket' = [ticket EXCEPT ![req[r].ticket] = "open"]
    /\ End(r)
    /\ UNCHANGED <<tenants, member, tokens, grants>>

\* Slip: a request that has to choose first goes on without a choice.
MagicLinkVerifyUnchosen(r) ==
    /\ \E l \in Links, slug \in Orgs \cup {NoOrg} :
          ticket[l] = "open" /\ Active # {} /\ Start(r, At("consume", slug, l, 0))
    /\ UNCHANGED <<tenants, member, ticket, tokens, grants>>

\* magic_link_verify: the link is looked at (peek_magic_link) and its user is
\* found; without one, or with an organisation to choose first, the request
\* ends here and the link stays open.  A link used up between the two reads is
\* refused by the next step, so they are one.
MagicLinkVerify(r) ==
    /\ \E l \in Links, slug \in Orgs \cup {NoOrg} : \E o \in Resolved(slug) :
          ticket[l] = "open" /\ Start(r, At("consume", o, l, 0))
    /\ UNCHANGED <<tenants, member, ticket, tokens, grants>>

\* Slip: the earlier look at the link is enough.
ConsumeUnchecked(r) ==
    /\ req[r].at = "consume"
    /\ ticket' = [ticket EXCEPT ![req[r].ticket] = "used"]
    /\ Goto(r, "issue")
    /\ UNCHANGED <<tenants, member, tokens, grants>>

\* consume_magic_link: one statement checks and marks it.
ConsumeMagicLink(r) ==
    LET l == req[r].ticket IN
    /\ req[r].at = "consume"
    /\ \/ /\ ticket[l] = "open"
          /\ ticket' = [ticket EXCEPT ![l] = "used"]
          /\ Goto(r, "issue")
       \/ /\ ticket[l] # "open"
          /\ End(r)
          /\ UNCHANGED ticket
    /\ UNCHANGED <<tenants, member, tokens, grants>>

-----------------------------------------------------------------------------
(* Joining.                                                                *)

\* invite_member: nobody active has the address.
InviteMember(r) ==
    /\ \E i \in Invites :
          /\ Fresh(i)
          /\ InviteOrg[i] \in tenants
          /\ member[InviteOrg[i]] # "active"
          /\ Start(r, At("sendInvite", InviteOrg[i], i, 0))
    /\ UNCHANGED <<tenants, member, ticket, tokens, grants>>

\* create_invite: in one transaction the pending invitation goes, the new one
\* comes.
CreateInvite(r) ==
    /\ req[r].at = "sendInvite"
    /\ ticket' = [t \in Tickets |->
                    IF t = req[r].ticket THEN "open"
                    ELSE IF t \in Invites /\ InviteOrg[t] = req[r].org /\ ticket[t] = "open"
                         THEN "gone" ELSE ticket[t]]
    /\ End(r)
    /\ UNCHANGED <<tenants, member, tokens, grants>>

\* accept_invite, claim_invite: the claim comes before everything else.
AcceptInvite(r) ==
    /\ \E i \in Invites :
          /\ ticket[i] = "open"
          /\ Start(r, At("create", InviteOrg[i], i, 0))
          /\ ticket' = [ticket EXCEPT ![i] = "used"]
    /\ UNCHANGED <<tenants, member, tokens, grants>>

\* register: open to all while there is no tenant.
Register(r) ==
    /\ tenants = {} \/ AllowSignup
    /\ \E o \in Orgs : Start(r, At("tenant", o, NoTicket, 0))
    /\ UNCHANGED <<tenants, member, ticket, tokens, grants>>

\* create_tenant: slugs are unique.
CreateTenant(r) ==
    /\ req[r].at = "tenant"
    /\ tenants' = tenants \cup {req[r].org}
    /\ IF req[r].org \in tenants THEN End(r) ELSE Goto(r, "create")
    /\ UNCHANGED <<member, ticket, tokens, grants>>

\* create_user: a row for the address, active or not, is a conflict, and the
\* invitation is spent all the same.
CreateUser(r) ==
    LET o == req[r].org IN
    /\ req[r].at = "create"
    /\ \/ /\ member[o] = "none"
          /\ member' = [member EXCEPT ![o] = "active"]
          /\ grants' = IF req[r].ticket \in Invites
                       THEN [grants EXCEPT ![req[r].ticket] = @ + 1] ELSE grants
          /\ Goto(r, "issue")
       \/ /\ member[o] # "none"
          /\ End(r)
          /\ UNCHANGED <<member, grants>>
    /\ UNCHANGED <<tenants, ticket, tokens>>

-----------------------------------------------------------------------------
(* Losing access.                                                          *)

\* revoke_all_for_user.
RevokeAllForUser(o) ==
    [k \in DOMAIN tokens |-> IF tokens[k].org = o /\ tokens[k].state = "live"
                             THEN [tokens[k] EXCEPT !.state = "revoked"] ELSE tokens[k]]

\* logout, with an access token of this organisation.
Logout(o) ==
    /\ \E k \in DOMAIN tokens : tokens[k].org = o
    /\ tokens' = RevokeAllForUser(o)
    /\ req' = Withdrawn(o)
    /\ UNCHANGED <<tenants, member, ticket, grants>>

\* remove_member: the row stays, inactive, and the tokens stay as they are.
RemoveMember(o) ==
    /\ member[o] = "active"
    /\ member' = [member EXCEPT ![o] = "removed"]
    /\ req' = Withdrawn(o)
    /\ UNCHANGED <<tenants, ticket, tokens, grants>>

\* reset_member_password: the new hash first, then the tokens.
ResetMemberPassword(r) ==
    /\ \E o \in Active : Start(r, At("revokeAll", o, NoTicket, 0))
    /\ UNCHANGED <<tenants, member, ticket, tokens, grants>>

RevokeAll(r) ==
    /\ req[r].at = "revokeAll"
    /\ tokens' = RevokeAllForUser(req[r].org)
    /\ req' = [Withdrawn(req[r].org) EXCEPT ![r] = Idle]
    /\ UNCHANGED <<tenants, member, ticket, grants>>

-----------------------------------------------------------------------------
\* Fifteen minutes, or the days of an invitation, go by.  A refresh token past
\* its thirty days is one nobody brings any more.
TicketExpires(t) ==
    /\ ticket[t] = "open"
    /\ ticket' = [ticket EXCEPT ![t] = "gone"]
    /\ UNCHANGED <<tenants, member, tokens, req, grants>>

\* A request ends early, whatever it has written so far stays.
Drop(r) ==
    /\ req[r] # Idle
    /\ End(r)
    /\ UNCHANGED <<tenants, member, ticket, tokens, grants>>

Begin(r) ==
    \/ Login(r) \/ SwitchOrg(r) \/ Refresh(r)
    \/ MagicLinkRequest(r) \/ MagicLinkVerify(r)
    \/ InviteMember(r) \/ AcceptInvite(r) \/ Register(r)
    \/ ResetMemberPassword(r)

Continue(r) ==
    \/ FindUser(r) \/ IssueSession(r) \/ RevokeOld(r)
    \/ CreateMagicLink(r) \/ ConsumeMagicLink(r)
    \/ CreateInvite(r) \/ CreateTenant(r) \/ CreateUser(r)
    \/ RevokeAll(r) \/ Drop(r)

Next ==
    \/ \E r \in Requests : Begin(r) \/ Continue(r)
    \/ \E o \in Orgs : Logout(o) \/ RemoveMember(o)
    \/ \E t \in Tickets : TicketExpires(t)

Spec == Init /\ [][Next]_vars

-----------------------------------------------------------------------------
(* Properties.                                                             *)

Steps == {"idle", "issue", "find", "revokeOld", "sendLink", "consume",
          "sendInvite", "create", "tenant", "revokeAll"}

\* Every variable stays in its type, and a request that is about to write a
\* user or a session knows the organisation it is for.
TypeOK ==
    /\ tenants \subseteq Orgs
    /\ member \in [Orgs -> {"none", "active", "removed"}]
    /\ ticket \in [Tickets -> {"unsent", "open", "used", "gone"}]
    /\ tokens \in Seq([org : Orgs, state : {"live", "rotated", "revoked"},
                       parent : Nat, raced : BOOLEAN, toMember : BOOLEAN])
    /\ req \in [Requests -> [at : Steps, org : Orgs \cup {NoOrg},
                             ticket : Tickets \cup {NoTicket}, old : Nat,
                             late : BOOLEAN]]
    /\ \A r \in Requests :
          /\ req[r].at \notin {"idle", "sendLink"} => req[r].org \in Orgs
          /\ req[r].old \in 0 .. Len(tokens)
          /\ req[r].at \in {"sendLink", "consume", "sendInvite"}
             => req[r].ticket \in Tickets
    /\ grants \in [Tickets -> Nat]

\* A magic link signs in at most once and an invitation makes at most one
\* user, also when two requests bring it at once; an expired or superseded one
\* does neither.
Mail == INSTANCE SingleUseTicket
ImplementsTickets == Mail!TicketSpec

\* A refresh never takes the last session away: a token it revoked has a
\* successor in the table, wherever the refresh failed.
RotationKeepsASession ==
    \A k \in DOMAIN tokens :
        tokens[k].state = "rotated" => \E n \in DOMAIN tokens : tokens[n].parent = k

\* After a sign-out, a reset or a removal, a session that lives on an earlier
\* one, or is given to someone who is no member, is the work of a request that
\* was already under way then.
WithdrawalHolds ==
    \A k \in DOMAIN tokens :
        \/ tokens[k].raced
        \/ /\ tokens[k].toMember
           /\ tokens[k].state = "live" /\ tokens[k].parent # 0
              => tokens[tokens[k].parent].state # "revoked"

=============================================================================
