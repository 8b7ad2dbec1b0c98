--------------------------- MODULE SessionsProofs ---------------------------
(***************************************************************************)
(* Theorems about Sessions: the tokens a person holds, and the links and   *)
(* invitations that lead to them.                                          *)
(***************************************************************************)
EXTENDS Sessions, SequenceTheorems, TLAPS

Records == [at : Steps, org : Orgs \cup {NoOrg}, ticket : Tickets \cup {NoTicket},
            old : Nat, late : BOOLEAN]

Rows == [org : Orgs, state : {"live", "rotated", "revoked"}, parent : Nat,
         raced : BOOLEAN, toMember : BOOLEAN]

\* A row descends from an earlier one of the same user.
Lineage ==
    \A k \in DOMAIN tokens :
        /\ tokens[k].parent \in 0 .. k - 1
        /\ tokens[k].parent # 0 => tokens[tokens[k].parent].org = tokens[k].org

\* The type of a request at its step.
Proper(w) ==
    /\ w.at \notin {"idle", "sendLink"} => w.org \in Orgs
    /\ w.old \in 0 .. Len(tokens)
    /\ w.at \in {"sendLink", "consume", "sendInvite"} => w.ticket \in Tickets

\* What holds of a request at its step: unless access was lost on the way, the
\* person is a member where it signs in, and the token it refreshes was not
\* revoked; when it revokes the old token there is a new one.
Warranted(w) ==
    /\ w.at \in {"consume", "issue"} /\ ~w.late => member[w.org] = "active"
    /\ w.old # 0 => w.old \in DOMAIN tokens /\ tokens[w.old].org = w.org
    /\ w.at \in {"find", "issue"} /\ w.old # 0 /\ ~w.late
       => tokens[w.old].state # "revoked"
    /\ w.at \notin {"find", "issue", "revokeOld"} => w.old = 0
    /\ w.at = "revokeOld" => w.old # 0 /\ \E n \in DOMAIN tokens : tokens[n].parent = w.old

RequestInv == \A r \in Requests : Warranted(req[r])

\* A request about to make a ticket good, and one about to send one.
Granting(w) ==
    \/ w.at = "issue" /\ w.ticket \in Links
    \/ w.at = "create" /\ w.ticket \in Invites

Sending(w) == w.at \in {"sendLink", "sendInvite"}

\* A request that brings a link or an invitation, or none.
Brings(w) ==
    /\ w.at = "consume" => w.ticket \in Links /\ ticket[w.ticket] # "unsent"
    /\ w.at \in {"find", "tenant"} => w.ticket \notin Tickets
    /\ w.at \in {"create", "issue"} /\ w.ticket \in Tickets => ticket[w.ticket] # "unsent"
    /\ w.at = "create" => w.ticket \notin Links

\* A ticket not used has granted nothing, and one that is used is in the hands
\* of one request at most, until it has; one being sent is in nobody else's.
TicketInv ==
    /\ \A t \in Tickets : ticket[t] # "used" => grants[t] = 0
    /\ \A r \in Requests :
          /\ Brings(req[r])
          /\ Granting(req[r]) =>
                /\ ticket[req[r].ticket] = "used"
                /\ grants[req[r].ticket] = 0
                /\ \A q \in Requests \ {r} :
                      Granting(req[q]) => req[q].ticket # req[r].ticket
          /\ Sending(req[r]) =>
                /\ req[r].ticket \in Tickets
                /\ ticket[req[r].ticket] = "unsent"
                /\ \A q \in Requests \ {r} : req[q].ticket # req[r].ticket

IInv == TypeOK /\ Lineage /\ RequestInv /\ TicketInv
        /\ RotationKeepsASession /\ WithdrawalHolds

-----------------------------------------------------------------------------
(* Kinds of step.                                                          *)

\* The marks for no ticket and no organisation are none.
LEMMA NoTicketOutside == NoTicket \notin Tickets /\ NoOrg \notin Orgs /\ Links \cap Invites = {}
  BY SessionsAssumption

\* The rows of refresh_tokens.
LEMMA TokenRows ==
    ASSUME TypeOK
    PROVE  /\ tokens \in Seq(Rows) /\ Len(tokens) \in Nat
           /\ DOMAIN tokens = 1 .. Len(tokens)
           /\ \A k \in DOMAIN tokens : tokens[k] \in Rows
<1>1. tokens \in Seq(Rows)
  BY DEF TypeOK, Rows
<1> QED
  BY <1>1, LenProperties, ElementOfSeq

\* A request changes: the others stay as they are.
LEMMA OneRequest ==
    ASSUME TypeOK, NEW r \in Requests, NEW v \in Records, req' = [req EXCEPT ![r] = v]
    PROVE  /\ req' \in [Requests -> Records]
           /\ req'[r] = v
           /\ \A q \in Requests \ {r} : req'[q] = req[q]
  BY DEF TypeOK, Records

\* A request at a step.
LEMMA AtIsRecord ==
    ASSUME NEW step \in Steps, NEW o \in Orgs \cup {NoOrg},
           NEW t \in Tickets \cup {NoTicket}, NEW k \in Nat
    PROVE  /\ At(step, o, t, k) \in Records
           /\ At(step, o, t, k).at = step /\ At(step, o, t, k).org = o
           /\ At(step, o, t, k).ticket = t /\ At(step, o, t, k).old = k
           /\ ~At(step, o, t, k).late
  BY DEF At, Records

LEMMA IdleIsRecord ==
    /\ Idle \in Records /\ Idle.at = "idle" /\ Idle.ticket = NoTicket /\ Idle.old = 0
  BY DEF Idle, Records, Steps

\* A request that takes a step keeps what it knows.
LEMMA GoesOn ==
    ASSUME TypeOK, NEW r \in Requests, NEW step \in Steps, Goto(r, step)
    PROVE  /\ req' \in [Requests -> Records]
           /\ req'[r].at = step
           /\ req'[r].org = req[r].org /\ req'[r].ticket = req[r].ticket
           /\ req'[r].old = req[r].old /\ req'[r].late = req[r].late
           /\ \A q \in Requests \ {r} : req'[q] = req[q]
<1> DEFINE v == [req[r] EXCEPT !.at = step]
<1>1. req[r] \in Records
  BY DEF TypeOK, Records
<1>2. /\ v \in Records /\ v.at = step /\ v.org = req[r].org
      /\ v.ticket = req[r].ticket /\ v.old = req[r].old /\ v.late = req[r].late
  BY <1>1 DEF Records
<1>3. req' = [req EXCEPT ![r] = v]
  BY <1>1 DEF Goto, TypeOK
<1> HIDE DEF v
<1> QED
  BY <1>2, <1>3, OneRequest

\* Access is lost: some requests turn out late, and that is all.
LEMMA AccessLost ==
    ASSUME TypeOK, NEW o \in Orgs, NEW f, f = Withdrawn(o)
    PROVE  /\ f \in [Requests -> Records]
           /\ \A r \in Requests :
                 /\ f[r].at = req[r].at /\ f[r].org = req[r].org
                 /\ f[r].ticket = req[r].ticket /\ f[r].old = req[r].old
                 /\ req[r].late => f[r].late
                 /\ req[r].at \in {"find", "consume", "issue"} /\ req[r].org = o => f[r].late
<1> SUFFICES ASSUME NEW r \in Requests
             PROVE  /\ f[r] \in Records
                    /\ f[r].at = req[r].at /\ f[r].org = req[r].org
                    /\ f[r].ticket = req[r].ticket /\ f[r].old = req[r].old
                    /\ req[r].late => f[r].late
                    /\ req[r].at \in {"find", "consume", "issue"} /\ req[r].org = o => f[r].late
  BY DEF Withdrawn
<1>1. req[r] \in Records
  BY DEF TypeOK, Records
<1>2. f[r] = IF /\ req[r].at \in {"find", "consume", "issue"}
                /\ req[r].org = o
             THEN [req[r] EXCEPT !.late = TRUE] ELSE req[r]
  BY DEF Withdrawn
<1>3. CASE f[r] = req[r] /\ ~(req[r].at \in {"find", "consume", "issue"} /\ req[r].org = o)
  BY <1>1, <1>3
<1>4. CASE f[r] = [req[r] EXCEPT !.late = TRUE]
  BY <1>1, <1>4 DEF Records
<1> QED
  BY <1>2, <1>3, <1>4

\* The rows of refresh_tokens change state and nothing else.
LEMMA StatesOnly ==
    ASSUME TypeOK, NEW f,
           \/ \E o \in Orgs : f = RevokeAllForUser(o)
           \/ \E k \in DOMAIN tokens :
                 f = [tokens EXCEPT ![k].state = IF @ = "live" THEN "rotated" ELSE @]
    PROVE  /\ f \in Seq(Rows) /\ Len(f) = Len(tokens) /\ DOMAIN f = DOMAIN tokens
           /\ \A k \in DOMAIN tokens :
                 /\ f[k].org = tokens[k].org /\ f[k].parent = tokens[k].parent
                 /\ f[k].raced = tokens[k].raced /\ f[k].toMember = tokens[k].toMember
                 /\ tokens[k].state # "live" => f[k].state = tokens[k].state
<1>1. tokens \in Seq(Rows) /\ DOMAIN tokens = 1 .. Len(tokens) /\ Len(tokens) \in Nat
  BY DEF TypeOK, Rows
<1>2. DOMAIN f = DOMAIN tokens
  BY DEF RevokeAllForUser
<1>3. \A k \in DOMAIN tokens :
         /\ f[k] \in Rows
         /\ f[k].org = tokens[k].org /\ f[k].parent = tokens[k].parent
         /\ f[k].raced = tokens[k].raced /\ f[k].toMember = tokens[k].toMember
         /\ tokens[k].state # "live" => f[k].state = tokens[k].state
  <2> SUFFICES ASSUME NEW k \in DOMAIN tokens
               PROVE  /\ f[k] \in Rows
                      /\ f[k].org = tokens[k].org /\ f[k].parent = tokens[k].parent
                      /\ f[k].raced = tokens[k].raced /\ f[k].toMember = tokens[k].toMember
                      /\ tokens[k].state # "live" => f[k].state = tokens[k].state
    OBVIOUS
  <2>1. tokens[k] \in Rows
    BY <1>1
  <2>2. \/ f[k] = tokens[k]
        \/ tokens[k].state = "live" /\ f[k] = [tokens[k] EXCEPT !.state = "revoked"]
        \/ tokens[k].state = "live" /\ f[k] = [tokens[k] EXCEPT !.state = "rotated"]
    <3>1. ASSUME NEW o \in Orgs, f = RevokeAllForUser(o)
          PROVE  \/ f[k] = tokens[k]
                 \/ tokens[k].state = "live" /\ f[k] = [tokens[k] EXCEPT !.state = "revoked"]
      BY <3>1 DEF RevokeAllForUser
    <3>2. ASSUME NEW m \in DOMAIN tokens,
                 f = [tokens EXCEPT ![m].state = IF @ = "live" THEN "rotated" ELSE @]
          PROVE  \/ f[k] = tokens[k]
                 \/ tokens[k].state = "live" /\ f[k] = [tokens[k] EXCEPT !.state = "rotated"]
      <4>1. CASE k = m /\ tokens[k].state # "live"
        <5>1. f[k] = [tokens[k] EXCEPT !.state = tokens[k].state]
          BY <3>2, <4>1
        <5> QED
          BY <2>1, <5>1 DEF Rows
      <4>2. CASE ~(k = m /\ tokens[k].state # "live")
        BY <3>2, <4>2
      <4> QED
        BY <4>1, <4>2
    <3> QED
      BY <3>1, <3>2
  <2> QED
    BY <2>1, <2>2 DEF Rows
<1>4. f \in Seq(Rows) /\ Len(f) = Len(tokens)
  <2>1. f \in [1 .. Len(tokens) -> Rows]
    <3>1. \/ \E o \in Orgs : f = [k \in DOMAIN tokens |-> f[k]]
          \/ \E k \in DOMAIN tokens : f = [j \in DOMAIN tokens |-> f[j]]
      BY DEF RevokeAllForUser
    <3> QED
      BY <1>1, <1>2, <1>3, <3>1
  <2> QED
    BY <1>1, <2>1, IsASeq, LenProperties
<1> QED
  BY <1>2, <1>3, <1>4

-----------------------------------------------------------------------------
(* One request takes a step and no table changes but tenants.              *)

\* What the step has to show of the request.
LEMMA RequestTurns ==
    ASSUME IInv, UNCHANGED <<member, ticket, tokens, grants>>, tenants' \subseteq Orgs,
           NEW r \in Requests, req' \in [Requests -> Records],
           \A q \in Requests \ {r} : req'[q] = req[q],
           Proper(req'[r]), Warranted(req'[r]), Brings(req'[r]), ~Granting(req'[r]),
           Sending(req'[r]) =>
               /\ req'[r].ticket \in Tickets /\ ticket[req'[r].ticket] = "unsent"
               /\ \A q \in Requests \ {r} : req[q].ticket # req'[r].ticket,
           ~Sending(req'[r]) => req'[r].ticket \in {NoTicket, req[r].ticket}
                                \/ ticket[req'[r].ticket] # "unsent"
    PROVE  IInv'
<1> USE DEF IInv
<1>1. TypeOK'
  BY DEF TypeOK, Records, Proper
<1>2. Lineage' /\ RotationKeepsASession' /\ WithdrawalHolds'
  BY DEF Lineage, RotationKeepsASession, WithdrawalHolds
<1>3. RequestInv'
  BY DEF RequestInv, Warranted
<1>4. TicketInv'
  <2> USE DEF TicketInv
  <2>1. \A t \in Tickets : ticket'[t] # "used" => grants'[t] = 0
    OBVIOUS
  <2> SUFFICES ASSUME NEW p \in Requests
               PROVE  /\ Brings(req[p])'
                      /\ Granting(req[p])' =>
                            /\ ticket'[req'[p].ticket] = "used"
                            /\ grants'[req'[p].ticket] = 0
                            /\ \A q \in Requests \ {p} :
                                  Granting(req[q])' => req'[q].ticket # req'[p].ticket
                      /\ Sending(req[p])' =>
                            /\ req'[p].ticket \in Tickets
                            /\ ticket'[req'[p].ticket] = "unsent"
                            /\ \A q \in Requests \ {p} : req'[q].ticket # req'[p].ticket
    BY <2>1
  <2>2. Brings(req[p])'
    BY DEF Brings
  <2>3. Granting(req[p])' => p # r /\ Granting(req[p])
    BY DEF Granting
  <2>4. \A q \in Requests : Granting(req[q])' => q # r /\ Granting(req[q])
    BY DEF Granting
  <2>5. Sending(req[p])' => (p = r /\ Sending(req'[r])) \/ (p # r /\ Sending(req[p]))
    BY DEF Sending
  <2>6. p # r /\ Sending(req[p]) => req'[r].ticket # req[p].ticket
    BY NoTicketOutside
  <2> QED
    BY <2>2, <2>3, <2>4, <2>5, <2>6
<1> QED
  BY <1>1, <1>2, <1>3, <1>4

\* What the first read of a handler finds for its next step.
Arrives(step, o, t, k) ==
    \/ step = "issue" /\ o \in Active /\ t = NoTicket /\ k = 0
    \/ /\ step = "find" /\ t = NoTicket /\ k \in DOMAIN tokens
       /\ tokens[k].state = "live" /\ o = tokens[k].org
    \/ step = "sendLink" /\ o = NoOrg /\ t \in Links /\ Fresh(t) /\ k = 0
    \/ /\ step = "consume" /\ o \in Active /\ t \in Links
       /\ ticket[t] = "open" /\ k = 0
    \/ step = "sendInvite" /\ o \in Orgs /\ t \in Invites /\ Fresh(t) /\ k = 0
    \/ step \in {"tenant", "revokeAll"} /\ o \in Orgs /\ t = NoTicket /\ k = 0

\* A handler begins: its first read finds what its next step needs.
LEMMA Begins ==
    ASSUME IInv, NEW r \in Requests, Begin(r), ~AcceptInvite(r)
    PROVE  IInv'
<1> USE DEF IInv
<1>1. UNCHANGED <<tenants, member, ticket, tokens, grants>>
  BY DEF Begin, Login, SwitchOrg, Refresh, MagicLinkRequest, MagicLinkVerify,
         InviteMember, Register, ResetMemberPassword
<1>2. SUFFICES ASSUME NEW step \in Steps, NEW o \in Orgs \cup {NoOrg},
                      NEW t \in Tickets \cup {NoTicket}, NEW k \in Nat,
                      Start(r, At(step, o, t, k)),
                      Arrives(step, o, t, k)
               PROVE  IInv'
  <2> SUFFICES \E step \in Steps, o \in Orgs \cup {NoOrg}, t \in Tickets \cup {NoTicket}, k \in Nat :
                 Start(r, At(step, o, t, k)) /\ Arrives(step, o, t, k)
    OBVIOUS
  <2>1. \A slug \in Orgs \cup {NoOrg} : Resolved(slug) \subseteq Active /\ Active \subseteq Orgs
    BY DEF Resolved, Active
  <2>2. CASE Login(r) \/ SwitchOrg(r)
    BY <2>1, <2>2 DEF Login, SwitchOrg, Steps, Arrives
  <2>3. CASE Refresh(r)
    <3>1. PICK k \in 1 .. Len(tokens) :
             tokens[k].state = "live" /\ Start(r, At("find", tokens[k].org, NoTicket, k))
      BY <2>3 DEF Refresh
    <3>2. k \in Nat /\ k \in DOMAIN tokens /\ tokens[k].org \in Orgs
      BY TokenRows DEF Rows
    <3> QED
      BY <3>1, <3>2 DEF Steps, Arrives
  <2>4. CASE MagicLinkRequest(r)
    BY <2>4 DEF MagicLinkRequest, Steps, Tickets, Arrives
  <2>5. CASE MagicLinkVerify(r)
    BY <2>1, <2>5 DEF MagicLinkVerify, Steps, Tickets, Arrives
  <2>6. CASE InviteMember(r)
    BY <2>6, SessionsAssumption DEF InviteMember, Steps, Tickets, Arrives
  <2>7. CASE Register(r)
    BY <2>7 DEF Register, Steps, Arrives
  <2>8. CASE ResetMemberPassword(r)
    BY <2>8 DEF ResetMemberPassword, Active, Steps, Arrives
  <2> QED
    BY <2>2, <2>3, <2>4, <2>5, <2>6, <2>7, <2>8 DEF Begin
<1> DEFINE v == At(step, o, t, k)
<1>3. /\ v \in Records /\ v.at = step /\ v.org = o /\ v.ticket = t /\ v.old = k /\ ~v.late
  BY AtIsRecord
<1> HIDE DEF v
<1>4. /\ req' \in [Requests -> Records] /\ req'[r] = v
      /\ \A q \in Requests \ {r} : req'[q] = req[q]
  BY <1>2, <1>3, OneRequest DEF Start, v
<1>5. o \in Active => o \in Orgs /\ member[o] = "active"
  BY DEF Active
<1>6. Proper(v)
  BY <1>2, <1>3, <1>5, TokenRows DEF Proper, Arrives, Rows, Tickets
<1>7. Warranted(v)
  BY <1>2, <1>3, <1>5 DEF Warranted, Arrives
<1>8. Brings(v) /\ ~Granting(v)
  BY <1>2, <1>3, NoTicketOutside DEF Brings, Granting, Tickets, Arrives
<1>9. /\ Sending(v) => /\ t \in Tickets /\ ticket[t] = "unsent"
                       /\ \A q \in Requests \ {r} : req[q].ticket # t
      /\ ~Sending(v) => t = NoTicket \/ ticket[t] # "unsent"
  BY <1>2, <1>3 DEF Sending, Fresh, Tickets, Arrives
<1>10. tenants' \subseteq Orgs
  BY <1>1 DEF TypeOK
<1> QED
  BY <1>1, <1>3, <1>4, <1>6, <1>7, <1>8, <1>9, <1>10, RequestTurns

\* A request ends, whatever it was doing.
LEMMA EndsWell ==
    ASSUME IInv, UNCHANGED <<member, ticket, tokens, grants>>, tenants' \subseteq Orgs,
           NEW r \in Requests, End(r)
    PROVE  IInv'
<1>1. /\ req' \in [Requests -> Records] /\ req'[r] = Idle
      /\ \A q \in Requests \ {r} : req'[q] = req[q]
  BY IdleIsRecord, OneRequest DEF End, IInv
<1>2. Proper(Idle) /\ Warranted(Idle) /\ Brings(Idle) /\ ~Granting(Idle) /\ ~Sending(Idle)
  BY IdleIsRecord DEF Proper, Warranted, Brings, Granting, Sending, IInv, TypeOK
<1> QED
  BY <1>1, <1>2, IdleIsRecord, RequestTurns

\* A user is looked for, a tenant is made: the request goes on or ends.
LEMMA ReadSteps ==
    ASSUME IInv, NEW r \in Requests, FindUser(r) \/ CreateTenant(r)
    PROVE  IInv'
<1> USE DEF IInv
<1>1. /\ UNCHANGED <<member, ticket, tokens, grants>> /\ tenants' \subseteq Orgs
      /\ req[r].at \in {"find", "tenant"}
  BY DEF FindUser, CreateTenant, TypeOK
<1>2. CASE End(r)
  BY <1>1, <1>2, EndsWell
<1>3. ASSUME NEW step \in {"issue", "create"}, Goto(r, step),
             step = "issue" => member[req[r].org] = "active" /\ req[r].at = "find",
             step = "create" => req[r].at = "tenant"
      PROVE  IInv'
  <2>1. /\ req' \in [Requests -> Records] /\ req'[r].at = step
        /\ req'[r].org = req[r].org /\ req'[r].ticket = req[r].ticket
        /\ req'[r].old = req[r].old /\ req'[r].late = req[r].late
        /\ \A q \in Requests \ {r} : req'[q] = req[q]
    BY <1>3, GoesOn DEF Steps
  <2>2. req[r].ticket \notin Tickets /\ req[r].ticket = NoTicket
    BY <1>1 DEF TicketInv, Brings, TypeOK
  <2>3. Proper(req'[r])
    BY <1>1, <2>1 DEF Proper, TypeOK
  <2>4. Warranted(req'[r])
    BY <1>1, <1>3, <2>1 DEF Warranted, RequestInv
  <2>5. Brings(req'[r]) /\ ~Granting(req'[r]) /\ ~Sending(req'[r])
    BY <2>1, <2>2 DEF Brings, Granting, Sending, Tickets
  <2> QED
    BY <1>1, <2>1, <2>2, <2>3, <2>4, <2>5, RequestTurns
<1> QED
  BY <1>2, <1>3 DEF FindUser, CreateTenant

-----------------------------------------------------------------------------
(* Links and invitations change.                                           *)

\* Only tickets and one request change: what is left to show of either.
LEMMA TicketTurns ==
    ASSUME IInv, UNCHANGED <<tenants, member, tokens, grants>>,
           ticket' \in [Tickets -> {"unsent", "open", "used", "gone"}],
           req' \in [Requests -> Records],
           NEW r \in Requests, \A q \in Requests \ {r} : req'[q] = req[q],
           Proper(req'[r]), Warranted(req'[r])
    PROVE  TypeOK' /\ Lineage' /\ RequestInv' /\ RotationKeepsASession' /\ WithdrawalHolds'
<1> USE DEF IInv
<1>1. TypeOK'
  BY DEF TypeOK, Records, Proper
<1>2. Lineage' /\ RotationKeepsASession' /\ WithdrawalHolds'
  BY DEF Lineage, RotationKeepsASession, WithdrawalHolds
<1>3. RequestInv'
  BY DEF RequestInv, Warranted
<1> QED
  BY <1>1, <1>2, <1>3

\* A link or an invitation is stored; an invitation replaces its open ones.
LEMMA SendSteps ==
    ASSUME IInv, NEW r \in Requests, CreateMagicLink(r) \/ CreateInvite(r)
    PROVE  IInv'
<1> USE DEF IInv
<1>1. /\ UNCHANGED <<tenants, member, tokens, grants>> /\ End(r) /\ Sending(req[r])
  BY DEF CreateMagicLink, CreateInvite, Sending
<1>2. /\ req' \in [Requests -> Records] /\ req'[r] = Idle
      /\ \A q \in Requests \ {r} : req'[q] = req[q]
  BY <1>1, IdleIsRecord, OneRequest DEF End
<1>3. /\ req[r].ticket \in Tickets /\ ticket[req[r].ticket] = "unsent"
      /\ \A q \in Requests \ {r} : req[q].ticket # req[r].ticket
  BY <1>1 DEF TicketInv
<1>4. /\ ticket' \in [Tickets -> {"unsent", "open", "used", "gone"}]
      /\ ticket'[req[r].ticket] = "open"
      /\ \A t \in Tickets : t # req[r].ticket
                            => \/ ticket'[t] = ticket[t]
                               \/ ticket[t] = "open" /\ ticket'[t] = "gone"
  <2>1. ticket \in [Tickets -> {"unsent", "open", "used", "gone"}]
    BY DEF TypeOK
  <2>2. CASE CreateMagicLink(r)
    BY <1>3, <2>1, <2>2 DEF CreateMagicLink
  <2>3. CASE CreateInvite(r)
    <3>1. ticket' = [t \in Tickets |->
                       IF t = req[r].ticket THEN "open"
                       ELSE IF t \in Invites /\ InviteOrg[t] = req[r].org /\ ticket[t] = "open"
                            THEN "gone" ELSE ticket[t]]
      BY <2>3 DEF CreateInvite
    <3> QED
      BY <1>3, <2>1, <3>1
  <2> QED
    BY <2>2, <2>3
<1>5. Proper(Idle) /\ Warranted(Idle) /\ Brings(Idle)' /\ ~Granting(Idle) /\ ~Sending(Idle)
  BY IdleIsRecord DEF Proper, Warranted, Brings, Granting, Sending, TypeOK
<1>6. TypeOK' /\ Lineage' /\ RequestInv' /\ RotationKeepsASession' /\ WithdrawalHolds'
  BY <1>1, <1>2, <1>4, <1>5, TicketTurns
<1>7. TicketInv'
  <2>1. \A t \in Tickets : ticket'[t] # "used" => grants'[t] = 0
    BY <1>1, <1>3, <1>4 DEF TicketInv
  <2>2. \A q \in Requests \ {r} : Brings(req[q])'
    BY <1>2, <1>3, <1>4 DEF Brings, TicketInv, Tickets
  <2>3. \A q \in Requests \ {r} : Granting(req[q]) => ticket'[req[q].ticket] = "used"
    BY <1>3, <1>4 DEF Granting, TicketInv, Tickets
  <2>4. \A q \in Requests \ {r} : Sending(req[q]) => ticket'[req[q].ticket] = "unsent"
    BY <1>3, <1>4 DEF TicketInv
  <2> QED
    BY <1>1, <1>2, <1>5, <2>1, <2>2, <2>3, <2>4, IdleIsRecord, NoTicketOutside
    DEF TicketInv, Granting, Sending
<1> QED
  BY <1>6, <1>7

\* An invitation is claimed, a link is used up: one request holds it now.
LEMMA TakeSteps ==
    ASSUME IInv, NEW r \in Requests, AcceptInvite(r) \/ ConsumeMagicLink(r)
    PROVE  IInv'
<1> USE DEF IInv
<1>1. UNCHANGED <<tenants, member, tokens, grants>>
  BY DEF AcceptInvite, ConsumeMagicLink
<1>2. CASE End(r) /\ UNCHANGED ticket
  <2>1. tenants' \subseteq Orgs
    BY <1>1 DEF TypeOK
  <2> QED
    BY <1>1, <1>2, <2>1, EndsWell
<1>3. ASSUME NEW t \in Tickets, ticket[t] = "open", ticket' = [ticket EXCEPT ![t] = "used"],
             req' \in [Requests -> Records], \A q \in Requests \ {r} : req'[q] = req[q],
             req'[r].ticket = t, Granting(req'[r]), req'[r].at # "consume",
             Proper(req'[r]), Warranted(req'[r])
      PROVE  IInv'
  <2>1. /\ ticket' \in [Tickets -> {"unsent", "open", "used", "gone"}]
        /\ ticket'[t] = "used" /\ \A u \in Tickets \ {t} : ticket'[u] = ticket[u]
    BY <1>3 DEF TypeOK
  <2>2. TypeOK' /\ Lineage' /\ RequestInv' /\ RotationKeepsASession' /\ WithdrawalHolds'
    BY <1>1, <1>3, <2>1, TicketTurns
  <2>3. TicketInv'
    <3>1. \A u \in Tickets : ticket'[u] # "used" => grants'[u] = 0
      BY <1>1, <1>3, <2>1 DEF TicketInv
    <3>2. \A q \in Requests \ {r} : Granting(req[q]) \/ Sending(req[q]) => req[q].ticket # t
      BY <1>3 DEF TicketInv
    <3>3. \A q \in Requests \ {r} : /\ Brings(req[q])'
                                    /\ Granting(req[q]) => ticket'[req[q].ticket] = "used"
                                    /\ Sending(req[q]) => ticket'[req[q].ticket] = "unsent"
      BY <1>3, <2>1, <3>2 DEF TicketInv, Brings, Granting, Tickets
    <3>4. ~Sending(req'[r]) /\ Brings(req[r])' /\ grants[t] = 0
      BY <1>3, <2>1, NoTicketOutside DEF Granting, Sending, Brings, Tickets, TicketInv
    <3>5. \A q \in Requests : Granting(req[q])' =>
             /\ ticket'[req'[q].ticket] = "used" /\ grants'[req'[q].ticket] = 0
             /\ \A u \in Requests \ {q} : Granting(req[u])' => req'[u].ticket # req'[q].ticket
      <4>1. \A q \in Requests \ {r} : Granting(req[q])' <=> Granting(req[q])
        BY <1>3 DEF Granting
      <4> QED
        BY <1>1, <1>3, <2>1, <3>2, <3>3, <3>4, <4>1 DEF TicketInv
    <3>6. \A q \in Requests : Sending(req[q])' =>
             /\ req'[q].ticket \in Tickets /\ ticket'[req'[q].ticket] = "unsent"
             /\ \A u \in Requests \ {q} : req'[u].ticket # req'[q].ticket
      <4>1. \A q \in Requests : Sending(req[q])' => q # r /\ Sending(req[q])
        BY <1>3, <3>4 DEF Sending
      <4> QED
        BY <1>3, <2>1, <3>2, <3>3, <4>1 DEF TicketInv
    <3>7. \A q \in Requests : Brings(req[q])'
      BY <3>3, <3>4
    <3> QED
      BY <3>1, <3>5, <3>6, <3>7 DEF TicketInv
  <2> QED
    BY <2>2, <2>3
<1>4. CASE AcceptInvite(r)
  <2>1. PICK i \in Invites : /\ ticket[i] = "open"
                             /\ Start(r, At("create", InviteOrg[i], i, 0))
                             /\ ticket' = [ticket EXCEPT ![i] = "used"]
    BY <1>4 DEF AcceptInvite
  <2> DEFINE v == At("create", InviteOrg[i], i, 0)
  <2>2. /\ v \in Records /\ v.at = "create" /\ v.org = InviteOrg[i] /\ v.ticket = i
        /\ v.old = 0 /\ ~v.late /\ InviteOrg[i] \in Orgs
    <3>1. "create" \in Steps /\ InviteOrg[i] \in Orgs /\ i \in Tickets /\ 0 \in Nat
      BY SessionsAssumption DEF Steps, Tickets
    <3> QED
      BY <3>1, AtIsRecord
  <2> HIDE DEF v
  <2>3. /\ req' \in [Requests -> Records] /\ req'[r] = v
        /\ \A q \in Requests \ {r} : req'[q] = req[q]
    BY <2>1, <2>2, OneRequest DEF Start, v
  <2>4. Proper(v) /\ Warranted(v) /\ Granting(v)
    BY <2>2, TokenRows DEF Proper, Warranted, Granting
  <2> QED
    BY <1>3, <2>1, <2>2, <2>3, <2>4 DEF Tickets
<1>5. CASE ConsumeMagicLink(r) /\ ticket[req[r].ticket] = "open"
  <2>1. /\ req[r].at = "consume" /\ ticket[req[r].ticket] = "open"
        /\ ticket' = [ticket EXCEPT ![req[r].ticket] = "used"] /\ Goto(r, "issue")
    BY <1>5 DEF ConsumeMagicLink
  <2>2. /\ req' \in [Requests -> Records] /\ req'[r].at = "issue"
        /\ req'[r].org = req[r].org /\ req'[r].ticket = req[r].ticket
        /\ req'[r].old = req[r].old /\ req'[r].late = req[r].late
        /\ \A q \in Requests \ {r} : req'[q] = req[q]
    BY <2>1, GoesOn DEF Steps
  <2>3. req[r].ticket \in Links
    BY <2>1 DEF TicketInv, Brings
  <2>4. Proper(req'[r]) /\ Warranted(req'[r]) /\ Granting(req'[r])
    BY <2>1, <2>2, <2>3 DEF Proper, Warranted, Granting, RequestInv, TypeOK
  <2> QED
    BY <1>3, <2>1, <2>2, <2>3, <2>4 DEF Tickets
<1> QED
  BY <1>2, <1>4, <1>5 DEF ConsumeMagicLink

\* A link or an invitation expires.
LEMMA ExpiryStep ==
    ASSUME IInv, NEW t \in Tickets, TicketExpires(t)
    PROVE  IInv'
<1> USE DEF IInv
<1>1. /\ UNCHANGED <<tenants, member, tokens, req, grants>>
      /\ ticket[t] = "open" /\ ticket'[t] = "gone"
      /\ ticket' \in [Tickets -> {"unsent", "open", "used", "gone"}]
      /\ \A u \in Tickets \ {t} : ticket'[u] = ticket[u]
  BY DEF TicketExpires, TypeOK
<1>2. TypeOK' /\ Lineage' /\ RequestInv' /\ RotationKeepsASession' /\ WithdrawalHolds'
  BY <1>1 DEF TypeOK, Lineage, RequestInv, Warranted, RotationKeepsASession, WithdrawalHolds
<1>3. TicketInv'
  <2>1. \A u \in Tickets : ticket'[u] # "used" => grants'[u] = 0
    BY <1>1 DEF TicketInv
  <2>2. \A q \in Requests : /\ Brings(req[q])'
                            /\ Granting(req[q]) => ticket'[req[q].ticket] = "used"
                            /\ Sending(req[q]) => ticket'[req[q].ticket] = "unsent"
    BY <1>1 DEF TicketInv, Brings, Granting, Tickets
  <2> QED
    BY <1>1, <2>1, <2>2 DEF TicketInv, Granting, Sending
<1> QED
  BY <1>2, <1>3

-----------------------------------------------------------------------------
(* Access is lost.                                                         *)

\* The tokens of an organisation may be revoked and the person removed from
\* it; requests for it turn out late, some may end.
LEMMA AccessGoes ==
    ASSUME IInv, UNCHANGED <<tenants, ticket, grants>>, NEW o \in Orgs,
           tokens' = tokens \/ tokens' = RevokeAllForUser(o),
           member' \in [Orgs -> {"none", "active", "removed"}],
           \A p \in Orgs \ {o} : member'[p] = member[p],
           req' \in [Requests -> Records],
           \A r \in Requests : req'[r] = Idle \/ req'[r] = Withdrawn(o)[r]
    PROVE  IInv'
<1> USE DEF IInv
<1>1. /\ tokens' \in Seq(Rows) /\ Len(tokens') = Len(tokens) /\ DOMAIN tokens' = DOMAIN tokens
      /\ \A k \in DOMAIN tokens :
            /\ tokens'[k].org = tokens[k].org /\ tokens'[k].parent = tokens[k].parent
            /\ tokens'[k].raced = tokens[k].raced /\ tokens'[k].toMember = tokens[k].toMember
            /\ tokens[k].state # "live" => tokens'[k].state = tokens[k].state
  BY StatesOnly, TokenRows
<1>2. \A k \in DOMAIN tokens :
         /\ tokens[k].org # o => tokens'[k] = tokens[k]
         /\ tokens'[k].state # tokens[k].state => tokens'[k].state = "revoked"
         /\ tokens'[k].state = "live" => tokens'[k] = tokens[k]
         /\ tokens' # tokens /\ tokens[k].org = o => tokens'[k].state # "live"
  <2>1. ASSUME tokens' = RevokeAllForUser(o), NEW k \in DOMAIN tokens
        PROVE  \/ tokens'[k] = tokens[k] /\ (tokens[k].org = o => tokens[k].state # "live")
               \/ /\ tokens[k].org = o
                  /\ tokens'[k] = [tokens[k] EXCEPT !.state = "revoked"]
    BY <2>1 DEF RevokeAllForUser
  <2> QED
    BY <2>1, TokenRows DEF Rows
<1>3. \A r \in Requests : \/ req'[r] = Idle
                          \/ /\ req'[r].at = req[r].at /\ req'[r].org = req[r].org
                             /\ req'[r].ticket = req[r].ticket /\ req'[r].old = req[r].old
                             /\ req[r].late => req'[r].late
                             /\ req[r].at \in {"find", "consume", "issue"} /\ req[r].org = o
                                => req'[r].late
  BY AccessLost
<1>4. /\ \A k \in DOMAIN tokens : /\ tokens[k].parent \in 0 .. k - 1
                                  /\ tokens[k].parent # 0 => tokens[k].parent \in DOMAIN tokens
      /\ \A k \in DOMAIN tokens : tokens[k].parent # 0
                                  => tokens[tokens[k].parent].org = tokens[k].org
  BY TokenRows DEF Lineage
<1>5. TypeOK'
  BY <1>1, <1>3, IdleIsRecord DEF TypeOK, Records, Rows
<1>6. Lineage'
  BY <1>1, <1>4 DEF Lineage
<1>7. RequestInv'
  <2> SUFFICES ASSUME NEW r \in Requests PROVE Warranted(req[r])'
    BY DEF RequestInv
  <2>1. Warranted(req[r])
    BY DEF RequestInv
  <2>2. CASE req'[r] = Idle
    BY <2>2, IdleIsRecord DEF Warranted
  <2>3. CASE req'[r] # Idle
    <3>1. /\ req'[r].at = req[r].at /\ req'[r].org = req[r].org
          /\ req'[r].ticket = req[r].ticket /\ req'[r].old = req[r].old
          /\ req[r].late => req'[r].late
          /\ req[r].at \in {"find", "consume", "issue"} /\ req[r].org = o => req'[r].late
      BY <1>3, <2>3
    <3>2. req[r].at # "idle" /\ req[r].at # "sendLink" => req[r].org \in Orgs
      BY DEF TypeOK
    <3>3. /\ req[r].at \in {"consume", "issue"} /\ ~req'[r].late => member'[req[r].org] = "active"
          /\ req[r].at \in {"find", "issue"} /\ req[r].old # 0 /\ ~req'[r].late
             => tokens'[req[r].old].state # "revoked"
      BY <1>2, <2>1, <3>1, <3>2 DEF Warranted
    <3> QED
      BY <1>1, <2>1, <3>1, <3>3 DEF Warranted
  <2> QED
    BY <2>2, <2>3
<1>8. TicketInv'
  <2>1. \A r \in Requests : /\ Brings(req[r])'
                            /\ Granting(req[r])' => Granting(req[r])
                            /\ Sending(req[r])' => Sending(req[r])
                            /\ req'[r].ticket \in {NoTicket, req[r].ticket}
                            /\ Granting(req[r])' \/ Sending(req[r])'
                               => req'[r].ticket = req[r].ticket
    BY <1>3, IdleIsRecord DEF Brings, Granting, Sending, TicketInv
  <2> QED
    BY <2>1, NoTicketOutside DEF TicketInv
<1>9. RotationKeepsASession'
  BY <1>1, <1>2 DEF RotationKeepsASession
<1>10. WithdrawalHolds'
  <2> SUFFICES ASSUME NEW k \in DOMAIN tokens,
                      tokens'[k].state = "live", tokens'[k].parent # 0, ~tokens'[k].raced
               PROVE  tokens'[tokens'[k].parent].state # "revoked"
    BY <1>1 DEF WithdrawalHolds
  <2>1. tokens'[k] = tokens[k] /\ tokens[k].parent \in DOMAIN tokens
    BY <1>2, <1>4
  <2>2. tokens[tokens[k].parent].state # "revoked"
    BY <2>1 DEF WithdrawalHolds
  <2> QED
    BY <1>2, <1>4, <2>1, <2>2
<1> QED
  BY <1>5, <1>6, <1>7, <1>8, <1>9, <1>10

\* Sign-out, removal, and the second half of a password reset.
LEMMA LossSteps ==
    ASSUME IInv, \/ \E o \in Orgs : Logout(o) \/ RemoveMember(o)
                 \/ \E r \in Requests : RevokeAll(r)
    PROVE  IInv'
<1>1. ASSUME NEW o \in Orgs, Logout(o) \/ RemoveMember(o)
      PROVE  IInv'
  <2>1. req' = Withdrawn(o) /\ req' \in [Requests -> Records]
    BY <1>1, AccessLost DEF Logout, RemoveMember, IInv
  <2>2. /\ member' \in [Orgs -> {"none", "active", "removed"}]
        /\ \A p \in Orgs \ {o} : member'[p] = member[p]
    BY <1>1 DEF Logout, RemoveMember, IInv, TypeOK
  <2> QED
    BY <1>1, <2>1, <2>2, AccessGoes DEF Logout, RemoveMember
<1>2. ASSUME NEW r \in Requests, RevokeAll(r)
      PROVE  IInv'
  <2> DEFINE o == req[r].org
  <2>1. o \in Orgs /\ tokens' = RevokeAllForUser(o) /\ UNCHANGED <<tenants, member, ticket, grants>>
    BY <1>2 DEF RevokeAll, IInv, TypeOK
  <2>2. /\ Withdrawn(o) \in [Requests -> Records]
        /\ req' = [Withdrawn(o) EXCEPT ![r] = Idle]
    BY <1>2, <2>1, AccessLost DEF RevokeAll, IInv
  <2>3. /\ req' \in [Requests -> Records]
        /\ \A q \in Requests : req'[q] = Idle \/ req'[q] = Withdrawn(o)[q]
    BY <2>2, IdleIsRecord
  <2> HIDE DEF o
  <2> QED
    BY <2>1, <2>3, AccessGoes DEF IInv, TypeOK
<1> QED
  BY <1>1, <1>2

-----------------------------------------------------------------------------
(* Users and sessions are made.                                            *)

\* A user row is made, or there is one already.
LEMMA UserStep ==
    ASSUME IInv, NEW r \in Requests, CreateUser(r)
    PROVE  IInv'
<1> USE DEF IInv
<1> DEFINE o == req[r].org
           t == req[r].ticket
<1>1. /\ UNCHANGED <<tenants, ticket, tokens>> /\ req[r].at = "create" /\ o \in Orgs
      /\ t \in Tickets \cup {NoTicket} /\ t \notin Links
  BY DEF CreateUser, TypeOK, TicketInv, Brings
<1>2. CASE member[o] # "none"
  BY <1>1, <1>2, EndsWell DEF CreateUser, TypeOK
<1>3. CASE member[o] = "none"
  <2>1. /\ member' = [member EXCEPT ![o] = "active"] /\ Goto(r, "issue")
        /\ grants' = IF t \in Invites THEN [grants EXCEPT ![t] = @ + 1] ELSE grants
    BY <1>3 DEF CreateUser
  <2>2. /\ req' \in [Requests -> Records] /\ req'[r].at = "issue"
        /\ req'[r].org = o /\ req'[r].ticket = t
        /\ req'[r].old = req[r].old /\ req'[r].late = req[r].late
        /\ \A q \in Requests \ {r} : req'[q] = req[q]
    BY <2>1, GoesOn DEF Steps
  <2>3. /\ member' \in [Orgs -> {"none", "active", "removed"}] /\ member'[o] = "active"
        /\ \A p \in Orgs : member[p] = "active" => member'[p] = "active"
    BY <1>1, <2>1 DEF TypeOK
  <2>4. /\ grants' \in [Tickets -> Nat]
        /\ \A u \in Tickets : u # t => grants'[u] = grants[u]
    BY <2>1 DEF TypeOK, Tickets
  <2>5. t \in Tickets => Granting(req[r]) /\ ticket[t] = "used"
    BY <1>1 DEF Granting, TicketInv, Tickets
  <2> HIDE DEF o, t
  <2>6. TypeOK'
    BY <1>1, <2>2, <2>3, <2>4 DEF TypeOK, Records, o, t
  <2>7. Lineage' /\ RotationKeepsASession' /\ WithdrawalHolds'
    BY <1>1 DEF Lineage, RotationKeepsASession, WithdrawalHolds
  <2>8. RequestInv'
    <3> SUFFICES ASSUME NEW q \in Requests PROVE Warranted(req[q])'
      BY DEF RequestInv
    <3>1. q # r => req'[q] = req[q] /\ Warranted(req[q])
      BY <2>2 DEF RequestInv
    <3>2. q # r /\ req[q].at \in {"consume", "issue"} => req[q].org \in Orgs
      BY DEF TypeOK
    <3>3. Warranted(req[r])
      BY DEF RequestInv
    <3>4. CASE q = r
      BY <1>1, <2>2, <2>3, <3>3, <3>4 DEF Warranted
    <3>5. CASE q # r
      BY <1>1, <2>3, <3>1, <3>2, <3>5 DEF Warranted
    <3> QED
      BY <3>4, <3>5
  <2>9. TicketInv'
    <3>1. \A u \in Tickets : ticket'[u] # "used" => grants'[u] = 0
      BY <1>1, <2>4, <2>5 DEF TicketInv
    <3>2. Brings(req[r])' /\ ~Granting(req[r])' /\ ~Sending(req[r])'
      BY <1>1, <2>2, <2>5 DEF Brings, Granting, Sending
    <3>3. \A q \in Requests \ {r} : Granting(req[q]) => req[q].ticket # t /\ req[q].ticket \in Tickets
      BY <2>5 DEF TicketInv, Granting, Tickets, t
    <3>4. \A q \in Requests \ {r} : /\ Brings(req[q])' <=> Brings(req[q])
                                    /\ Granting(req[q])' <=> Granting(req[q])
                                    /\ Sending(req[q])' <=> Sending(req[q])
      BY <1>1, <2>2 DEF Brings, Granting, Sending
    <3> QED
      BY <1>1, <2>2, <2>4, <3>1, <3>2, <3>3, <3>4 DEF TicketInv, t
  <2> QED
    BY <2>6, <2>7, <2>8, <2>9
<1> QED
  BY <1>2, <1>3

\* The rows of refresh_tokens after one more.
LEMMA OneMoreRow ==
    ASSUME TypeOK, NEW row \in Rows, NEW f, f = Append(tokens, row)
    PROVE  /\ f \in Seq(Rows) /\ Len(f) = Len(tokens) + 1
           /\ DOMAIN f = DOMAIN tokens \cup {Len(tokens) + 1}
           /\ f[Len(tokens) + 1] = row
           /\ \A k \in DOMAIN tokens : f[k] = tokens[k]
  BY TokenRows, AppendProperties

\* The session of a request is stored; a refresh has its old token to revoke.
LEMMA SessionStep ==
    ASSUME IInv, NEW r \in Requests, IssueSession(r)
    PROVE  IInv'
<1> USE DEF IInv
<1> DEFINE o == req[r].org
           t == req[r].ticket
           n == Len(tokens) + 1
           row == [org |-> o, state |-> "live", parent |-> req[r].old, raced |-> req[r].late,
                   toMember |-> req[r].late \/ member[o] = "active"]
<1>1. /\ UNCHANGED <<tenants, member, ticket>> /\ req[r].at = "issue"
      /\ tokens' = Append(tokens, row)
      /\ grants' = IF t \in Links THEN [grants EXCEPT ![t] = @ + 1] ELSE grants
      /\ IF req[r].old # 0 THEN Goto(r, "revokeOld") ELSE End(r)
  BY DEF IssueSession
<1>2. /\ o \in Orgs /\ t \in Tickets \cup {NoTicket} /\ req[r].old \in Nat
      /\ req[r].old \in 0 .. Len(tokens) /\ req[r].late \in BOOLEAN
  BY <1>1 DEF TypeOK
<1>3. row \in Rows /\ row.org = o /\ row.state = "live" /\ row.parent = req[r].old
      /\ row.raced = req[r].late /\ row.toMember = (req[r].late \/ member[o] = "active")
  BY <1>2 DEF Rows
<1> HIDE DEF row
<1>4. /\ tokens' \in Seq(Rows) /\ Len(tokens') = n /\ DOMAIN tokens' = DOMAIN tokens \cup {n}
      /\ tokens'[n] = row
      /\ \A k \in DOMAIN tokens : tokens'[k] = tokens[k]
  BY <1>1, <1>3, OneMoreRow
<1>5. /\ DOMAIN tokens = 1 .. Len(tokens) /\ Len(tokens) \in Nat
      /\ n \in Nat /\ n \notin DOMAIN tokens /\ n # 0
  BY TokenRows
<1>6. /\ req' \in [Requests -> Records]
      /\ \A q \in Requests \ {r} : req'[q] = req[q]
      /\ \/ req'[r] = Idle
         \/ /\ req[r].old # 0 /\ req'[r].at = "revokeOld" /\ req'[r].org = o
            /\ req'[r].ticket = t /\ req'[r].old = req[r].old
  <2>1. CASE req[r].old # 0
    BY <1>1, <2>1, GoesOn DEF Steps
  <2>2. CASE req[r].old = 0
    BY <1>1, <2>2, OneRequest, IdleIsRecord DEF End
  <2> QED
    BY <2>1, <2>2
<1>7. Warranted(req[r])
  BY DEF RequestInv
<1>8. grants' \in [Tickets -> Nat] /\ \A u \in Tickets : u # t => grants'[u] = grants[u]
  BY <1>1 DEF TypeOK, Tickets
<1>9. t \notin Links => grants' = grants
  BY <1>1
<1> HIDE DEF o, t, n
<1>10. TypeOK'
  <2>1. \A q \in Requests : Proper(req[q])'
    <3>1. \A q \in Requests \ {r} : Proper(req[q])
      BY DEF Proper, TypeOK
    <3>2. 0 .. Len(tokens) \subseteq 0 .. Len(tokens')
      BY <1>4, <1>5 DEF n
    <3>3. Proper(req[r])'
      BY <1>2, <1>5, <1>6, <3>2, IdleIsRecord DEF Proper, o
    <3> QED
      BY <1>6, <3>1, <3>2, <3>3 DEF Proper
  <2> QED
    BY <1>1, <1>4, <1>6, <1>8, <2>1 DEF TypeOK, Records, Rows, Proper
<1>11. Lineage'
  <2>1. row.parent \in 0 .. n - 1
        /\ (row.parent # 0 => row.parent \in DOMAIN tokens /\ tokens[row.parent].org = row.org)
    BY <1>1, <1>2, <1>3, <1>5, <1>7 DEF Warranted, n, o
  <2>2. \A k \in DOMAIN tokens : tokens[k].parent # 0 => tokens[k].parent \in DOMAIN tokens
    BY <1>5 DEF Lineage
  <2> QED
    BY <1>4, <1>5, <2>1, <2>2 DEF Lineage
<1>12. RequestInv'
  <2> SUFFICES ASSUME NEW q \in Requests PROVE Warranted(req[q])'
    BY DEF RequestInv
  <2>1. CASE q # r
    <3>1. Warranted(req[q]) /\ req'[q] = req[q]
      BY <1>6, <2>1 DEF RequestInv
    <3> QED
      BY <1>1, <1>4, <3>1 DEF Warranted
  <2>2. CASE q = r
    BY <1>1, <1>3, <1>4, <1>6, <1>7, <2>2, IdleIsRecord DEF Warranted, o
  <2> QED
    BY <2>1, <2>2
<1>13. TicketInv'
  <2>1. t \in Links => Granting(req[r]) /\ ticket[t] = "used"
    BY <1>1 DEF Granting, TicketInv, t
  <2>2. \A u \in Tickets : ticket'[u] # "used" => grants'[u] = 0
    BY <1>1, <1>8, <1>9, <2>1 DEF TicketInv
  <2>3. Brings(req[r])' /\ ~Granting(req[r])' /\ ~Sending(req[r])'
        /\ req'[r].ticket \in {NoTicket, t}
    BY <1>6, IdleIsRecord DEF Brings, Granting, Sending
  <2>4. \A q \in Requests \ {r} : Granting(req[q]) =>
           /\ req[q].ticket \in Tickets
           /\ t \in Links => req[q].ticket # t
    BY <2>1 DEF TicketInv, Granting, Tickets, t
  <2>5. \A q \in Requests \ {r} : /\ Brings(req[q])' <=> Brings(req[q])
                                  /\ Granting(req[q])' <=> Granting(req[q])
                                  /\ Sending(req[q])' <=> Sending(req[q])
    BY <1>1, <1>6 DEF Brings, Granting, Sending
  <2>6. \A q \in Requests : Granting(req[q])' =>
           /\ q # r /\ Granting(req[q]) /\ req'[q] = req[q]
           /\ ticket'[req[q].ticket] = "used" /\ grants'[req[q].ticket] = 0
    BY <1>1, <1>6, <1>8, <1>9, <2>3, <2>4, <2>5 DEF TicketInv
  <2>7. \A q \in Requests : Sending(req[q])' => q # r /\ Sending(req[q]) /\ req'[q] = req[q]
    BY <1>6, <2>3, <2>5
  <2>8. \A q \in Requests : Sending(req[q])' =>
           /\ req'[q].ticket \in Tickets /\ ticket'[req'[q].ticket] = "unsent"
           /\ \A p \in Requests \ {q} : req'[p].ticket # req'[q].ticket
    BY <1>1, <1>6, <2>3, <2>7, NoTicketOutside DEF TicketInv, t
  <2>9. \A q \in Requests : Brings(req[q])'
    BY <2>3, <2>5 DEF TicketInv
  <2> QED
    BY <1>1, <2>2, <2>6, <2>8, <2>9 DEF TicketInv
<1>14. RotationKeepsASession'
  BY <1>3, <1>4 DEF RotationKeepsASession
<1>15. WithdrawalHolds'
  <2>1. \/ row.raced
        \/ /\ row.toMember
           /\ row.parent # 0 => /\ row.parent \in DOMAIN tokens
                                /\ tokens[row.parent].state # "revoked"
    BY <1>1, <1>3, <1>7 DEF Warranted, o
  <2>2. \A k \in DOMAIN tokens : tokens[k].parent # 0 => tokens[k].parent \in DOMAIN tokens
    BY <1>5 DEF Lineage
  <2> QED
    BY <1>4, <2>1, <2>2 DEF WithdrawalHolds
<1> QED
  BY <1>10, <1>11, <1>12, <1>13, <1>14, <1>15

\* The token that was refreshed is revoked.
LEMMA RevokeStep ==
    ASSUME IInv, NEW r \in Requests, RevokeOld(r)
    PROVE  IInv'
<1> USE DEF IInv
<1> DEFINE old == req[r].old
<1>1. /\ UNCHANGED <<tenants, member, ticket, grants>> /\ req[r].at = "revokeOld" /\ End(r)
      /\ tokens' = [tokens EXCEPT ![old].state = IF @ = "live" THEN "rotated" ELSE @]
  BY DEF RevokeOld
<1>2. old \in DOMAIN tokens /\ \E n \in DOMAIN tokens : tokens[n].parent = old
  BY <1>1 DEF RequestInv, Warranted
<1> HIDE DEF old
<1>3. /\ tokens' \in Seq(Rows) /\ Len(tokens') = Len(tokens) /\ DOMAIN tokens' = DOMAIN tokens
      /\ \A k \in DOMAIN tokens :
            /\ tokens'[k].org = tokens[k].org /\ tokens'[k].parent = tokens[k].parent
            /\ tokens'[k].raced = tokens[k].raced /\ tokens'[k].toMember = tokens[k].toMember
            /\ tokens[k].state # "live" => tokens'[k].state = tokens[k].state
  <2>1. \E k \in DOMAIN tokens :
           tokens' = [tokens EXCEPT ![k].state = IF @ = "live" THEN "rotated" ELSE @]
    BY <1>1, <1>2
  <2> QED
    BY <2>1, StatesOnly
<1>4. /\ \A k \in DOMAIN tokens \ {old} : tokens'[k] = tokens[k]
      /\ tokens'[old].state \in {tokens[old].state, "rotated"}
      /\ tokens'[old].state = "live" => tokens[old].state = "live"
  <2>1. tokens[old] \in Rows
    BY <1>2, TokenRows
  <2>2. tokens'[old] = [tokens[old] EXCEPT !.state = IF tokens[old].state = "live" THEN "rotated"
                                                     ELSE tokens[old].state]
    BY <1>1, <1>2
  <2> QED
    BY <1>1, <2>1, <2>2 DEF Rows
<1>5. /\ req' \in [Requests -> Records] /\ req'[r] = Idle
      /\ \A q \in Requests \ {r} : req'[q] = req[q]
  BY <1>1, IdleIsRecord, OneRequest DEF End
<1>6. \A k \in DOMAIN tokens : tokens[k].parent # 0 => tokens[k].parent \in DOMAIN tokens
  BY TokenRows DEF Lineage
<1>7. TypeOK'
  BY <1>1, <1>3, <1>5, IdleIsRecord, TokenRows DEF TypeOK, Records, Rows
<1>8. Lineage'
  BY <1>3, <1>6 DEF Lineage
<1>9. RequestInv'
  <2> SUFFICES ASSUME NEW q \in Requests PROVE Warranted(req[q])'
    BY DEF RequestInv
  <2>1. CASE q # r
    <3>1. Warranted(req[q]) /\ req'[q] = req[q]
      BY <1>5, <2>1 DEF RequestInv
    <3>2. req[q].old \in DOMAIN tokens /\ tokens'[req[q].old].state = "revoked"
          => tokens[req[q].old].state = "revoked"
      BY <1>2, <1>4
    <3> QED
      BY <1>1, <1>3, <3>1, <3>2 DEF Warranted
  <2>2. CASE q = r
    BY <1>5, <2>2, IdleIsRecord DEF Warranted
  <2> QED
    BY <2>1, <2>2
<1>10. TicketInv'
  <2>1. Brings(req[r])' /\ ~Granting(req[r])' /\ ~Sending(req[r])' /\ req'[r].ticket = NoTicket
    BY <1>5, IdleIsRecord DEF Brings, Granting, Sending
  <2>2. \A q \in Requests \ {r} : /\ Brings(req[q])' <=> Brings(req[q])
                                  /\ Granting(req[q])' <=> Granting(req[q])
                                  /\ Sending(req[q])' <=> Sending(req[q])
    BY <1>1, <1>5 DEF Brings, Granting, Sending
  <2> QED
    BY <1>1, <1>5, <2>1, <2>2, NoTicketOutside DEF TicketInv
<1>11. RotationKeepsASession'
  BY <1>2, <1>3, <1>4 DEF RotationKeepsASession
<1>12. WithdrawalHolds'
  <2> SUFFICES ASSUME NEW k \in DOMAIN tokens,
                      tokens'[k].state = "live", tokens'[k].parent # 0, ~tokens'[k].raced
               PROVE  tokens'[tokens'[k].parent].state # "revoked"
    BY <1>3 DEF WithdrawalHolds
  <2>1. tokens[k].state = "live" /\ tokens[k].parent \in DOMAIN tokens
    BY <1>3, <1>4, <1>6
  <2>2. tokens[tokens[k].parent].state # "revoked"
    BY <1>3, <2>1 DEF WithdrawalHolds
  <2> QED
    BY <1>3, <1>4, <2>1, <2>2
<1> QED
  BY <1>7, <1>8, <1>9, <1>10, <1>11, <1>12

-----------------------------------------------------------------------------
(* The invariant, and what it shows.                                       *)

LEMMA InitInv == Init => IInv
<1> SUFFICES ASSUME Init PROVE IInv
  OBVIOUS
<1>1. TypeOK
  <2>1. tokens = <<>> /\ Len(tokens) = 0 /\ tokens \in Seq(Rows)
    BY EmptySeq DEF Init
  <2>2. tokens \in Seq([org : Orgs, state : {"live", "rotated", "revoked"},
                        parent : Nat, raced : BOOLEAN, toMember : BOOLEAN])
    BY <2>1 DEF Rows
  <2>3. req \in [Requests -> Records] /\ \A r \in Requests : req[r] = Idle
    BY IdleIsRecord DEF Init
  <2> QED
    BY <2>1, <2>2, <2>3, IdleIsRecord DEF Init, TypeOK, Records
<1>2. \A r \in Requests : req[r] = Idle
  BY DEF Init
<1>3. DOMAIN tokens = {}
  BY DEF Init
<1>4. RequestInv
  BY <1>2, IdleIsRecord DEF RequestInv, Warranted
<1>5. TicketInv
  <2>1. Brings(Idle) /\ ~Granting(Idle) /\ ~Sending(Idle)
    BY IdleIsRecord DEF Brings, Granting, Sending
  <2> QED
    BY <1>2, <2>1 DEF TicketInv, Init
<1> QED
  BY <1>1, <1>3, <1>4, <1>5 DEF IInv, Lineage, RotationKeepsASession, WithdrawalHolds

\* A step of some request.
LEMMA RequestStep ==
    ASSUME IInv, NEW r \in Requests, Begin(r) \/ Continue(r)
    PROVE  IInv'
<1>1. CASE Begin(r)
  BY <1>1, Begins, TakeSteps
<1>2. CASE Continue(r)
  <2>1. CASE FindUser(r) \/ CreateTenant(r)
    BY <2>1, ReadSteps
  <2>2. CASE IssueSession(r)
    BY <2>2, SessionStep
  <2>3. CASE RevokeOld(r)
    BY <2>3, RevokeStep
  <2>4. CASE CreateMagicLink(r) \/ CreateInvite(r)
    BY <2>4, SendSteps
  <2>5. CASE ConsumeMagicLink(r)
    BY <2>5, TakeSteps
  <2>6. CASE CreateUser(r)
    BY <2>6, UserStep
  <2>7. CASE RevokeAll(r)
    BY <2>7, LossSteps
  <2>8. CASE Drop(r)
    BY <2>8, EndsWell DEF Drop, IInv, TypeOK
  <2> QED
    BY <1>2, <2>1, <2>2, <2>3, <2>4, <2>5, <2>6, <2>7, <2>8 DEF Continue
<1> QED
  BY <1>1, <1>2

LEMMA NextInv == IInv /\ [Next]_vars => IInv'
<1> SUFFICES ASSUME IInv, [Next]_vars PROVE IInv'
  OBVIOUS
<1>1. ASSUME NEW r \in Requests, Begin(r) \/ Continue(r) PROVE IInv'
  BY <1>1, RequestStep
<1>2. ASSUME NEW o \in Orgs, Logout(o) \/ RemoveMember(o) PROVE IInv'
  BY <1>2, LossSteps
<1>3. ASSUME NEW t \in Tickets, TicketExpires(t) PROVE IInv'
  BY <1>3, ExpiryStep
<1>4. CASE UNCHANGED vars
  BY <1>4 DEF vars, IInv, TypeOK, Lineage, RequestInv, Warranted, TicketInv, Brings,
              RotationKeepsASession, WithdrawalHolds
<1> QED
  BY <1>1, <1>2, <1>3, <1>4 DEF Next

LEMMA InvHolds == Spec => []IInv
  BY InitInv, NextInv, PTL DEF Spec

\* The tables and the requests under way keep their types: whatever a request
\* writes a user or a session for, it knows the organisation.
THEOREM SessionsAreTyped == Spec => []TypeOK
<1>1. IInv => TypeOK
  BY DEF IInv
<1> QED
  BY <1>1, InvHolds, PTL

\* However many requests bring one refresh token at once, and wherever each of
\* them fails, a token that a refresh revoked has a successor.
THEOREM RefreshLeavesASession == Spec => []RotationKeepsASession
<1>1. IInv => RotationKeepsASession
  BY DEF IInv
<1> QED
  BY <1>1, InvHolds, PTL

\* A session that outlives a sign-out, a reset or a removal, or is given to
\* someone who is no member, was being asked for when access was lost.
THEOREM WithdrawalIsOnlyOutrun == Spec => []WithdrawalHolds
<1>1. IInv => WithdrawalHolds
  BY DEF IInv
<1> QED
  BY <1>1, InvHolds, PTL

-----------------------------------------------------------------------------
(* Links and invitations implement SingleUseTicket.                        *)

\* The step of the ticket that a step of a request is.
LEMMA RequestTicketStep ==
    ASSUME IInv, NEW r \in Requests, Begin(r) \/ Continue(r)
    PROVE  Mail!TicketNext \/ UNCHANGED <<ticket, grants>>
<1> DEFINE t == req[r].ticket
<1>0. ticket \in [Tickets -> {"unsent", "open", "used", "gone"}] /\ grants \in [Tickets -> Nat]
  BY DEF IInv, TypeOK
<1>1. CASE Begin(r) /\ ~AcceptInvite(r)
  BY <1>1 DEF Begin, Login, SwitchOrg, Refresh, MagicLinkRequest, MagicLinkVerify,
              InviteMember, Register, ResetMemberPassword
<1>2. CASE AcceptInvite(r)
  <2>1. PICK i \in Invites : /\ ticket[i] = "open" /\ ticket' = [ticket EXCEPT ![i] = "used"]
                             /\ UNCHANGED grants
    BY <1>2 DEF AcceptInvite
  <2> QED
    BY <2>1 DEF Mail!TicketNext, Mail!Take, Tickets
<1>3. CASE ConsumeMagicLink(r)
  <2>1. t \in Links
    BY <1>3 DEF ConsumeMagicLink, IInv, TicketInv, Brings
  <2> QED
    BY <1>3, <2>1 DEF ConsumeMagicLink, Mail!TicketNext, Mail!Take, Tickets
<1>4. CASE CreateMagicLink(r) \/ CreateInvite(r)
  <2>1. t \in Tickets /\ ticket[t] = "unsent"
    BY <1>4 DEF CreateMagicLink, CreateInvite, Sending, IInv, TicketInv
  <2>2. PICK old \in SUBSET {o \in Tickets : ticket[o] = "open"} :
           ticket' = [o \in Tickets |-> IF o = t THEN "open"
                                        ELSE IF o \in old THEN "gone" ELSE ticket[o]]
    <3>1. CASE CreateMagicLink(r)
      <4> DEFINE none == {}
      <4>1. ticket' = [o \in Tickets |-> IF o = t THEN "open"
                                         ELSE IF o \in none THEN "gone" ELSE ticket[o]]
        BY <1>0, <2>1, <3>1 DEF CreateMagicLink
      <4>2. none \in SUBSET {o \in Tickets : ticket[o] = "open"}
        OBVIOUS
      <4> HIDE DEF none
      <4> QED
        BY <4>1, <4>2
    <3>2. CASE CreateInvite(r)
      <4> DEFINE old == {o \in Invites : InviteOrg[o] = req[r].org /\ ticket[o] = "open"}
      <4>1. old \in SUBSET {o \in Tickets : ticket[o] = "open"}
        BY DEF Tickets
      <4>2. ticket' = [o \in Tickets |-> IF o = t THEN "open"
                                         ELSE IF o \in old THEN "gone" ELSE ticket[o]]
        BY <3>2 DEF CreateInvite
      <4> QED
        BY <4>1, <4>2
    <3> QED
      BY <1>4, <3>1, <3>2
  <2>3. UNCHANGED grants
    BY <1>4 DEF CreateMagicLink, CreateInvite
  <2>4. Mail!Send(t)
    BY <2>1, <2>2, <2>3 DEF Mail!Send
  <2> QED
    BY <2>1, <2>4 DEF Mail!TicketNext
<1>5. CASE IssueSession(r) \/ CreateUser(r)
  <2>1. UNCHANGED ticket
    BY <1>5 DEF IssueSession, CreateUser
  <2>2. grants' = grants \/ (Granting(req[r]) /\ grants' = [grants EXCEPT ![t] = @ + 1])
    BY <1>5 DEF IssueSession, CreateUser, Granting
  <2>3. ASSUME Granting(req[r]), grants' = [grants EXCEPT ![t] = @ + 1]
        PROVE  Mail!TicketNext
    <3>1. t \in Tickets /\ ticket[t] = "used" /\ grants[t] = 0
      BY <2>3 DEF IInv, TicketInv, Granting, Tickets
    <3>2. grants' = [grants EXCEPT ![t] = 1]
      BY <1>0, <2>3, <3>1
    <3> QED
      BY <2>1, <3>1, <3>2 DEF Mail!TicketNext, Mail!Grant
  <2> QED
    BY <2>1, <2>2, <2>3
<1>6. CASE FindUser(r) \/ RevokeOld(r) \/ CreateTenant(r) \/ RevokeAll(r) \/ Drop(r)
  BY <1>6 DEF FindUser, RevokeOld, CreateTenant, RevokeAll, Drop
<1> QED
  BY <1>1, <1>2, <1>3, <1>4, <1>5, <1>6 DEF Continue

\* Magic links sign in at most once and invitations make at most one user:
\* every behaviour of the tables of tickets is one of SingleUseTicket.
THEOREM TicketsAreSingleUse == Spec => ImplementsTickets
<1>1. Init => Mail!TicketInit
  BY DEF Init, Mail!TicketInit
<1>2. IInv /\ [Next]_vars => [Mail!TicketNext]_<<ticket, grants>>
  <2> SUFFICES ASSUME IInv, [Next]_vars
               PROVE  Mail!TicketNext \/ UNCHANGED <<ticket, grants>>
    OBVIOUS
  <2>1. ASSUME NEW r \in Requests, Begin(r) \/ Continue(r)
        PROVE  Mail!TicketNext \/ UNCHANGED <<ticket, grants>>
    BY <2>1, RequestTicketStep
  <2>2. ASSUME NEW o \in Orgs, Logout(o) \/ RemoveMember(o)
        PROVE  UNCHANGED <<ticket, grants>>
    BY <2>2 DEF Logout, RemoveMember
  <2>3. ASSUME NEW t \in Tickets, TicketExpires(t)
        PROVE  Mail!TicketNext
    BY <2>3 DEF TicketExpires, Mail!TicketNext, Mail!Withdraw
  <2> QED
    BY <2>1, <2>2, <2>3 DEF Next, vars
<1> QED
  BY <1>1, <1>2, InvHolds, PTL DEF Spec, ImplementsTickets, Mail!TicketSpec, Mail!tVars

=============================================================================
