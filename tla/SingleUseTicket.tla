-------------------------- MODULE SingleUseTicket --------------------------
(***************************************************************************)
(* What a mailed link promises: it is sent, and is then either taken by    *)
(* one request or withdrawn; the request that took it may grant what the   *)
(* link is for, once, or end without doing so.  Nothing is granted on a    *)
(* link that was not taken, and a link taken or withdrawn stays so.        *)
(***************************************************************************)
EXTENDS Naturals

CONSTANT Tickets

VARIABLES
    ticket,   \* unsent, open, used or gone
    grants    \* how often a ticket was made good

tVars == <<ticket, grants>>

TicketInit ==
    /\ ticket = [t \in Tickets |-> "unsent"]
    /\ grants = [t \in Tickets |-> 0]

\* A new ticket may withdraw open ones, as a second invitation does.
Send(t) ==
    /\ ticket[t] = "unsent"
    /\ \E old \in SUBSET {o \in Tickets : ticket[o] = "open"} :
          ticket' = [o \in Tickets |-> IF o = t THEN "open"
                                       ELSE IF o \in old THEN "gone" ELSE ticket[o]]
    /\ UNCHANGED grants

Take(t) ==
    /\ ticket[t] = "open"
    /\ ticket' = [ticket EXCEPT ![t] = "used"]
    /\ UNCHANGED grants

Withdraw(t) ==
    /\ ticket[t] = "open"
    /\ ticket' = [ticket EXCEPT ![t] = "gone"]
    /\ UNCHANGED grants

Grant(t) ==
    /\ ticket[t] = "used"
    /\ grants[t] = 0
    /\ grants' = [grants EXCEPT ![t] = 1]
    /\ UNCHANGED ticket

TicketNext == \E t \in Tickets : Send(t) \/ Take(t) \/ Withdraw(t) \/ Grant(t)

TicketSpec == TicketInit /\ [][TicketNext]_tVars

=============================================================================
