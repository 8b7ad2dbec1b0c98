---------------------------- MODULE MC_Sessions ----------------------------
(* Small instances of Sessions for TLC.                                    *)
EXTENDS Sessions, TLC

CONSTANTS acme, globex, m1, i1, i2, r1, r2

\* Both invitations are to the same organisation: the second supersedes the
\* first.
MCInviteOrg == [i \in Invites |-> acme]

\* Requests are interchangeable, and so are the invitations.
MCSymmetry == Permutations(Requests) \cup Permutations(Invites)

=============================================================================
