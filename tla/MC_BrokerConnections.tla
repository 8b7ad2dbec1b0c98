------------------------ MODULE MC_BrokerConnections ------------------------
(* Small instances of BrokerConnections for TLC.                           *)
EXTENDS BrokerConnections

CONSTANTS q1, q2, t1, t2

=============================================================================
