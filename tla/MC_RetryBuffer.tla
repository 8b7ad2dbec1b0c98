--------------------------- MODULE MC_RetryBuffer ---------------------------
(* Small instances of RetryBuffer for TLC.                                 *)
EXTENDS RetryBuffer

CONSTANTS b1, b2, b3, b4

\* One broker sends b2, another b1, b3 and b4, in that order.
MCEarlier == [b \in Batches |-> CASE b = b3 -> {b1} [] b = b4 -> {b1, b3} [] OTHER -> {}]

=============================================================================
