--------------------------- MODULE MCWalReplication ---------------------------
(* Fault budgets for the TLC runs of WalReplication. *)
EXTENDS WalReplication

\* One crash of the primary, one failed file operation, one lost exchange.
SafetyFaults == [pass |-> 1, net |-> 1, disk |-> 0, crash |-> 1]

\* One crash, one lost exchange, one failed step of a replica's handler.
SerialFaults == [pass |-> 0, net |-> 1, disk |-> 1, crash |-> 1]
=============================================================================
