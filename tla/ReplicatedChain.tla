---------------------------- MODULE ReplicatedChain ----------------------------
(***************************************************************************)
(* What WAL replication promises, without requests, tables or passes: the  *)
(* primary's log only grows at its end, and each replica copies an         *)
(* unbroken run of it, starting anywhere and extending one entry at a time.*)
(* The entries of a log are distinct.                                      *)
(***************************************************************************)
EXTENDS Naturals, Sequences

CONSTANTS Replicas

VARIABLES
    log,     \* the entries of the primary, in chain order
    copies   \* for each replica, the set of entries it holds

chainVars == <<log, copies>>

Init ==
    /\ log = << >>
    /\ copies = [r \in Replicas |-> {}]

\* The primary records one more segment.
Extend ==
    /\ Len(log') = Len(log) + 1
    /\ \A i \in DOMAIN log : log'[i] = log[i]
    /\ UNCHANGED copies

\* A replica takes its first entry, or the one after an entry it holds.
Copy(r) ==
    \E i \in DOMAIN log :
        /\ log[i] \notin copies[r]
        /\ copies[r] # {} => i > 1 /\ log[i - 1] \in copies[r]
        /\ copies' = [copies EXCEPT ![r] = @ \cup {log[i]}]
        /\ UNCHANGED log

Next == Extend \/ \E r \in Replicas : Copy(r)

Spec == Init /\ [][Next]_chainVars
=============================================================================
