---------------------------- MODULE MCIdleSuspend ----------------------------
(* Instances for model checking IdleSuspend. *)
EXTENDS IdleSuspend, TLC

OneOfEach == [f \in Faults |-> 1]

==============================================================================
