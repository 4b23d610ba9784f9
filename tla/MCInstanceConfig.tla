--------------------------- MODULE MCInstanceConfig ---------------------------
(* Instances for model checking InstanceConfig. *)
EXTENDS InstanceConfig, TLC

OneOfEach == [f \in Faults |-> 1]

===============================================================================
