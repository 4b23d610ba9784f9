-------------------------- MODULE MCInstanceManager --------------------------
(* Instances for model checking InstanceManager. *)
EXTENDS InstanceManager, TLC

OneOfEach == [f \in Faults |-> 1]

\* Docker that fails, a directory that cannot be removed and a client that leaves
\* are left to InstancesLive, and to the proofs.
SafetyFaults == [OneOfEach EXCEPT !["docker"] = 0, !["rm"] = 0, !["leave"] = 0]

Interchangeable == Permutations(Instances \ Extended)

==============================================================================
