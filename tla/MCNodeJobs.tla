----------------------------- MODULE MCNodeJobs -----------------------------
(* Constant values for the TLC runs of NodeJobs. *)
EXTENDS NodeJobs, TLC

CONSTANTS w1, w2, a, b

\* A wallet may have two instances.
OwnerOfTwo == (a :> w1) @@ (b :> w1)
OwnerOfOne == a :> w1

Alike == Permutations(Jobs)

NoFaults == [leave |-> 0, docker |-> 0, crash |-> 0]
OneOfEach == [leave |-> 1, docker |-> 1, crash |-> 1]
DockerAndLeave == [NoFaults EXCEPT !.docker = 1, !.leave = 1]
=============================================================================
