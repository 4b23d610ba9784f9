------------------------------- MODULE Registry -------------------------------
(***************************************************************************)
(* The on-chain registry, contracts/programs/supaba-registry/src/lib.rs:   *)
(* nodes with their stake, instances, and the escrow each instance is paid *)
(* from.  An instruction either succeeds as a whole, which is an action    *)
(* here, or changes nothing.                                               *)
(*                                                                         *)
(* The configuration is the constants.  All instances belong to one agent. *)
(* An instance's replicas are represented by how many there are: nothing   *)
(* reads who they are after allocate_instance, which only asks that each   *)
(* one named is Active, and the primary may be named itself.  Token        *)
(* accounts are balances; an Anchor check that only compares addresses is  *)
(* left out.                                                               *)
(***************************************************************************)
EXTENDS Naturals, FiniteSets

CONSTANTS
    Nodes,           \* operators; each has one NodeRecord
    Instances,       \* instance ids the agent may use
    MinStake,        \* config.min_stake
    SlashPercentage, \* config.slash_percentage
    Cooldown,        \* config.deregistration_cooldown, in seconds
    RatePerHour,     \* config.default_rate_per_hour
    MaxReplicas,     \* MAX_REPLICA_NODES
    MaxCapacity,     \* bound: capacity a node declares
    Amounts,         \* bound: amounts an agent deposits
    MaxDeposited,    \* bound: deposits of one escrow
    Tick,            \* bound: seconds between two clock values
    MaxNow           \* bound: the last clock value, in ticks

\* The require!s of initialize_config.
ASSUME ConfigAssumption ==
    /\ MinStake \in Nat /\ RatePerHour \in Nat /\ Cooldown \in Nat
    /\ SlashPercentage \in 0 .. 100
ASSUME BoundsAssumption ==
    /\ Nodes # {}
    /\ MaxReplicas \in Nat /\ MaxCapacity \in Nat /\ MaxDeposited \in Nat
    /\ Tick \in Nat /\ MaxNow \in Nat
    /\ Amounts \subseteq Nat \ {0}

NodeStatus == {"Active", "Suspended", "Deregistering", "Deregistered"}
InstanceStatus == {"Provisioning", "Active", "Migrating", "Suspended", "Destroyed"}

\* "none": the account does not exist yet.
NodeRecord ==
    [status : NodeStatus \cup {"none"}, capacity : Nat, active_instances : Nat,
     stake : Nat, last_heartbeat : Nat]
InstanceRecord ==
    [status : InstanceStatus \cup {"none"}, primary_node : Nodes, replicas : Nat,
     merkle_root : Nat]
PaymentEscrow ==
    [deposited : Nat, distributed : Nat, rate_per_hour : Nat, last_distribution_at : Nat]

VARIABLES
    node,       \* the NodeRecord of each operator
    lamports,   \* what its account holds above the rent
    instance,   \* the InstanceRecord of each instance
    escrow,     \* the PaymentEscrow of each instance; it exists once deposited # 0
    tokens,     \* the balance of the escrow's token account
    refunded,   \* history: what destroy_instance returned to the agent
    migrated_root, \* history: the roots an instance had each time it became Migrating
    now         \* Clock, in ticks

escrowVars == <<escrow, tokens, refunded>>
vars == <<node, lamports, instance, escrowVars, migrated_root, now>>

TypeOK ==
    /\ node \in [Nodes -> NodeRecord]
    /\ lamports \in [Nodes -> Nat]
    /\ instance \in [Instances -> InstanceRecord]
    /\ escrow \in [Instances -> PaymentEscrow]
    /\ tokens \in [Instances -> Nat]
    /\ refunded \in [Instances -> Nat]
    /\ migrated_root \in [Instances -> SUBSET Nat]
    /\ now \in Nat

Init ==
    /\ node = [n \in Nodes |-> [status |-> "none", capacity |-> 0, active_instances |-> 0,
                                stake |-> 0, last_heartbeat |-> 0]]
    /\ lamports = [n \in Nodes |-> 0]
    /\ instance = [i \in Instances |-> [status |-> "none", primary_node |-> CHOOSE n \in Nodes : TRUE,
                                        replicas |-> 0, merkle_root |-> 0]]
    /\ escrow = [i \in Instances |-> [deposited |-> 0, distributed |-> 0,
                                      rate_per_hour |-> 0, last_distribution_at |-> 0]]
    /\ tokens = [i \in Instances |-> 0]
    /\ refunded = [i \in Instances |-> 0]
    /\ migrated_root = [i \in Instances |-> {}]
    /\ now = 0

Elapsed(since) == (now - since) * Tick
HasEscrow(i) == escrow[i].deposited # 0
Primary(i) == instance[i].primary_node

-----------------------------------------------------------------------------
(* Nodes. *)

\* register_node: init, so once for each operator.
RegisterNode(n, capacity) ==
    /\ node[n].status = "none"
    /\ node' = [node EXCEPT ![n] =
                  [status |-> "Active", capacity |-> capacity, active_instances |-> 0,
                   stake |-> MinStake, last_heartbeat |-> now]]
    /\ lamports' = [lamports EXCEPT ![n] = @ + MinStake]
    /\ UNCHANGED <<instance, escrowVars, migrated_root, now>>

\* Mutated form: any positive capacity is taken.
AnyCapacity(n, capacity) == capacity > 0

FitsActive(n, capacity) == capacity > 0 /\ capacity >= node[n].active_instances

\* update_node, as far as the capacity goes.
UpdateNode(n, capacity) ==
    /\ node[n].status = "Active"
    /\ FitsActive(n, capacity)
    /\ node' = [node EXCEPT ![n].capacity = capacity]
    /\ UNCHANGED <<lamports, instance, escrowVars, migrated_root, now>>

Heartbeat(n) ==
    /\ node[n].status = "Active"
    /\ node' = [node EXCEPT ![n].last_heartbeat = now]
    /\ UNCHANGED <<lamports, instance, escrowVars, migrated_root, now>>

\* deregister_node: last_heartbeat becomes the time of deregistration.
DeregisterNode(n) ==
    /\ node[n].status = "Active"
    /\ node' = [node EXCEPT ![n].status = "Deregistering", ![n].last_heartbeat = now]
    /\ UNCHANGED <<lamports, instance, escrowVars, migrated_root, now>>

\* Mutated form: the claimed stake stays on the record.
StakeLeft(n) == [node[n] EXCEPT !.status = "Deregistered"]

Claimed(n) == [node[n] EXCEPT !.status = "Deregistered", !.stake = 0]

ClaimStake(n) ==
    /\ node[n].status = "Deregistering"
    /\ node[n].active_instances = 0
    /\ Elapsed(node[n].last_heartbeat) >= Cooldown
    /\ lamports[n] >= node[n].stake
    /\ node' = [node EXCEPT ![n] = Claimed(n)]
    /\ lamports' = [lamports EXCEPT ![n] = @ - node[n].stake]
    /\ UNCHANGED <<instance, escrowVars, migrated_root, now>>

\* Mutated form: a node on its way out is slashed but not suspended.
SlashedUnlessLeaving(n) ==
    IF node[n].status = "Deregistering" THEN "Deregistering" ELSE "Suspended"

SlashedStatus(n) == "Suspended"

\* slash_node, whatever the node's status.
SlashNode(n) ==
    LET amount == (node[n].stake * SlashPercentage) \div 100 IN
    /\ node[n].status # "none"
    /\ lamports[n] >= amount
    /\ node' = [node EXCEPT ![n].stake = @ - amount, ![n].status = SlashedStatus(n)]
    /\ lamports' = [lamports EXCEPT ![n] = @ - amount]
    /\ UNCHANGED <<instance, escrowVars, migrated_root, now>>

-----------------------------------------------------------------------------
(* Instances. *)

\* Mutated form: the counter is decremented without checked_sub.
UncheckedRelease(n) == TRUE

\* active_instances.checked_sub(1) succeeds.
CanRelease(n) == node[n].active_instances >= 1

HasRoom(n) ==
    /\ node[n].status = "Active"
    /\ node[n].active_instances < node[n].capacity

\* allocate_instance: init, so once for each id.
AllocateInstance(i, n, replicas) ==
    /\ instance[i].status = "none"
    /\ HasRoom(n)
    /\ node' = [node EXCEPT ![n].active_instances = @ + 1]
    /\ instance' = [instance EXCEPT ![i] =
                      [status |-> "Provisioning", primary_node |-> n, replicas |-> replicas,
                       merkle_root |-> 0]]
    /\ UNCHANGED <<lamports, escrowVars, migrated_root, now>>

\* Mutated form: an instance that was suspended may be taken up again.
ActivatableAgain(i) == instance[i].status \in {"Provisioning", "Suspended"}

Activatable(i) == instance[i].status = "Provisioning"

ActivateInstance(i) ==
    /\ Activatable(i)
    /\ instance' = [instance EXCEPT ![i].status = "Active"]
    /\ UNCHANGED <<node, lamports, escrowVars, migrated_root, now>>

RootRecorded(i) ==
    migrated_root' = [migrated_root EXCEPT ![i] = @ \cup {instance[i].merkle_root}]

\* Who may set which status.
MaySet(signer, status) ==
    \/ status = "Suspended" /\ signer \in {"agent", "operator"}
    \/ status = "Destroyed" /\ signer = "agent"
    \/ status = "Migrating" /\ signer = "operator"

\* update_instance_status: only the status changes, from any status.
UpdateInstanceStatus(i, signer, status) ==
    /\ instance[i].status # "none"
    /\ MaySet(signer, status)
    /\ instance' = [instance EXCEPT ![i].status = status]
    /\ IF status = "Migrating" THEN RootRecorded(i) ELSE UNCHANGED migrated_root
    /\ UNCHANGED <<node, lamports, escrowVars, now>>

\* destroy_instance: needs an escrow, returns what is left of it.
DestroyInstance(i) ==
    LET remaining == escrow[i].deposited - escrow[i].distributed IN
    /\ instance[i].status # "none" /\ HasEscrow(i)
    /\ CanRelease(Primary(i))
    /\ tokens[i] >= remaining
    /\ instance' = [instance EXCEPT ![i].status = "Destroyed"]
    /\ node' = [node EXCEPT ![Primary(i)].active_instances = @ - 1]
    /\ tokens' = [tokens EXCEPT ![i] = @ - remaining]
    /\ refunded' = [refunded EXCEPT ![i] = @ + remaining]
    /\ UNCHANGED <<lamports, escrow, migrated_root, now>>

\* commit_merkle_root
CommitMerkleRoot(i) ==
    /\ instance[i].status = "Active"
    /\ instance' = [instance EXCEPT ![i].merkle_root = now + 1]
    /\ UNCHANGED <<node, lamports, escrowVars, migrated_root, now>>

\* migrate_instance.  When both accounts are the same one, each is a copy of
\* its own and new_primary's is written back last.
MigrateInstance(i, n) ==
    LET old == Primary(i) IN
    /\ instance[i].status # "none"
    /\ HasRoom(n)
    /\ CanRelease(old)
    /\ node' = IF n = old
               THEN [node EXCEPT ![n].active_instances = @ + 1]
               ELSE [node EXCEPT ![old].active_instances = @ - 1,
                                 ![n].active_instances = @ + 1]
    /\ instance' = [instance EXCEPT ![i].primary_node = n, ![i].status = "Migrating"]
    /\ RootRecorded(i)
    /\ UNCHANGED <<lamports, escrowVars, now>>

-----------------------------------------------------------------------------
(* Payments. *)

\* deposit_payment: the first deposit sets the rate and starts the clock.
DepositPayment(i, amount) ==
    /\ escrow[i].deposited + amount <= MaxDeposited
    /\ escrow' = [escrow EXCEPT ![i] =
                    [deposited |-> @.deposited + amount,
                     distributed |-> @.distributed,
                     rate_per_hour |-> IF HasEscrow(i) THEN @.rate_per_hour ELSE RatePerHour,
                     last_distribution_at |->
                        IF HasEscrow(i) THEN @.last_distribution_at ELSE now]]
    /\ tokens' = [tokens EXCEPT ![i] = @ + amount]
    /\ UNCHANGED <<node, lamports, instance, refunded, migrated_root, now>>

\* What is due since the last distribution, capped at what is left.
ActualPayment(i) ==
    LET payment == (Elapsed(escrow[i].last_distribution_at) * escrow[i].rate_per_hour) \div 3600
        remaining == escrow[i].deposited - escrow[i].distributed
    IN  IF payment <= remaining THEN payment ELSE remaining

PrimaryShare(payment) == (payment * 70) \div 100
ReplicaShare(payment) == (payment * 15) \div 100

\* Mutated form: the replicas' shares are paid but not counted.
PrimaryOnly(payment, paid) == PrimaryShare(payment)

\* What the primary and paid replicas receive together.
Distributed(payment, paid) == PrimaryShare(payment) + paid * ReplicaShare(payment)

\* distribute_payment: paid is the number of replicas whose token account the
\* caller passed.
DistributePayment(i, paid) ==
    LET payment == ActualPayment(i)
        transferred == PrimaryShare(payment) + paid * ReplicaShare(payment)
        total == Distributed(payment, paid)
    IN
    /\ instance[i].status # "none" /\ HasEscrow(i)
    /\ paid <= instance[i].replicas
    /\ payment # 0
    /\ tokens[i] >= transferred
    /\ escrow[i].distributed + total <= escrow[i].deposited
    /\ tokens' = [tokens EXCEPT ![i] = @ - transferred]
    /\ escrow' = [escrow EXCEPT ![i].distributed = @ + total, ![i].last_distribution_at = now]
    /\ instance' = IF escrow[i].distributed + total = escrow[i].deposited
                   THEN [instance EXCEPT ![i].status = "Suspended"]
                   ELSE instance
    /\ UNCHANGED <<node, lamports, refunded, migrated_root, now>>

ClockTick ==
    /\ now < MaxNow
    /\ now' = now + 1
    /\ UNCHANGED <<node, lamports, instance, escrowVars, migrated_root>>

Next ==
    \/ ClockTick
    \/ \E n \in Nodes, capacity \in 1 .. MaxCapacity :
         RegisterNode(n, capacity) \/ UpdateNode(n, capacity)
    \/ \E n \in Nodes : Heartbeat(n) \/ DeregisterNode(n) \/ ClaimStake(n) \/ SlashNode(n)
    \/ \E i \in Instances, n \in Nodes, replicas \in 0 .. MaxReplicas :
         AllocateInstance(i, n, replicas)
    \/ \E i \in Instances, n \in Nodes : MigrateInstance(i, n)
    \/ \E i \in Instances : ActivateInstance(i) \/ DestroyInstance(i) \/ CommitMerkleRoot(i)
    \/ \E i \in Instances, signer \in {"agent", "operator"}, status \in InstanceStatus :
         UpdateInstanceStatus(i, signer, status)
    \/ \E i \in Instances, amount \in Amounts : DepositPayment(i, amount)
    \/ \E i \in Instances, paid \in 0 .. MaxReplicas : DistributePayment(i, paid)

Spec == Init /\ [][Next]_vars

-----------------------------------------------------------------------------
(* Properties. *)

\* A node never hosts more than it declared, however capacity changes,
\* allocations and migrations are interleaved.
CapacityRespected ==
    \A n \in Nodes : node[n].active_instances <= node[n].capacity

\* However deposits, distributions with rounded shares and refunds are
\* interleaved, the token account holds what was deposited and neither
\* distributed nor refunded, so that neither of them can be paid twice.
EscrowBalanced ==
    \A i \in Instances :
        /\ escrow[i].distributed + refunded[i] <= escrow[i].deposited
        /\ tokens[i] = escrow[i].deposited - escrow[i].distributed - refunded[i]

\* The stake on a node's record is what its account holds for it, through
\* registration, slashing and the claim: checked_sub never fails.
StakeBacked ==
    \A n \in Nodes : lamports[n] = node[n].stake

\* What slash_node leaves of a stake is never paid out: the node stays out,
\* also if it was on its way out when it was slashed.
SlashedStakeHeld ==
    \A n \in Nodes :
        node[n].stake \in 1 .. MinStake - 1 => node[n].status = "Suspended"

\* Once taken off its primary an instance is never again in service and keeps
\* for its whole life the Merkle root it had then: no sequence of suspensions,
\* payments, further migrations and activations, whoever signs them, lets a new
\* primary commit one.
MigratedRootFrozen ==
    \A i \in Instances : \A root \in migrated_root[i] :
        /\ instance[i].merkle_root = root
        /\ instance[i].status \in {"Migrating", "Suspended", "Destroyed"}

-----------------------------------------------------------------------------
(* What the code's comments and messages say and the program does not keep. *)

\* A node whose stake has been paid back is not the primary of an instance that
\* is in service: claim_stake refuses with "Node still has active instances".
DeregisteredHostsNothing ==
    \A n \in Nodes, i \in Instances :
        node[n].status = "Deregistered" /\ Primary(i) = n
        => instance[i].status \notin {"Provisioning", "Active"}
=============================================================================
