---------------------------- MODULE RegistryProofs ----------------------------
(***************************************************************************)
(* Registry's safety properties, for any set of nodes and instances and    *)
(* any configuration.  The invariant is RegInv: the types, the clock, and  *)
(* the four properties.  The clock is needed for a payment to be a natural *)
(* number; StakeBacked and EscrowBalanced are needed for the types, since  *)
(* they are why a subtraction stays above zero.                            *)
(***************************************************************************)
EXTENDS Registry, TLAPS

\* No distribution lies in the future.
ClockInv == \A i \in Instances : escrow[i].last_distribution_at <= now

\* An operator that has not registered has nothing at stake.
UnregisteredInv == \A n \in Nodes : node[n].status = "none" => node[n].stake = 0

RegInv ==
    /\ TypeOK
    /\ ClockInv
    /\ UnregisteredInv
    /\ CapacityRespected
    /\ EscrowBalanced
    /\ StakeBacked
    /\ SlashedStakeHeld

-----------------------------------------------------------------------------
(* Arithmetic. *)

\* A percentage of an amount is a natural number.
LEMMA PercentNat ==
    ASSUME NEW a \in Nat, NEW p \in Nat
    PROVE  (a * p) \div 100 \in Nat
<1>1. a * p \in Nat
  OBVIOUS
<1> QED
  BY <1>1

\* The shares handed out together are a natural number.
LEMMA SharesNat ==
    ASSUME NEW payment \in Nat, NEW paid \in Nat
    PROVE  Distributed(payment, paid) \in Nat
<1>1. PrimaryShare(payment) \in Nat
  BY PercentNat DEF PrimaryShare
<1>2. ReplicaShare(payment) \in Nat
  BY PercentNat DEF ReplicaShare
<1>3. paid * ReplicaShare(payment) \in Nat
  BY <1>2
<1> QED
  BY <1>1, <1>3 DEF Distributed

\* What is due is a natural number.
LEMMA PaymentNat ==
    ASSUME TypeOK, ClockInv, EscrowBalanced, NEW i \in Instances
    PROVE  ActualPayment(i) \in Nat
<1> DEFINE since == escrow[i].last_distribution_at
           rate == escrow[i].rate_per_hour
           due == (Elapsed(since) * rate) \div 3600
           remaining == escrow[i].deposited - escrow[i].distributed
<1>1. since \in Nat /\ rate \in Nat /\ now - since \in Nat
  BY DEF TypeOK, PaymentEscrow, ClockInv
<1>2. Elapsed(since) \in Nat
  <2> HIDE DEF since
  <2> QED
    BY <1>1, BoundsAssumption DEF Elapsed
<1>3. Elapsed(since) * rate \in Nat
  <2> HIDE DEF since, rate
  <2> QED
    BY <1>1, <1>2
<1>4. due \in Nat
  <2> HIDE DEF since, rate
  <2> QED
    BY <1>3
<1>5. remaining \in Nat
  BY DEF TypeOK, PaymentEscrow, EscrowBalanced
<1> HIDE DEF due, remaining
<1>6. ActualPayment(i) = IF due <= remaining THEN due ELSE remaining
  BY DEF ActualPayment, due, remaining
<1> QED
  BY <1>4, <1>5, <1>6

-----------------------------------------------------------------------------
LEMMA RegInit == Init => RegInv
<1> SUFFICES ASSUME Init PROVE RegInv
  OBVIOUS
<1>1. (CHOOSE n \in Nodes : TRUE) \in Nodes
  BY BoundsAssumption
<1>2. TypeOK
  BY <1>1 DEF Init, TypeOK, NodeRecord, InstanceRecord, PaymentEscrow
<1>3. ClockInv /\ UnregisteredInv /\ CapacityRespected /\ EscrowBalanced /\ StakeBacked
  BY DEF Init, ClockInv, UnregisteredInv, CapacityRespected, EscrowBalanced, StakeBacked
<1>4. SlashedStakeHeld
  BY ConfigAssumption DEF Init, SlashedStakeHeld
<1> QED
  BY <1>2, <1>3, <1>4 DEF RegInv

\* A step that leaves the nodes and their accounts alone keeps what is said of
\* them, and so for the escrows.
LEMMA NodesKept ==
    ASSUME RegInv, UNCHANGED <<node, lamports>>
    PROVE  UnregisteredInv' /\ CapacityRespected' /\ StakeBacked' /\ SlashedStakeHeld'
BY DEF RegInv, UnregisteredInv, CapacityRespected, StakeBacked, SlashedStakeHeld

LEMMA EscrowsKept ==
    ASSUME RegInv, UNCHANGED <<escrowVars, now>>
    PROVE  ClockInv' /\ EscrowBalanced'
BY DEF RegInv, escrowVars, ClockInv, EscrowBalanced

\* A step that changes one node's record and neither its stake nor what backs it.
LEMMA StakesKept ==
    ASSUME RegInv, UNCHANGED lamports,
           \A n \in Nodes : /\ node'[n].stake = node[n].stake
                            /\ node'[n].status = "none" => node[n].status = "none"
                            /\ node[n].status = "Suspended" => node'[n].status = "Suspended"
    PROVE  UnregisteredInv' /\ StakeBacked' /\ SlashedStakeHeld'
BY DEF RegInv, UnregisteredInv, StakeBacked, SlashedStakeHeld

-----------------------------------------------------------------------------
LEMMA RegisterNodeStep ==
    ASSUME RegInv, NEW n \in Nodes, NEW capacity \in 1 .. MaxCapacity,
           RegisterNode(n, capacity)
    PROVE  RegInv'
<1> USE DEF RegInv
<1> USE ConfigAssumption, BoundsAssumption
<1>1. TypeOK'
  BY DEF RegisterNode, TypeOK, NodeRecord, NodeStatus, escrowVars
<1>2. UnregisteredInv' /\ CapacityRespected'
  BY DEF RegisterNode, UnregisteredInv, CapacityRespected, TypeOK, NodeRecord
<1>3. StakeBacked'
  BY DEF RegisterNode, StakeBacked, UnregisteredInv, TypeOK, NodeRecord
<1>4. SlashedStakeHeld'
  BY DEF RegisterNode, SlashedStakeHeld, TypeOK, NodeRecord
<1> QED
  BY <1>1, <1>2, <1>3, <1>4, EscrowsKept DEF RegisterNode

\* The steps that change one record and no stake.
LEMMA OneRecordStep ==
    ASSUME RegInv, NEW n \in Nodes, NEW capacity \in Nat,
           UpdateNode(n, capacity) \/ Heartbeat(n) \/ DeregisterNode(n)
    PROVE  RegInv'
<1> USE DEF RegInv
<1> USE ConfigAssumption, BoundsAssumption
<1>1. TypeOK'
  BY DEF UpdateNode, Heartbeat, DeregisterNode, TypeOK, NodeRecord, NodeStatus, escrowVars
<1>2. CapacityRespected'
  BY DEF UpdateNode, FitsActive, Heartbeat, DeregisterNode, CapacityRespected, TypeOK, NodeRecord
<1>3. UnregisteredInv' /\ StakeBacked' /\ SlashedStakeHeld'
  <2> DEFINE Same(m) == /\ node'[m].stake = node[m].stake
                        /\ node'[m].status = "none" => node[m].status = "none"
                        /\ node[m].status = "Suspended" => node'[m].status = "Suspended"
  <2>1. ASSUME UpdateNode(n, capacity) PROVE \A m \in Nodes : Same(m)
    BY <2>1 DEF UpdateNode, TypeOK, NodeRecord
  <2>2. ASSUME Heartbeat(n) PROVE \A m \in Nodes : Same(m)
    BY <2>2 DEF Heartbeat, TypeOK, NodeRecord
  <2>3. ASSUME DeregisterNode(n) PROVE \A m \in Nodes : Same(m)
    BY <2>3 DEF DeregisterNode, TypeOK, NodeRecord
  <2>4. UNCHANGED lamports
    BY DEF UpdateNode, Heartbeat, DeregisterNode
  <2> QED
    BY <2>1, <2>2, <2>3, <2>4, StakesKept
<1> QED
  BY <1>1, <1>2, <1>3, EscrowsKept DEF UpdateNode, Heartbeat, DeregisterNode

LEMMA ClaimStakeStep ==
    ASSUME RegInv, NEW n \in Nodes, ClaimStake(n)
    PROVE  RegInv'
<1> USE DEF RegInv
<1> USE ConfigAssumption, BoundsAssumption
<1>1. TypeOK'
  <2>1. node' \in [Nodes -> NodeRecord]
    BY DEF ClaimStake, Claimed, TypeOK, NodeRecord, NodeStatus
  <2>2. lamports' \in [Nodes -> Nat]
    <3>1. node[n].stake \in Nat
      BY DEF TypeOK, NodeRecord
    <3> QED
      BY <3>1 DEF ClaimStake, TypeOK
  <2> QED
    BY <2>1, <2>2 DEF ClaimStake, TypeOK, escrowVars
<1>2. UnregisteredInv' /\ CapacityRespected'
  BY DEF ClaimStake, Claimed, UnregisteredInv, CapacityRespected, TypeOK, NodeRecord
<1>3. StakeBacked' /\ SlashedStakeHeld'
  BY DEF ClaimStake, Claimed, StakeBacked, SlashedStakeHeld, TypeOK, NodeRecord
<1> QED
  BY <1>1, <1>2, <1>3, EscrowsKept DEF ClaimStake

\* The slashed part is at most the stake because the account holds just that.
LEMMA SlashNodeStep ==
    ASSUME RegInv, NEW n \in Nodes, SlashNode(n)
    PROVE  RegInv'
<1> DEFINE amount == (node[n].stake * SlashPercentage) \div 100
<1> USE DEF RegInv
<1>1. node[n].stake \in Nat /\ lamports[n] = node[n].stake
  BY DEF TypeOK, NodeRecord, StakeBacked
<1>2. amount \in Nat
  BY <1>1, PercentNat, ConfigAssumption
<1>3. /\ lamports[n] >= amount
      /\ node' = [node EXCEPT ![n].stake = @ - amount, ![n].status = "Suspended"]
      /\ lamports' = [lamports EXCEPT ![n] = @ - amount]
      /\ node[n].status # "none"
      /\ UNCHANGED <<instance, escrowVars, migrated_root, now>>
  BY DEF SlashNode, SlashedStatus
<1> HIDE DEF amount
<1>4. TypeOK'
  <2>1. node' \in [Nodes -> NodeRecord]
    <3>1. node[n].stake - amount \in Nat
      BY <1>1, <1>2, <1>3
    <3> QED
      BY <1>3, <3>1 DEF TypeOK, NodeRecord, NodeStatus
  <2>2. lamports' \in [Nodes -> Nat]
    BY <1>1, <1>2, <1>3 DEF TypeOK
  <2> QED
    BY <1>3, <2>1, <2>2 DEF TypeOK, escrowVars
<1>5. UnregisteredInv' /\ CapacityRespected'
  BY <1>3 DEF UnregisteredInv, CapacityRespected, TypeOK, NodeRecord
<1>6. StakeBacked'
  BY <1>1, <1>2, <1>3 DEF StakeBacked, TypeOK, NodeRecord
<1>7. SlashedStakeHeld'
  BY <1>3 DEF SlashedStakeHeld, TypeOK, NodeRecord
<1> QED
  BY <1>3, <1>4, <1>5, <1>6, <1>7, EscrowsKept

LEMMA AllocateInstanceStep ==
    ASSUME RegInv, NEW i \in Instances, NEW n \in Nodes, NEW replicas \in 0 .. MaxReplicas,
           AllocateInstance(i, n, replicas)
    PROVE  RegInv'
<1> USE DEF RegInv
<1> USE BoundsAssumption
<1>1. TypeOK'
  <2>1. node' \in [Nodes -> NodeRecord]
    BY DEF AllocateInstance, TypeOK, NodeRecord
  <2>2. replicas \in Nat
    OBVIOUS
  <2>3. instance' \in [Instances -> InstanceRecord]
    BY <2>2 DEF AllocateInstance, TypeOK, InstanceRecord, InstanceStatus
  <2> QED
    BY <2>1, <2>3 DEF AllocateInstance, TypeOK, escrowVars
<1>2. CapacityRespected'
  BY DEF AllocateInstance, HasRoom, CapacityRespected, TypeOK, NodeRecord
<1>3. UnregisteredInv' /\ StakeBacked' /\ SlashedStakeHeld'
  BY StakesKept DEF AllocateInstance, TypeOK, NodeRecord
<1> QED
  BY <1>1, <1>2, <1>3, EscrowsKept DEF AllocateInstance

\* What is recorded of an instance that becomes Migrating.
LEMMA RootsTyped ==
    ASSUME TypeOK, NEW i \in Instances, UNCHANGED migrated_root \/ RootRecorded(i)
    PROVE  migrated_root' \in [Instances -> SUBSET Nat]
<1>1. instance[i].merkle_root \in Nat
  BY DEF TypeOK, InstanceRecord
<1> QED
  BY <1>1 DEF TypeOK, RootRecorded

\* The steps that only change an instance.
LEMMA InstanceStep ==
    ASSUME RegInv, NEW i \in Instances, NEW signer, NEW status \in InstanceStatus,
           \/ ActivateInstance(i)
           \/ CommitMerkleRoot(i)
           \/ UpdateInstanceStatus(i, signer, status)
    PROVE  RegInv'
<1> USE DEF RegInv
<1>1. UNCHANGED <<node, lamports, escrowVars, now>>
  BY DEF ActivateInstance, CommitMerkleRoot, UpdateInstanceStatus
<1>2. instance' \in [Instances -> InstanceRecord]
  <2>1. CASE ActivateInstance(i)
    BY <2>1 DEF ActivateInstance, TypeOK, InstanceRecord, InstanceStatus
  <2>2. CASE CommitMerkleRoot(i)
    BY <2>2 DEF CommitMerkleRoot, TypeOK, InstanceRecord, InstanceStatus
  <2>3. CASE UpdateInstanceStatus(i, signer, status)
    BY <2>3 DEF UpdateInstanceStatus, TypeOK, InstanceRecord, InstanceStatus
  <2> QED
    BY <2>1, <2>2, <2>3
<1>3. migrated_root' \in [Instances -> SUBSET Nat]
  <2>1. UNCHANGED migrated_root \/ RootRecorded(i)
    BY DEF ActivateInstance, CommitMerkleRoot, UpdateInstanceStatus
  <2> QED
    BY <2>1, RootsTyped
<1>4. TypeOK'
  BY <1>1, <1>2, <1>3 DEF TypeOK, escrowVars
<1> QED
  BY <1>1, <1>4, NodesKept, EscrowsKept

LEMMA MigrateInstanceStep ==
    ASSUME RegInv, NEW i \in Instances, NEW n \in Nodes, MigrateInstance(i, n)
    PROVE  RegInv'
<1> DEFINE old == instance[i].primary_node
<1> USE DEF RegInv
<1>1. old \in Nodes /\ node[old].active_instances >= 1
  BY DEF TypeOK, InstanceRecord, MigrateInstance, CanRelease, Primary
<1>2. /\ node' = IF n = old
                 THEN [node EXCEPT ![n].active_instances = @ + 1]
                 ELSE [node EXCEPT ![old].active_instances = @ - 1,
                                   ![n].active_instances = @ + 1]
      /\ instance' = [instance EXCEPT ![i].primary_node = n, ![i].status = "Migrating"]
      /\ node[n].active_instances < node[n].capacity
      /\ UNCHANGED <<lamports, escrowVars, now>>
  BY DEF MigrateInstance, Primary, HasRoom
<1> HIDE DEF old
<1>3. node' \in [Nodes -> NodeRecord]
  <2>1. node \in [Nodes -> NodeRecord]
    BY DEF TypeOK
  <2>2. ASSUME NEW m \in Nodes, NEW a \in Nat
        PROVE  [node[m] EXCEPT !.active_instances = a] \in NodeRecord
    BY <2>1 DEF NodeRecord
  <2>3. node[n].active_instances + 1 \in Nat /\ node[old].active_instances - 1 \in Nat
    BY <1>1, <2>1 DEF NodeRecord
  <2> HIDE DEF RegInv
  <2>4. CASE n = old
    BY <1>2, <2>1, <2>2, <2>3, <2>4
  <2>5. CASE n # old
    BY <1>1, <1>2, <2>1, <2>2, <2>3, <2>5
  <2> QED
    BY <2>4, <2>5
<1>4. instance' \in [Instances -> InstanceRecord]
  BY <1>2 DEF TypeOK, InstanceRecord, InstanceStatus
<1>5. TypeOK'
  <2>1. migrated_root' \in [Instances -> SUBSET Nat]
    BY RootsTyped DEF MigrateInstance
  <2> QED
    BY <1>2, <1>3, <1>4, <2>1 DEF TypeOK, escrowVars
<1>6. CapacityRespected'
  BY <1>1, <1>2 DEF CapacityRespected, TypeOK, NodeRecord
<1>7. UnregisteredInv' /\ StakeBacked' /\ SlashedStakeHeld'
  <2>1. \A m \in Nodes : node'[m].stake = node[m].stake /\ node'[m].status = node[m].status
    BY <1>1, <1>2 DEF TypeOK, NodeRecord
  <2> QED
    BY <1>2, <2>1, StakesKept
<1> QED
  BY <1>2, <1>5, <1>6, <1>7, EscrowsKept

LEMMA DestroyInstanceStep ==
    ASSUME RegInv, NEW i \in Instances, DestroyInstance(i)
    PROVE  RegInv'
<1> DEFINE old == instance[i].primary_node
           remaining == escrow[i].deposited - escrow[i].distributed
<1> USE DEF RegInv
<1>1. old \in Nodes
  BY DEF TypeOK, InstanceRecord
<1>2. remaining \in Nat
  BY DEF TypeOK, PaymentEscrow, EscrowBalanced
<1>3. /\ node[old].active_instances >= 1
      /\ tokens[i] >= remaining
      /\ instance' = [instance EXCEPT ![i].status = "Destroyed"]
      /\ node' = [node EXCEPT ![old].active_instances = @ - 1]
      /\ tokens' = [tokens EXCEPT ![i] = @ - remaining]
      /\ refunded' = [refunded EXCEPT ![i] = @ + remaining]
      /\ UNCHANGED <<lamports, escrow, migrated_root, now>>
  BY DEF DestroyInstance, CanRelease, Primary
<1>4. EscrowBalanced'
  <2> SUFFICES ASSUME NEW j \in Instances
               PROVE  /\ escrow[j].distributed + refunded'[j] <= escrow[j].deposited
                      /\ tokens'[j] = escrow[j].deposited - escrow[j].distributed - refunded'[j]
    BY <1>3 DEF EscrowBalanced
  <2>1. /\ escrow[j].deposited \in Nat /\ escrow[j].distributed \in Nat
        /\ tokens[j] \in Nat /\ refunded[j] \in Nat
        /\ escrow[j].distributed + refunded[j] <= escrow[j].deposited
        /\ tokens[j] = escrow[j].deposited - escrow[j].distributed - refunded[j]
    BY DEF TypeOK, PaymentEscrow, EscrowBalanced
  <2>2. CASE j = i
    <3>1. tokens'[j] = tokens[j] - remaining /\ refunded'[j] = refunded[j] + remaining
      BY <1>3, <2>2 DEF TypeOK
    <3> QED
      BY <1>3, <2>1, <2>2, <3>1
  <2>3. CASE j # i
    <3>1. tokens'[j] = tokens[j] /\ refunded'[j] = refunded[j]
      BY <1>3, <2>3 DEF TypeOK
    <3> QED
      BY <2>1, <3>1
  <2> QED
    BY <2>2, <2>3
<1>5. ClockInv'
  BY <1>3 DEF ClockInv
<1> HIDE DEF old, remaining
<1>6. TypeOK'
  <2>1. node' \in [Nodes -> NodeRecord]
    BY <1>1, <1>3 DEF TypeOK, NodeRecord
  <2>2. instance' \in [Instances -> InstanceRecord]
    BY <1>3 DEF TypeOK, InstanceRecord, InstanceStatus
  <2>3. tokens' \in [Instances -> Nat] /\ refunded' \in [Instances -> Nat]
    BY <1>2, <1>3 DEF TypeOK
  <2> QED
    BY <1>3, <2>1, <2>2, <2>3 DEF TypeOK
<1>7. CapacityRespected'
  BY <1>1, <1>3 DEF CapacityRespected, TypeOK, NodeRecord
<1>8. UnregisteredInv' /\ StakeBacked' /\ SlashedStakeHeld'
  <2>1. \A m \in Nodes : node'[m].stake = node[m].stake /\ node'[m].status = node[m].status
    BY <1>1, <1>3 DEF TypeOK, NodeRecord
  <2> QED
    BY <1>3, <2>1, StakesKept
<1> QED
  BY <1>4, <1>5, <1>6, <1>7, <1>8

LEMMA DepositPaymentStep ==
    ASSUME RegInv, NEW i \in Instances, NEW amount \in Amounts, DepositPayment(i, amount)
    PROVE  RegInv'
<1> USE DEF RegInv
<1>1. amount \in Nat /\ RatePerHour \in Nat
  BY ConfigAssumption, BoundsAssumption
<1>2. TypeOK'
  BY <1>1 DEF DepositPayment, TypeOK, PaymentEscrow
<1>3. ClockInv'
  BY DEF DepositPayment, ClockInv, TypeOK, PaymentEscrow
<1>4. EscrowBalanced'
  BY <1>1 DEF DepositPayment, EscrowBalanced, TypeOK, PaymentEscrow
<1> QED
  BY <1>2, <1>3, <1>4, NodesKept DEF DepositPayment

\* What leaves the token account is what is added to distributed.
LEMMA DistributePaymentStep ==
    ASSUME RegInv, NEW i \in Instances, NEW paid \in 0 .. MaxReplicas,
           DistributePayment(i, paid)
    PROVE  RegInv'
<1> DEFINE total == Distributed(ActualPayment(i), paid)
<1> USE DEF RegInv
<1>1. total \in Nat
  BY PaymentNat, SharesNat, BoundsAssumption
<1>2. /\ tokens[i] >= total
      /\ escrow[i].distributed + total <= escrow[i].deposited
      /\ tokens' = [tokens EXCEPT ![i] = @ - total]
      /\ escrow' = [escrow EXCEPT ![i].distributed = @ + total, ![i].last_distribution_at = now]
      /\ \/ instance' = [instance EXCEPT ![i].status = "Suspended"]
         \/ instance' = instance
      /\ UNCHANGED <<node, lamports, refunded, migrated_root, now>>
  BY DEF DistributePayment, Distributed
<1> HIDE DEF total
<1>3. TypeOK'
  <2>1. escrow' \in [Instances -> PaymentEscrow] /\ tokens' \in [Instances -> Nat]
    <3>1. escrow' \in [Instances -> PaymentEscrow]
      <4>1. escrow[i].distributed + total \in Nat
        BY <1>1 DEF TypeOK, PaymentEscrow
      <4> QED
        BY <1>2, <4>1 DEF TypeOK, PaymentEscrow
    <3>2. tokens' \in [Instances -> Nat]
      BY <1>1, <1>2 DEF TypeOK
    <3> QED
      BY <3>1, <3>2
  <2>2. instance' \in [Instances -> InstanceRecord]
    BY <1>2 DEF TypeOK, InstanceRecord, InstanceStatus
  <2> QED
    BY <1>2, <2>1, <2>2 DEF TypeOK
<1>4. ClockInv'
  BY <1>2 DEF ClockInv, TypeOK, PaymentEscrow
<1>5. EscrowBalanced'
  BY <1>1, <1>2 DEF EscrowBalanced, TypeOK, PaymentEscrow
<1> QED
  BY <1>2, <1>3, <1>4, <1>5, NodesKept

LEMMA ClockTickStep == ASSUME RegInv, ClockTick PROVE RegInv'
<1> USE DEF RegInv
<1>1. TypeOK' /\ ClockInv' /\ EscrowBalanced'
  BY DEF ClockTick, escrowVars, TypeOK, ClockInv, EscrowBalanced, PaymentEscrow
<1> QED
  BY <1>1, NodesKept DEF ClockTick

LEMMA RegStep == RegInv /\ [Next]_vars => RegInv'
<1> SUFFICES ASSUME RegInv, [Next]_vars PROVE RegInv'
  OBVIOUS
<1>1. CASE ClockTick
  BY <1>1, ClockTickStep
<1>2. ASSUME NEW n \in Nodes, NEW capacity \in 1 .. MaxCapacity,
             RegisterNode(n, capacity) \/ UpdateNode(n, capacity)
      PROVE  RegInv'
  <2>1. capacity \in Nat
    BY BoundsAssumption
  <2> QED
    BY <1>2, <2>1, RegisterNodeStep, OneRecordStep
<1>3. ASSUME NEW n \in Nodes, Heartbeat(n) \/ DeregisterNode(n)
      PROVE  RegInv'
  <2>1. 1 \in Nat /\ (UpdateNode(n, 1) \/ Heartbeat(n) \/ DeregisterNode(n))
    BY <1>3
  <2> QED
    BY ONLY <2>1, OneRecordStep, RegInv, n \in Nodes
<1>4. ASSUME NEW n \in Nodes, ClaimStake(n) \/ SlashNode(n)
      PROVE  RegInv'
  BY <1>4, ClaimStakeStep, SlashNodeStep
<1>5. ASSUME NEW i \in Instances, NEW n \in Nodes, NEW replicas \in 0 .. MaxReplicas,
             AllocateInstance(i, n, replicas)
      PROVE  RegInv'
  BY <1>5, AllocateInstanceStep
<1>6. ASSUME NEW i \in Instances, NEW n \in Nodes, MigrateInstance(i, n)
      PROVE  RegInv'
  BY <1>6, MigrateInstanceStep
<1>7. ASSUME NEW i \in Instances, ActivateInstance(i) \/ CommitMerkleRoot(i)
      PROVE  RegInv'
  <2>1. "Active" \in InstanceStatus
    BY DEF InstanceStatus
  <2> QED
    BY <1>7, <2>1, InstanceStep
<1>8. ASSUME NEW i \in Instances, DestroyInstance(i)
      PROVE  RegInv'
  BY <1>8, DestroyInstanceStep
<1>9. ASSUME NEW i \in Instances, NEW signer \in {"agent", "operator"},
             NEW status \in InstanceStatus, UpdateInstanceStatus(i, signer, status)
      PROVE  RegInv'
  BY <1>9, InstanceStep
<1>10. ASSUME NEW i \in Instances, NEW amount \in Amounts, DepositPayment(i, amount)
       PROVE  RegInv'
  BY <1>10, DepositPaymentStep
<1>11. ASSUME NEW i \in Instances, NEW paid \in 0 .. MaxReplicas, DistributePayment(i, paid)
       PROVE  RegInv'
  BY <1>11, DistributePaymentStep
<1>12. CASE UNCHANGED vars
  BY <1>12, NodesKept, EscrowsKept DEF RegInv, vars, escrowVars, TypeOK
<1> QED
  BY <1>1, <1>2, <1>3, <1>4, <1>5, <1>6, <1>7, <1>8, <1>9, <1>10, <1>11, <1>12 DEF Next

-----------------------------------------------------------------------------
\* The invariant holds in every reachable state.
THEOREM RegInvariant == Spec => []RegInv
<1>1. Init => RegInv
  BY RegInit
<1>2. RegInv /\ [Next]_vars => RegInv'
  BY RegStep
<1> QED
  BY <1>1, <1>2, PTL DEF Spec

\* Every account keeps its type: no counter, stake or balance falls below zero.
THEOREM RegistryTypeCorrect == Spec => []TypeOK
BY RegInvariant, PTL DEF RegInv

\* No node is given more instances than its capacity, whatever update_node,
\* allocate_instance and migrate_instance do in between.
THEOREM CapacityIsRespected == Spec => []CapacityRespected
BY RegInvariant, PTL DEF RegInv

\* An escrow's token account holds what is neither distributed nor refunded.
THEOREM EscrowIsBalanced == Spec => []EscrowBalanced
BY RegInvariant, PTL DEF RegInv

\* The stake on record is in the node's account.
THEOREM StakeIsBacked == Spec => []StakeBacked
BY RegInvariant, PTL DEF RegInv

\* What is left of a slashed stake belongs to a suspended node.
THEOREM SlashedStakeIsHeld == Spec => []SlashedStakeHeld
BY RegInvariant, PTL DEF RegInv

\* The step of MigratedRootFrozen: an instance that has migrated keeps its root,
\* stays out of service, and what is recorded of it later is that same root.
LEMMA FrozenStep == TypeOK /\ MigratedRootFrozen /\ [Next]_vars => MigratedRootFrozen'
<1> DEFINE Kept(i) == /\ instance'[i].merkle_root = instance[i].merkle_root
                      /\ instance'[i].status \in {"Migrating", "Suspended", "Destroyed"}
<1> SUFFICES ASSUME TypeOK, MigratedRootFrozen, [Next]_vars,
                    NEW i \in Instances, NEW root \in migrated_root'[i]
             PROVE  instance'[i].merkle_root = root
                    /\ instance'[i].status \in {"Migrating", "Suspended", "Destroyed"}
  BY DEF MigratedRootFrozen
<1>1. ASSUME root \in migrated_root[i], Kept(i)
      PROVE  instance'[i].merkle_root = root
             /\ instance'[i].status \in {"Migrating", "Suspended", "Destroyed"}
  BY <1>1 DEF MigratedRootFrozen
<1>2. /\ \A r \in migrated_root[i] : instance[i].status \in {"Migrating", "Suspended", "Destroyed"}
      /\ instance[i] \in InstanceRecord
      /\ migrated_root \in [Instances -> SUBSET Nat]
  BY DEF MigratedRootFrozen, TypeOK
<1>3. ASSUME UNCHANGED <<instance, migrated_root>>
      PROVE  root \in migrated_root[i] /\ Kept(i)
  BY <1>2, <1>3
<1>4. ASSUME NEW j \in Instances, NEW n \in Nodes, NEW replicas \in 0 .. MaxReplicas,
             AllocateInstance(j, n, replicas)
      PROVE  root \in migrated_root[i] /\ Kept(i)
  BY <1>2, <1>4 DEF AllocateInstance, TypeOK, MigratedRootFrozen
<1>5. ASSUME NEW j \in Instances, ActivateInstance(j) \/ CommitMerkleRoot(j)
      PROVE  root \in migrated_root[i] /\ Kept(i)
  <2>1. UNCHANGED migrated_root
    BY <1>5 DEF ActivateInstance, CommitMerkleRoot
  <2> QED
    BY <1>2, <1>5, <2>1 DEF ActivateInstance, Activatable, CommitMerkleRoot, TypeOK
<1>6. ASSUME NEW j \in Instances, DestroyInstance(j)
      PROVE  root \in migrated_root[i] /\ Kept(i)
  BY <1>2, <1>6 DEF DestroyInstance, TypeOK, InstanceRecord
<1>7. ASSUME NEW j \in Instances, NEW paid \in 0 .. MaxReplicas, DistributePayment(j, paid)
      PROVE  root \in migrated_root[i] /\ Kept(i)
  <2>1. /\ UNCHANGED migrated_root
        /\ \/ instance' = [instance EXCEPT ![j].status = "Suspended"]
           \/ instance' = instance
    BY <1>7 DEF DistributePayment
  <2>2. root \in migrated_root[i]
    BY <2>1
  <2>3. CASE instance' = [instance EXCEPT ![j].status = "Suspended"]
    BY <1>2, <2>2, <2>3 DEF TypeOK, InstanceRecord
  <2>4. CASE instance' = instance
    BY <1>2, <2>2, <2>4
  <2> QED
    BY <2>1, <2>2, <2>3, <2>4
\* A status of Migrating is recorded with the root of that moment.
<1>8. ASSUME NEW j \in Instances, RootRecorded(j),
             \A k \in Instances : instance'[k].merkle_root = instance[k].merkle_root,
             \A k \in Instances \ {j} : instance'[k] = instance[k],
             instance'[j].status = "Migrating"
      PROVE  instance'[i].merkle_root = root
             /\ instance'[i].status \in {"Migrating", "Suspended", "Destroyed"}
  <2>1. CASE root \in migrated_root[i]
    BY <1>2, <1>8, <2>1 DEF MigratedRootFrozen
  <2>2. CASE root \notin migrated_root[i]
    <3>1. i = j /\ root = instance[i].merkle_root
      BY <1>2, <1>8, <2>2 DEF RootRecorded
    <3> QED
      BY <1>8, <3>1
  <2> QED
    BY <2>1, <2>2
<1>9. ASSUME NEW j \in Instances, NEW n \in Nodes, MigrateInstance(j, n)
      PROVE  instance'[i].merkle_root = root
             /\ instance'[i].status \in {"Migrating", "Suspended", "Destroyed"}
  <2>1. /\ RootRecorded(j)
        /\ instance' = [instance EXCEPT ![j].primary_node = n, ![j].status = "Migrating"]
    BY <1>9 DEF MigrateInstance
  <2> QED
    BY <1>8, <2>1 DEF TypeOK, InstanceRecord
<1>10. ASSUME NEW j \in Instances, NEW signer, NEW status \in InstanceStatus,
              UpdateInstanceStatus(j, signer, status)
       PROVE  instance'[i].merkle_root = root
              /\ instance'[i].status \in {"Migrating", "Suspended", "Destroyed"}
  <2>1. /\ instance' = [instance EXCEPT ![j].status = status]
        /\ status \in {"Suspended", "Destroyed", "Migrating"}
        /\ IF status = "Migrating" THEN RootRecorded(j) ELSE UNCHANGED migrated_root
    BY <1>10 DEF UpdateInstanceStatus, MaySet
  <2>2. CASE status = "Migrating"
    BY <1>8, <2>1, <2>2 DEF TypeOK, InstanceRecord
  <2>3. CASE status # "Migrating"
    <3>1. root \in migrated_root[i]
      BY <2>1, <2>3
    <3>2. Kept(i)
      BY <1>2, <2>1, <3>1 DEF TypeOK, InstanceRecord
    <3> QED
      BY <1>1, <3>1, <3>2
  <2> QED
    BY <2>2, <2>3
<1>11. \/ UNCHANGED <<instance, migrated_root>>
       \/ \E j \in Instances, n \in Nodes, replicas \in 0 .. MaxReplicas :
            AllocateInstance(j, n, replicas)
       \/ \E j \in Instances, n \in Nodes : MigrateInstance(j, n)
       \/ \E j \in Instances :
            ActivateInstance(j) \/ DestroyInstance(j) \/ CommitMerkleRoot(j)
       \/ \E j \in Instances, signer \in {"agent", "operator"}, status \in InstanceStatus :
            UpdateInstanceStatus(j, signer, status)
       \/ \E j \in Instances, paid \in 0 .. MaxReplicas : DistributePayment(j, paid)
  BY DEF Next, vars, ClockTick, RegisterNode, UpdateNode, Heartbeat, DeregisterNode,
         ClaimStake, SlashNode, DepositPayment
<1> HIDE DEF Kept
<1> QED
  BY <1>1, <1>3, <1>4, <1>5, <1>6, <1>7, <1>9, <1>10, <1>11

\* An instance that has migrated never commits another Merkle root, whatever
\* instructions follow.
THEOREM MigratedRootIsFrozen == Spec => []MigratedRootFrozen
<1>1. Init => MigratedRootFrozen
  BY DEF Init, MigratedRootFrozen
<1> QED
  BY <1>1, FrozenStep, RegistryTypeCorrect, PTL DEF Spec
=============================================================================
