------------------------ MODULE InstanceManagerProofs ------------------------
(***************************************************************************)
(* The safety properties of InstanceManager, for any instances, ports,     *)
(* cores and limits.  LifeInv adds to them how a row follows its request   *)
(* (StatusFits), that a request's block and cores are its own from the     *)
(* moment it takes them (PortInv, CoreInv), that the requests still        *)
(* without a row are counted (CountInv), and that nothing starts what is   *)
(* being destroyed (DownInv).                                              *)
(***************************************************************************)
EXTENDS InstanceManager, FiniteSetTheorems, WellFoundedInduction, TLAPS

StatusFits(i) ==
    /\ provision[i] \in {"none"} \cup Uninserted => status[i] = "none"
    /\ status[i] = "none" =>
        /\ i \notin destroyed /\ stack[i] = "none"
        /\ \A c \in Callers : destroy[c][i] = "idle"
    /\ provision[i] \in {"inserted"} \cup Finalizing =>
        status[i] = "provisioning" \/ i \in destroyed

\* Requests that were let in and have no row yet.
Pending == {i \in Instances : provision[i] \in Uninserted}

CountInv == Cardinality(Counted) + Cardinality(Pending) <= MaxInstances - 1 + Parallel

Claiming == {"ported", "cored", "written", "inserted"}

Claims(i) ==
    provision[i] \in Claiming => block[i] \in Blocks /\ port_allocations[block[i]] = "unbound"

ClaimsApart ==
    \A i, j \in Instances :
        i # j /\ provision[i] \in Claiming /\ provision[j] \in Claiming => block[i] # block[j]

Bound(i) ==
    faults["crash"] = 0 /\ Live(i) /\ provision[i] \notin Preparing =>
        block[i] \in Blocks /\ (port_allocations[block[i]] = i \/ Marking(i))

PortInv == ClaimsApart /\ \A i \in Instances : Claims(i) /\ Bound(i)

\* The instance has cores which nobody has released.
Pinned(i) ==
    (provision[i] \in {"cored", "written"} \/ Live(i)) /\ cores[i] # NoCores /\ ~Released(i)

Alone(i) ==
    /\ \A c \in Callers : destroy[c][i] # "idle" => Live(i)
    /\ \A c, d \in Callers : destroy[c][i] # "idle" /\ destroy[d][i] # "idle" => c = d

CoreInv ==
    /\ \A i \in Instances : provision[i] \in {"none", "counted", "ported"} => cores[i] = NoCores
    /\ faults["crash"] = 0 /\ faults["overlap"] = 0 =>
        /\ \A i \in Instances : Alone(i) /\ (Pinned(i) => cores[i] \in allocated_cores)
        /\ \A i, j \in Instances : i # j /\ Pinned(i) /\ Pinned(j) => cores[i] # cores[j]

Down(i) ==
    /\ i \in destroyed => provision[i] \notin InFlight /\ stack[i] = "none"
    /\ \A c \in Callers :
        /\ destroy[c][i] # "idle" => provision[i] \notin InFlight
        /\ destroy[c][i] \in {"clean", "free", "mark"} => stack[i] = "none"

DownInv == faults["docker"] = 0 /\ faults["early"] = 0 => \A i \in Instances : Down(i)

LifeInv ==
    /\ TypeOK
    /\ \A i \in Instances : StatusFits(i)
    /\ CountInv
    /\ PortInv
    /\ CoreInv
    /\ DownInv

-----------------------------------------------------------------------------
(* Numbers and faults. *)

\* A set of numbers has its least element.
LEMMA MinIsIn ==
    ASSUME NEW S, S \subseteq Nat, S # {}
    PROVE  Min(S) \in S
<1> DEFINE R == {p \in Nat \X Nat : p[1] < p[2]}
<1>1. IsWellFoundedOn(R, Nat)
  BY NatLessThanWellFounded DEF OpToRel
<1>2. \A n, m \in S : n < m => <<n, m>> \in R
  OBVIOUS
<1> HIDE DEF R
<1>3. PICK m \in S : \A n \in S : <<n, m>> \notin R
  BY <1>1, WFMin
<1>4. \A n \in S : ~(n < m)
  BY <1>2, <1>3, Zenon
<1>5. \A n \in S : m <= n
  BY <1>4
<1> QED
  BY <1>5 DEF Min

\* What allocate_port_block and allocate_cpu_set return was free.
LEMMA Allocated ==
    /\ FreeBlocks # {} => Min(FreeBlocks) \in FreeBlocks
    /\ FreePairs # {} => Min(FreePairs) \in FreePairs
<1>1. FreeBlocks \subseteq Nat /\ FreePairs \subseteq Nat
  BY InstancesAssumption DEF FreeBlocks, FreePairs, Blocks, Pairs
<1> QED
  BY <1>1, MinIsIn

\* A fault is counted.
LEMMA FaultCounted ==
    ASSUME TypeOK, NEW f \in Faults, Fault(f)
    PROVE  /\ faults' \in [Faults -> Nat] /\ faults'[f] > 0
           /\ \A g \in Faults : faults'[g] >= faults[g]
<1>1. faults \in [Faults -> Nat] /\ faults' = [faults EXCEPT ![f] = @ + 1]
  BY DEF TypeOK, Fault
<1> QED
  BY <1>1

\* No fault is forgotten.
Remembered ==
    /\ faults' \in [Faults -> Nat]
    /\ \A g \in Faults : faults'[g] >= faults[g]

LEMMA FaultsRemembered ==
    ASSUME TypeOK, UNCHANGED faults \/ \E f \in Faults : Fault(f)
    PROVE  Remembered
<1>1. CASE UNCHANGED faults
  BY <1>1 DEF TypeOK, Remembered
<1> QED
  BY <1>1, FaultCounted DEF Remembered

\* What a destroy that starts beside something else is counted as.
LEMMA BesideCounted ==
    ASSUME TypeOK, NEW i \in Instances, Beside(i)
    PROVE  /\ Remembered
           /\ Destroying(i) => faults'["overlap"] > 0
           /\ ~Destroying(i) /\ provision[i] \in InFlight => faults'["early"] > 0
<1>1. {"overlap", "early"} \subseteq Faults
  BY DEF Faults
<1>2. CASE Destroying(i)
  BY <1>1, <1>2, FaultCounted DEF Beside, Remembered
<1>3. CASE ~Destroying(i) /\ provision[i] \in InFlight
  BY <1>1, <1>3, FaultCounted DEF Beside, Remembered
<1>4. CASE ~Destroying(i) /\ provision[i] \notin InFlight
  BY <1>4 DEF Beside, Remembered, TypeOK
<1> QED
  BY <1>2, <1>3, <1>4

-----------------------------------------------------------------------------
(* Every step, one by one. *)

\* The actions of Next.
LEMMA Steps ==
    ASSUME [Next]_vars
    PROVE  \/ UNCHANGED vars
           \/ \E i \in Instances : \/ CheckCapacity(i) \/ AllocatePortBlock(i) \/ AllocateCpuSet(i)
                                    \/ WriteFiles(i) \/ InsertInstance(i) \/ BindPort(i)
           \/ \E i \in Instances : ReadRow(i) \/ ComposeUp(i) \/ WaitForHealth(i) \/ UpdateStatus(i)
           \/ \E i \in Instances : OwnerDestroys(i) \/ SweepDestroys(i) \/ Extend(i) \/ Expire(i)
           \/ \E i \in Instances, c \in Callers :
                \/ ComposeDown(c, i) \/ RemoveDirAndCores(c, i)
                \/ FreePortBlock(c, i) \/ MarkDestroyed(c, i)
           \/ CleanupExpired \/ WarmTick \/ Restart
<1> QED
  BY SMTT(30) DEF Next, Prepare, Finalize, DestroyStep

LEMMA TypeStep == TypeOK /\ [Next]_vars => TypeOK'
<1> SUFFICES ASSUME TypeOK, [Next]_vars
             PROVE  TypeOK'
  OBVIOUS
<1> USE DEF TypeOK
<1>0. ASSUME UNCHANGED faults \/ \E f \in Faults : Fault(f)
      PROVE  faults' \in [Faults -> Nat]
  BY <1>0, FaultsRemembered DEF Remembered
<1>1. Min(FreePairs) \in Pairs \/ FreePairs = {}
  BY Allocated DEF FreePairs
<1>2. Min(FreeBlocks) \in Blocks \/ FreeBlocks = {}
  BY Allocated DEF FreeBlocks
<1>3. {"prepare", "docker", "rm", "warm", "leave", "crash"} \subseteq Faults
  BY DEF Faults
<1>4. ASSUME NEW i \in Instances, CheckCapacity(i) \/ InsertInstance(i) \/ BindPort(i)
      PROVE  TypeOK'
  BY <1>4 DEF CheckCapacity, InsertInstance, BindPort, Goto, rows, held, host, InFlight,
              Preparing, Uninserted, Finalizing
<1>5. ASSUME NEW i \in Instances, AllocatePortBlock(i)
      PROVE  TypeOK'
  BY <1>2, <1>5 DEF AllocatePortBlock, Goto, rows, host, InFlight, Preparing, Uninserted
<1>6. ASSUME NEW i \in Instances, AllocateCpuSet(i)
      PROVE  TypeOK'
  BY <1>1, <1>6 DEF AllocateCpuSet, Goto, rows, host, InFlight, Preparing, Uninserted
<1>7. ASSUME NEW i \in Instances, WriteFiles(i)
      PROVE  TypeOK'
  BY <1>0, <1>3, <1>7 DEF WriteFiles, Goto, rows, held, InFlight, Preparing, Uninserted
<1>8. ASSUME NEW i \in Instances, ReadRow(i) \/ WaitForHealth(i) \/ UpdateStatus(i)
      PROVE  TypeOK'
  BY <1>0, <1>3, <1>8 DEF ReadRow, WaitForHealth, UpdateStatus, FinalStatus, Goto, rows, held,
                          host, InFlight, Finalizing, Upping
<1>9. ASSUME NEW i \in Instances, ComposeUp(i)
      PROVE  TypeOK'
  <2>1. AfterFailedUp(provision[i]) \in InFlight
    BY DEF AfterFailedUp, InFlight, Finalizing, Upping
  <2> QED
    BY <1>0, <1>3, <1>9, <2>1 DEF ComposeUp, Goto, rows, held, InFlight, Finalizing
<1>10. ASSUME NEW i \in Instances, OwnerDestroys(i) \/ SweepDestroys(i)
       PROVE  TypeOK'
  <2>1. UNCHANGED faults \/ faults' \in [Faults -> Nat]
    BY <1>10, BesideCounted DEF OwnerDestroys, SweepDestroys, Remembered
  <2> QED
    BY <1>10, <2>1 DEF OwnerDestroys, SweepDestroys, To, Callers, DestroySteps, rows, held, host
<1>11. ASSUME NEW i \in Instances, Extend(i) \/ Expire(i)
       PROVE  TypeOK'
  BY <1>11 DEF Extend, Expire, held, host
<1>12. ASSUME NEW i \in Instances, NEW c \in Callers, ComposeDown(c, i) \/ RemoveDirAndCores(c, i)
       PROVE  TypeOK'
  <2>1. UNCHANGED faults \/ faults' \in [Faults -> Nat]
    BY <1>0, <1>3, <1>12 DEF ComposeDown, RemoveDirAndCores
  <2>2. PICK step \in DestroySteps : To(c, i, step)
    BY <1>12 DEF ComposeDown, RemoveDirAndCores, DestroySteps
  <2>3. destroy' \in [Callers -> [Instances -> DestroySteps]]
    BY <2>2 DEF To
  <2>4. stack' \in [Instances -> {"none", "partial", "up"}]
    BY <1>12 DEF ComposeDown, RemoveDirAndCores
  <2> QED
    BY <1>12, <2>1, <2>3, <2>4 DEF ComposeDown, RemoveDirAndCores, ReleaseCpuSet, rows, held
<1>13. ASSUME NEW i \in Instances, NEW c \in Callers, FreePortBlock(c, i) \/ MarkDestroyed(c, i)
       PROVE  TypeOK'
  BY <1>13 DEF FreePortBlock, MarkDestroyed, Freed, To, DestroySteps, rows, held, host
<1>14. CASE CleanupExpired \/ WarmTick
  BY <1>0, <1>2, <1>3, <1>14 DEF CleanupExpired, WarmTick, ExpiredIds, rows, held, host
<1>15. CASE Restart
  BY <1>0, <1>3, <1>15 DEF Restart, DestroySteps, rows, held, host
<1>16. CASE UNCHANGED vars
  BY <1>16 DEF vars
<1> QED
  BY <1>4, <1>5, <1>6, <1>7, <1>8, <1>9, <1>10, <1>11, <1>12, <1>13, <1>14, <1>15, <1>16, Steps

-----------------------------------------------------------------------------
(* How a row follows its request. *)

LEMMA StatusStep ==
    ASSUME TypeOK, \A i \in Instances : StatusFits(i), [Next]_vars
    PROVE  \A i \in Instances : StatusFits(i)'
<1> USE DEF TypeOK, StatusFits, Uninserted, Finalizing, Upping
<1>1. ASSUME NEW i \in Instances, CheckCapacity(i) \/ AllocatePortBlock(i) \/ AllocateCpuSet(i)
      PROVE  \A j \in Instances : StatusFits(j)'
  BY <1>1 DEF CheckCapacity, AllocatePortBlock, AllocateCpuSet, Goto, rows, host
<1>2. ASSUME NEW i \in Instances, WriteFiles(i) \/ InsertInstance(i) \/ BindPort(i)
      PROVE  \A j \in Instances : StatusFits(j)'
  BY <1>2 DEF WriteFiles, InsertInstance, BindPort, Goto, rows, host
<1>3. ASSUME NEW i \in Instances, ReadRow(i) \/ WaitForHealth(i)
      PROVE  \A j \in Instances : StatusFits(j)'
  BY <1>3 DEF ReadRow, WaitForHealth, Goto, rows, host
<1>4. ASSUME NEW i \in Instances, ComposeUp(i)
      PROVE  \A j \in Instances : StatusFits(j)'
  <2>1. AfterFailedUp(provision[i]) \in Finalizing
    BY DEF AfterFailedUp
  <2>2. provision[i] \in Finalizing /\ status[i] # "none"
    BY <1>4 DEF ComposeUp
  <2>3. \E place \in Finalizing \cup {"over"} : Goto(i, place)
    BY <1>4, <2>1 DEF ComposeUp
  <2> QED
    BY <1>4, <2>2, <2>3 DEF ComposeUp, Goto, rows
<1>5. ASSUME NEW i \in Instances, UpdateStatus(i)
      PROVE  \A j \in Instances : StatusFits(j)'
  BY <1>5 DEF UpdateStatus, FinalStatus, Goto, host
<1>6. ASSUME NEW i \in Instances, OwnerDestroys(i) \/ SweepDestroys(i)
      PROVE  \A j \in Instances : StatusFits(j)'
  BY <1>6 DEF OwnerDestroys, SweepDestroys, Live, To, Callers, rows, host
<1>7. ASSUME NEW i \in Instances, NEW c \in Callers, ComposeDown(c, i) \/ RemoveDirAndCores(c, i)
      PROVE  \A j \in Instances : StatusFits(j)'
  <2>1. destroy[c][i] # "idle"
    BY <1>7 DEF ComposeDown, RemoveDirAndCores
  <2>2. status[i] # "none"
    BY <2>1
  <2>3. /\ \A j \in Instances \ {i} : stack'[j] = stack[j]
        /\ \A j \in Instances \ {i}, d \in Callers : destroy'[d][j] = destroy[d][j]
        /\ UNCHANGED <<status, destroyed, provision>>
    BY <1>7 DEF ComposeDown, RemoveDirAndCores, To, rows
  <2> QED
    BY <2>2, <2>3
<1>8. ASSUME NEW i \in Instances, NEW c \in Callers, FreePortBlock(c, i) \/ MarkDestroyed(c, i)
      PROVE  \A j \in Instances : StatusFits(j)'
  <2>1. destroy[c][i] # "idle"
    BY <1>8 DEF FreePortBlock, MarkDestroyed
  <2>2. status[i] # "none" /\ provision[i] \notin {"none"} \cup Uninserted
    BY <2>1
  <2>3. /\ \A j \in Instances \ {i}, d \in Callers : destroy'[d][j] = destroy[d][j]
        /\ UNCHANGED <<stack, provision>>
    BY <1>8 DEF FreePortBlock, MarkDestroyed, To, host
  <2>4. \/ UNCHANGED <<status, destroyed>>
        \/ status' = [status EXCEPT ![i] = "destroyed"] /\ destroyed' = destroyed \cup {i}
    BY <1>8 DEF FreePortBlock, MarkDestroyed, rows
  <2>5. \A j \in Instances \ {i} : StatusFits(j)'
    BY <2>3, <2>4
  <2>6. StatusFits(i)'
    BY <2>2, <2>3, <2>4
  <2> QED
    BY <2>5, <2>6
<1>9. ASSUME NEW i \in Instances, Extend(i) \/ Expire(i)
      PROVE  \A j \in Instances : StatusFits(j)'
  BY <1>9 DEF Extend, Expire, host
<1>10. CASE CleanupExpired \/ WarmTick \/ UNCHANGED vars
  BY <1>10 DEF CleanupExpired, WarmTick, rows, host, vars
<1>11. CASE Restart
  BY <1>11 DEF Restart, rows, host, InFlight, Preparing
<1> QED
  BY <1>1, <1>2, <1>3, <1>4, <1>5, <1>6, <1>7, <1>8, <1>9, <1>10, <1>11, Steps

-----------------------------------------------------------------------------
(* How many instances are running or on their way. *)

LEMMA OneMore ==
    ASSUME NEW S, IsFiniteSet(S), NEW x
    PROVE  Cardinality(S \cup {x}) \in Nat /\ Cardinality(S \cup {x}) <= Cardinality(S) + 1
<1>1. IsFiniteSet(S \cup {x})
  BY FS_AddElement
<1>2. Cardinality(S) \in Nat /\ Cardinality(S \cup {x}) \in Nat
  BY <1>1, FS_CardinalityType
<1>3. Cardinality(S \cup {x}) = IF x \in S THEN Cardinality(S) ELSE Cardinality(S) + 1
  BY FS_AddElement
<1> QED
  BY <1>2, <1>3

LEMMA CountStep ==
    ASSUME TypeOK, \A i \in Instances : StatusFits(i), CountInv, [Next]_vars
    PROVE  CountInv'
<1> USE DEF TypeOK, StatusFits, Uninserted, Finalizing, Upping
<1>1. /\ IsFiniteSet(Counted) /\ Cardinality(Counted) \in Nat
      /\ IsFiniteSet(Pending) /\ Cardinality(Pending) \in Nat
  BY InstancesAssumption, FS_Subset, FS_CardinalityType DEF Counted, Pending
<1>2. MaxInstances \in Nat /\ Parallel \in Nat
  BY InstancesAssumption
<1>3. ASSUME Counted' \subseteq Counted, Pending' \subseteq Pending
      PROVE  CountInv'
  <2>1. Cardinality(Counted') \in Nat /\ Cardinality(Counted') <= Cardinality(Counted)
    BY <1>1, <1>3, FS_Subset, FS_CardinalityType
  <2>2. Cardinality(Pending') \in Nat /\ Cardinality(Pending') <= Cardinality(Pending)
    BY <1>1, <1>3, FS_Subset, FS_CardinalityType
  <2> QED
    BY <1>1, <1>2, <2>1, <2>2 DEF CountInv
<1>4. ASSUME NEW i \in Instances, CheckCapacity(i)
      PROVE  CountInv'
  <2> DEFINE Admitted == {j \in Instances : provision[j] \in Preparing}
  <2>1. Counted' = Counted /\ Pending' = Pending \cup {i}
    BY <1>4 DEF CheckCapacity, Counted, Pending, Goto, rows
  <2>2. Cardinality(Counted') < MaxInstances
    BY <1>4, <2>1 DEF CheckCapacity
  <2>3. Cardinality(Pending) <= Cardinality(Admitted) /\ Cardinality(Admitted) \in Nat
    <3>1. IsFiniteSet(Admitted) /\ Pending \subseteq Admitted
      BY InstancesAssumption, FS_Subset DEF Pending, Preparing
    <3> QED
      BY <3>1, FS_Subset, FS_CardinalityType
  <2>4. Cardinality(Admitted) < Parallel
    BY <1>4 DEF CheckCapacity
  <2>5. Cardinality(Pending') <= Cardinality(Pending) + 1 /\ Cardinality(Pending') \in Nat
    BY <1>1, <2>1, OneMore
  <2> HIDE DEF Admitted
  <2> QED
    BY <1>1, <1>2, <2>1, <2>2, <2>3, <2>4, <2>5 DEF CountInv
<1>5. ASSUME NEW i \in Instances, InsertInstance(i)
      PROVE  CountInv'
  <2>1. i \in Pending /\ Pending' = Pending \ {i}
    BY <1>5 DEF InsertInstance, Pending, Goto
  <2>2. Counted' = Counted \cup {i}
    BY <1>5 DEF InsertInstance, Counted
  <2>3. Cardinality(Pending') = Cardinality(Pending) - 1
    BY <1>1, <2>1, FS_RemoveElement
  <2>4. Cardinality(Counted') <= Cardinality(Counted) + 1 /\ Cardinality(Counted') \in Nat
    BY <1>1, <2>2, OneMore
  <2> QED
    BY <1>1, <1>2, <2>3, <2>4 DEF CountInv
<1>6. ASSUME NEW i \in Instances, \/ AllocatePortBlock(i) \/ AllocateCpuSet(i)
                                  \/ WriteFiles(i) \/ BindPort(i)
      PROVE  CountInv'
  <2>1. UNCHANGED <<status, destroyed>>
    BY <1>6 DEF AllocatePortBlock, AllocateCpuSet, WriteFiles, BindPort, rows
  <2>2. provision[i] \in Uninserted \/ \E place \in {"spawned"} : Goto(i, place)
    BY <1>6 DEF AllocatePortBlock, AllocateCpuSet, WriteFiles, BindPort
  <2>3. \E place \in InFlight \cup {"over"} : Goto(i, place)
    BY <1>6 DEF AllocatePortBlock, AllocateCpuSet, WriteFiles, BindPort, InFlight, Preparing
  <2> QED
    BY <1>3, <2>1, <2>2, <2>3 DEF Counted, Pending, Goto
<1>7. ASSUME NEW i \in Instances, ReadRow(i) \/ WaitForHealth(i) \/ UpdateStatus(i)
      PROVE  CountInv'
  <2>1. Pending' \subseteq Pending
    BY <1>7 DEF ReadRow, WaitForHealth, UpdateStatus, Pending, Goto
  <2>2. Counted' \subseteq Counted
    BY <1>7 DEF ReadRow, WaitForHealth, UpdateStatus, Counted, rows
  <2> QED
    BY <1>3, <2>1, <2>2
<1>8. ASSUME NEW i \in Instances, ComposeUp(i)
      PROVE  CountInv'
  <2>1. AfterFailedUp(provision[i]) \in Finalizing
    BY DEF AfterFailedUp
  <2>2. \E place \in Finalizing \cup {"over"} : Goto(i, place)
    BY <1>8, <2>1 DEF ComposeUp
  <2>3. Pending' \subseteq Pending
    BY <2>2 DEF Pending, Goto
  <2>4. Counted' \subseteq Counted
    BY <1>8 DEF ComposeUp, Counted, rows
  <2> QED
    BY <1>3, <2>3, <2>4
<1>9. ASSUME NEW i \in Instances, OwnerDestroys(i) \/ SweepDestroys(i) \/ Extend(i) \/ Expire(i)
      PROVE  CountInv'
  <2>1. UNCHANGED <<status, destroyed, provision>>
    BY <1>9 DEF OwnerDestroys, SweepDestroys, Extend, Expire, rows
  <2> QED
    BY <1>3, <2>1 DEF Counted, Pending
<1>10. ASSUME NEW i \in Instances, NEW c \in Callers,
              \/ ComposeDown(c, i) \/ RemoveDirAndCores(c, i)
              \/ FreePortBlock(c, i) \/ MarkDestroyed(c, i)
       PROVE  CountInv'
  <2>1. UNCHANGED provision
    BY <1>10 DEF ComposeDown, RemoveDirAndCores, FreePortBlock, MarkDestroyed
  <2>2. \/ UNCHANGED <<status, destroyed>>
        \/ status' = [status EXCEPT ![i] = "destroyed"] /\ destroyed' = destroyed \cup {i}
    BY <1>10 DEF ComposeDown, RemoveDirAndCores, FreePortBlock, MarkDestroyed, rows
  <2> QED
    BY <1>3, <2>1, <2>2 DEF Counted, Pending
<1>11. CASE CleanupExpired \/ WarmTick \/ UNCHANGED vars
  BY <1>3, <1>11 DEF CleanupExpired, WarmTick, rows, vars, Counted, Pending
<1>12. CASE Restart
  BY <1>3, <1>12 DEF Restart, rows, Counted, Pending
<1> QED
  BY <1>4, <1>5, <1>6, <1>7, <1>8, <1>9, <1>10, <1>11, <1>12, Steps

-----------------------------------------------------------------------------
(* Who has which port block. *)

LEMMA NamesApart == \A i \in Instances : i # "free" /\ i # "unbound"
<1> QED
  BY InstancesAssumption

\* What counts no fault, or one.
LEMMA EachRemembers ==
    ASSUME TypeOK, [Next]_vars
    PROVE  Remembered
<1>1. {"prepare", "docker", "rm", "warm", "leave", "crash"} \subseteq Faults
  BY DEF Faults
<1>2. ASSUME NEW i \in Instances, \/ CheckCapacity(i) \/ AllocatePortBlock(i) \/ AllocateCpuSet(i)
                                  \/ WriteFiles(i) \/ InsertInstance(i) \/ BindPort(i)
      PROVE  UNCHANGED faults \/ \E f \in Faults : Fault(f)
  BY <1>1, <1>2 DEF CheckCapacity, AllocatePortBlock, AllocateCpuSet, WriteFiles, InsertInstance,
                    BindPort
<1>3. ASSUME NEW i \in Instances, ReadRow(i) \/ ComposeUp(i) \/ WaitForHealth(i) \/ UpdateStatus(i)
      PROVE  UNCHANGED faults \/ \E f \in Faults : Fault(f)
  BY <1>1, <1>3 DEF ReadRow, ComposeUp, WaitForHealth, UpdateStatus
<1>4. ASSUME NEW i \in Instances, OwnerDestroys(i) \/ SweepDestroys(i) \/ Extend(i) \/ Expire(i)
      PROVE  UNCHANGED faults \/ Beside(i)
  BY <1>4 DEF OwnerDestroys, SweepDestroys, Extend, Expire
<1>5. ASSUME NEW i \in Instances, NEW c \in Callers,
             \/ ComposeDown(c, i) \/ RemoveDirAndCores(c, i)
             \/ FreePortBlock(c, i) \/ MarkDestroyed(c, i)
      PROVE  UNCHANGED faults \/ \E f \in Faults : Fault(f)
  BY <1>1, <1>5 DEF ComposeDown, RemoveDirAndCores, FreePortBlock, MarkDestroyed
<1>6. ASSUME CleanupExpired \/ WarmTick \/ Restart \/ UNCHANGED vars
      PROVE  UNCHANGED faults \/ \E f \in Faults : Fault(f)
  BY <1>1, <1>6 DEF CleanupExpired, WarmTick, Restart, vars
<1> QED
  BY <1>2, <1>3, <1>4, <1>5, <1>6, Steps, FaultsRemembered, BesideCounted

\* Steps that leave the blocks where they are.
LEMMA PortsKept ==
    ASSUME TypeOK, PortInv, Remembered, UNCHANGED <<block, port_allocations>>,
           \A j \in Instances : provision'[j] \in Claiming => provision[j] \in Claiming,
           \A j \in Instances :
               Live(j)' /\ provision'[j] \notin Preparing =>
                   Live(j) /\ provision[j] \notin Preparing /\ (Marking(j) => Marking(j)')
    PROVE  PortInv'
<1>1. faults'["crash"] = 0 => faults["crash"] = 0
  BY DEF TypeOK, Remembered, Faults
<1>2. ClaimsApart' /\ \A j \in Instances : Claims(j)'
  BY DEF PortInv, ClaimsApart, Claims
<1>3. \A j \in Instances : Bound(j)'
  BY <1>1 DEF PortInv, Bound
<1> QED
  BY <1>2, <1>3 DEF PortInv

LEMMA PortStep ==
    ASSUME TypeOK, \A i \in Instances : StatusFits(i), PortInv, [Next]_vars
    PROVE  PortInv'
<1>0. Remembered
  BY EachRemembers
<1>1. faults'["crash"] = 0 => faults["crash"] = 0
  BY <1>0 DEF TypeOK, Remembered, Faults
<1> USE DEF TypeOK, StatusFits, Uninserted, Finalizing, Upping, Preparing, Claiming
<1>2. ASSUME NEW i \in Instances, \/ CheckCapacity(i) \/ AllocateCpuSet(i)
                                  \/ WriteFiles(i) \/ InsertInstance(i)
      PROVE  PortInv'
  <2>1. \E place \in Preparing \cup {"over"} :
          /\ Goto(i, place)
          /\ place \in Claiming => provision[i] \in Claiming
    BY <1>2 DEF CheckCapacity, AllocateCpuSet, WriteFiles, InsertInstance
  <2>2. UNCHANGED <<block, port_allocations, destroyed, destroy>>
    BY <1>2 DEF CheckCapacity, AllocateCpuSet, WriteFiles, InsertInstance, held, rows
  <2>3. /\ \A j \in Instances \ {i} : status'[j] = status[j]
        /\ status'[i] = "none" \/ provision'[i] \in Preparing
    BY <1>2 DEF CheckCapacity, AllocateCpuSet, WriteFiles, InsertInstance, Goto, rows
  <2> QED
    BY <1>0, <2>1, <2>2, <2>3, PortsKept DEF Goto, Live, Marking
<1>3. ASSUME NEW i \in Instances, AllocatePortBlock(i)
      PROVE  PortInv'
  <2>1. CASE FreeBlocks = {}
    <3>1. Goto(i, "over") /\ UNCHANGED <<block, port_allocations, status, destroyed, destroy>>
      BY <1>3, <2>1 DEF AllocatePortBlock, rows
    <3>2. status[i] = "none"
      BY <1>3 DEF AllocatePortBlock
    <3> QED
      BY <1>0, <3>1, <3>2, PortsKept DEF Goto, Live, Marking
  <2>2. CASE FreeBlocks # {}
    <3> DEFINE b == Min(FreeBlocks)
    <3>1. b \in Blocks /\ port_allocations[b] = "free"
      BY <2>2, Allocated DEF FreeBlocks
    <3>2. /\ block' = [block EXCEPT ![i] = b] /\ Goto(i, "ported")
          /\ port_allocations' = [port_allocations EXCEPT ![b] = "unbound"]
          /\ UNCHANGED <<status, destroyed, destroy, faults>>
      BY <1>3, <2>2, <3>1 DEF AllocatePortBlock, rows
    <3> HIDE DEF b
    <3>3. \A j \in Instances : provision[j] \in Claiming => block[j] # b
      BY <3>1 DEF PortInv, Claims
    <3>4. ClaimsApart' /\ \A j \in Instances : Claims(j)'
      BY <3>1, <3>2, <3>3 DEF PortInv, ClaimsApart, Claims, Goto
    <3>5. \A j \in Instances : Bound(j)'
      BY <3>1, <3>2, NamesApart DEF PortInv, Bound, Live, Marking, Goto
    <3> QED
      BY <3>4, <3>5 DEF PortInv
  <2> QED
    BY <2>1, <2>2
<1>4. ASSUME NEW i \in Instances, BindPort(i)
      PROVE  PortInv'
  <2>1. /\ port_allocations' = [port_allocations EXCEPT ![block[i]] = i]
        /\ Goto(i, "spawned") /\ provision[i] = "inserted"
        /\ UNCHANGED <<block, status, destroyed, destroy, faults>>
    BY <1>4 DEF BindPort, rows
  <2>2. block[i] \in Blocks /\ port_allocations[block[i]] = "unbound"
    BY <2>1 DEF PortInv, Claims
  <2>3. \A j \in Instances : j # i /\ provision[j] \in Claiming => block[j] # block[i]
    BY <2>1 DEF PortInv, ClaimsApart
  <2>4. ClaimsApart' /\ \A j \in Instances : Claims(j)'
    BY <2>1, <2>2, <2>3 DEF PortInv, ClaimsApart, Claims, Goto
  <2>5. \A j \in Instances : Bound(j)'
    BY <2>1, <2>2, NamesApart DEF PortInv, Bound, Live, Marking, Goto
  <2> QED
    BY <2>4, <2>5 DEF PortInv
<1>5. ASSUME NEW i \in Instances, ReadRow(i) \/ ComposeUp(i) \/ WaitForHealth(i) \/ UpdateStatus(i)
      PROVE  PortInv'
  <2>1. AfterFailedUp(provision[i]) \in Finalizing
    BY DEF AfterFailedUp
  <2>2. provision[i] \in Finalizing /\ \E place \in Finalizing \cup {"over"} : Goto(i, place)
    BY <1>5, <2>1 DEF ReadRow, ComposeUp, WaitForHealth, UpdateStatus
  <2>3. /\ UNCHANGED <<block, port_allocations, destroyed, destroy>>
        /\ \A j \in Instances \ {i} : status'[j] = status[j]
    BY <1>5 DEF ReadRow, ComposeUp, WaitForHealth, UpdateStatus, held, rows
  <2>4. status[i] # "none"
    BY <2>2
  <2> QED
    BY <1>0, <2>2, <2>3, <2>4, PortsKept DEF Goto, Live, Marking
<1>6. ASSUME NEW i \in Instances, OwnerDestroys(i) \/ SweepDestroys(i) \/ Extend(i) \/ Expire(i)
      PROVE  PortInv'
  <2>1. UNCHANGED <<block, port_allocations, provision, status, destroyed>>
    BY <1>6 DEF OwnerDestroys, SweepDestroys, Extend, Expire, held, rows
  <2>2. UNCHANGED destroy \/ \E c \in Callers : destroy[c][i] = "idle" /\ To(c, i, "down")
    BY <1>6 DEF OwnerDestroys, SweepDestroys, Extend, Expire, Callers
  <2>3. \A j \in Instances : Marking(j) => Marking(j)'
    BY <2>2 DEF Marking, To
  <2> QED
    BY <1>0, <2>1, <2>3, PortsKept DEF Live
<1>7. ASSUME NEW i \in Instances, NEW c \in Callers, ComposeDown(c, i) \/ RemoveDirAndCores(c, i)
      PROVE  PortInv'
  <2>1. UNCHANGED <<block, port_allocations, provision, status, destroyed>>
    BY <1>7 DEF ComposeDown, RemoveDirAndCores, held, rows
  <2>2. destroy[c][i] # "mark" /\ \E step \in DestroySteps : To(c, i, step)
    BY <1>7 DEF ComposeDown, RemoveDirAndCores, DestroySteps
  <2>3. \A j \in Instances : Marking(j) => Marking(j)'
    BY <2>2 DEF Marking, To
  <2> QED
    BY <1>0, <2>1, <2>3, PortsKept DEF Live
<1>8. ASSUME NEW i \in Instances, NEW c \in Callers, FreePortBlock(c, i)
      PROVE  PortInv'
  <2>1. /\ port_allocations' = Freed(i) /\ To(c, i, "mark")
        /\ UNCHANGED <<block, provision, status, destroyed, faults>>
    BY <1>8 DEF FreePortBlock, rows
  <2>2. Marking(i)' /\ \A j \in Instances : Marking(j) => Marking(j)'
    BY <2>1 DEF Marking, To
  <2>3. \A b \in Blocks : port_allocations'[b] = IF port_allocations[b] = i THEN "free"
                                                                       ELSE port_allocations[b]
    BY <2>1 DEF Freed
  <2>4. ClaimsApart' /\ \A j \in Instances : Claims(j)'
    BY <2>1, <2>3, NamesApart DEF PortInv, ClaimsApart, Claims
  <2>5. \A j \in Instances : Bound(j)'
    BY <2>1, <2>2, <2>3, NamesApart DEF PortInv, Bound, Live
  <2> QED
    BY <2>4, <2>5 DEF PortInv
<1>9. ASSUME NEW i \in Instances, NEW c \in Callers, MarkDestroyed(c, i)
      PROVE  PortInv'
  <2>1. /\ UNCHANGED <<block, port_allocations, provision>>
        /\ status' = [status EXCEPT ![i] = "destroyed"] /\ destroyed' = destroyed \cup {i}
        /\ To(c, i, "idle")
    BY <1>9 DEF MarkDestroyed, held
  <2>2. \A j \in Instances \ {i} : Marking(j) => Marking(j)'
    BY <2>1 DEF Marking, To
  <2> QED
    BY <1>0, <2>1, <2>2, PortsKept DEF Live
<1>10. CASE CleanupExpired \/ UNCHANGED vars
  BY <1>0, <1>10, PortsKept DEF CleanupExpired, vars, rows, held, Live, Marking
<1>11. CASE WarmTick
  <2> DEFINE b == Min(FreeBlocks)
  <2>1. b \in Blocks /\ port_allocations[b] = "free"
    BY <1>11, Allocated DEF WarmTick, FreeBlocks
  <2>2. /\ port_allocations' = [port_allocations EXCEPT ![b] = "unbound"]
        /\ UNCHANGED <<block, provision, status, destroyed, destroy>>
    BY <1>11 DEF WarmTick, rows
  <2> HIDE DEF b
  <2>3. ClaimsApart' /\ \A j \in Instances : Claims(j)'
    BY <2>1, <2>2 DEF PortInv, ClaimsApart, Claims
  <2>4. \A j \in Instances : Bound(j)'
    BY <1>1, <2>1, <2>2, NamesApart DEF PortInv, Bound, Live, Marking
  <2> QED
    BY <2>3, <2>4 DEF PortInv
<1>12. CASE Restart
  <2>1. faults'["crash"] > 0
    BY <1>12, FaultCounted DEF Restart, Faults
  <2>2. \A j \in Instances : provision'[j] \notin Claiming
    BY <1>12 DEF Restart, InFlight
  <2> QED
    BY <2>1, <2>2 DEF PortInv, ClaimsApart, Claims, Bound
<1> QED
  BY <1>2, <1>3, <1>4, <1>5, <1>6, <1>7, <1>8, <1>9, <1>10, <1>11, <1>12, Steps

-----------------------------------------------------------------------------
(* Who has which cores. *)

Unpinned == {"none", "counted", "ported"}

\* Steps that leave the cores where they are.
LEMMA CoresKept ==
    ASSUME TypeOK, CoreInv, Remembered, UNCHANGED <<cores, allocated_cores>>,
           \A j \in Instances : provision'[j] \in Unpinned => provision[j] \in Unpinned,
           faults'["crash"] = 0 /\ faults'["overlap"] = 0 =>
               \A j \in Instances : Alone(j)' /\ (Pinned(j)' => Pinned(j))
    PROVE  CoreInv'
<1>1. faults'["crash"] = 0 /\ faults'["overlap"] = 0 => faults["crash"] = 0 /\ faults["overlap"] = 0
  BY DEF TypeOK, Remembered, Faults
<1>2. \A j \in Instances : provision'[j] \in Unpinned => cores'[j] = NoCores
  BY DEF CoreInv, Unpinned
<1>3. ASSUME faults'["crash"] = 0 /\ faults'["overlap"] = 0
      PROVE  /\ \A j \in Instances : Alone(j)' /\ (Pinned(j)' => cores'[j] \in allocated_cores')
             /\ \A j, k \in Instances : j # k /\ Pinned(j)' /\ Pinned(k)' => cores'[j] # cores'[k]
  BY <1>1, <1>3 DEF CoreInv
<1> QED
  BY <1>2, <1>3 DEF CoreInv, Unpinned

LEMMA CoreStep ==
    ASSUME TypeOK, \A i \in Instances : StatusFits(i), CoreInv, [Next]_vars
    PROVE  CoreInv'
<1>0. Remembered
  BY EachRemembers
<1>1. faults'["crash"] = 0 /\ faults'["overlap"] = 0 => faults["crash"] = 0 /\ faults["overlap"] = 0
  BY <1>0 DEF TypeOK, Remembered, Faults
<1>2. ASSUME faults'["crash"] = 0 /\ faults'["overlap"] = 0
      PROVE  /\ \A j \in Instances : Alone(j) /\ (Pinned(j) => cores[j] \in allocated_cores)
             /\ \A j, k \in Instances : j # k /\ Pinned(j) /\ Pinned(k) => cores[j] # cores[k]
  BY <1>1, <1>2 DEF CoreInv
<1> USE DEF TypeOK, StatusFits, Uninserted, Finalizing, Upping, Unpinned
<1>3. ASSUME NEW i \in Instances, CheckCapacity(i) \/ AllocatePortBlock(i)
      PROVE  CoreInv'
  <2>1. /\ UNCHANGED <<cores, allocated_cores, destroyed, destroy, status>>
        /\ \E place \in {"counted", "ported", "over"} : Goto(i, place)
        /\ provision[i] \in Unpinned
    BY <1>3 DEF CheckCapacity, AllocatePortBlock, held, rows
  <2>2. \A j \in Instances : (Alone(j) => Alone(j)') /\ (Pinned(j)' => Pinned(j))
    BY <2>1 DEF Goto, Alone, Pinned, Live, Released
  <2> QED
    BY <1>0, <1>2, <2>1, <2>2, CoresKept DEF Goto
<1>4. ASSUME NEW i \in Instances, AllocateCpuSet(i)
      PROVE  CoreInv'
  <2>1. /\ provision[i] = "ported" /\ Goto(i, "cored") /\ UNCHANGED <<status, destroyed, destroy>>
        /\ cores[i] = NoCores
    BY <1>4 DEF AllocateCpuSet, rows, CoreInv
  <2>2. \A j \in Instances : /\ Alone(j) => Alone(j)'
                             /\ j # i /\ cores'[j] = cores[j] /\ Pinned(j)' => Pinned(j)
    BY <2>1 DEF Goto, Alone, Pinned, Live, Released
  <2>3. CASE FreePairs = {}
    <3>1. UNCHANGED <<cores, allocated_cores>>
      BY <1>4, <2>3 DEF AllocateCpuSet
    <3>2. ~Pinned(i)'
      BY <2>1, <3>1 DEF Pinned
    <3> QED
      BY <1>0, <1>2, <2>1, <2>2, <3>1, <3>2, CoresKept DEF Goto
  <2>4. CASE FreePairs # {}
    <3> DEFINE p == Min(FreePairs)
    <3>1. p \in Pairs /\ p \notin allocated_cores
      BY <2>4, Allocated DEF FreePairs
    <3>2. cores' = [cores EXCEPT ![i] = p] /\ allocated_cores' = allocated_cores \cup {p}
      BY <1>4, <2>4, <3>1 DEF AllocateCpuSet
    <3> HIDE DEF p
    <3>3. \A j \in Instances \ {i} : cores'[j] = cores[j] /\ (Pinned(j)' => Pinned(j))
      BY <2>2, <3>2
    <3>4. cores'[i] = p
      BY <3>2
    <3>5. \A j \in Instances : provision'[j] \in Unpinned => cores'[j] = NoCores
      BY <2>1, <3>3 DEF CoreInv, Goto
    <3>6. ASSUME faults'["crash"] = 0 /\ faults'["overlap"] = 0
          PROVE  /\ \A j \in Instances : Alone(j)' /\ (Pinned(j)' => cores'[j] \in allocated_cores')
                 /\ \A j, k \in Instances : j # k /\ Pinned(j)' /\ Pinned(k)' => cores'[j] # cores'[k]
      <4>1. \A j \in Instances : Alone(j)'
        BY <1>2, <2>2, <3>6
      <4>2. \A j \in Instances \ {i} : Pinned(j)' => cores'[j] \in allocated_cores
        BY <1>2, <3>3, <3>6
      <4>3. \A j, k \in Instances \ {i} : j # k /\ Pinned(j)' /\ Pinned(k)' => cores'[j] # cores'[k]
        BY <1>2, <3>3, <3>6
      <4> QED
        BY <3>1, <3>2, <3>4, <4>1, <4>2, <4>3
    <3> QED
      BY <3>5, <3>6 DEF CoreInv
  <2> QED
    BY <2>3, <2>4
<1>5. ASSUME NEW i \in Instances, WriteFiles(i) \/ InsertInstance(i) \/ BindPort(i)
      PROVE  CoreInv'
  <2>1. /\ UNCHANGED <<cores, allocated_cores, destroyed, destroy>>
        /\ \A j \in Instances \ {i} : status'[j] = status[j]
    BY <1>5 DEF WriteFiles, InsertInstance, BindPort, held, rows
  <2>2. \/ /\ provision[i] = "cored" /\ UNCHANGED status
           /\ Goto(i, "written") \/ Goto(i, "over")
        \/ /\ provision[i] = "written" /\ status'[i] = "provisioning"
           /\ Goto(i, "inserted")
        \/ provision[i] = "inserted" /\ UNCHANGED status /\ Goto(i, "spawned")
    BY <1>5 DEF WriteFiles, InsertInstance, BindPort, rows
  <2>3. \A j \in Instances : Live(j) => Live(j)'
    BY <2>1, <2>2 DEF Live
  <2>4. \A j \in Instances : Alone(j) => Alone(j)'
    BY <2>1, <2>3 DEF Alone
  <2>5. \A j \in Instances \ {i} : Pinned(j)' => Pinned(j)
    BY <2>1, <2>2 DEF Pinned, Live, Released, Goto
  <2>6. Pinned(i)' => Pinned(i)
    BY <2>1, <2>2 DEF Pinned, Live, Released, Goto
  <2>7. \A j \in Instances : provision'[j] \in Unpinned => provision[j] \in Unpinned
    BY <2>2 DEF Goto
  <2> QED
    BY <1>0, <1>2, <2>1, <2>4, <2>5, <2>6, <2>7, CoresKept
<1>6. ASSUME NEW i \in Instances, ReadRow(i) \/ ComposeUp(i) \/ WaitForHealth(i) \/ UpdateStatus(i)
      PROVE  CoreInv'
  <2>1. AfterFailedUp(provision[i]) \in Finalizing
    BY DEF AfterFailedUp
  <2>2. provision[i] \in Finalizing /\ \E place \in Finalizing \cup {"over"} : Goto(i, place)
    BY <1>6, <2>1 DEF ReadRow, ComposeUp, WaitForHealth, UpdateStatus
  <2>3. /\ UNCHANGED <<cores, allocated_cores, destroyed, destroy>>
        /\ \A j \in Instances \ {i} : status'[j] = status[j]
    BY <1>6 DEF ReadRow, ComposeUp, WaitForHealth, UpdateStatus, held, rows
  <2>4. status[i] # "none" /\ status'[i] # "none"
    BY <1>6, <2>2 DEF ReadRow, ComposeUp, WaitForHealth, UpdateStatus, FinalStatus, rows
  <2>5. \A j \in Instances : Live(j)' <=> Live(j)
    BY <2>3, <2>4 DEF Live
  <2>6. \A j \in Instances : provision'[j] \in {"cored", "written"} \cup Unpinned =>
                                 provision[j] = provision'[j]
    BY <2>2 DEF Goto
  <2>7. \A j \in Instances : (Alone(j) => Alone(j)') /\ (Pinned(j)' => Pinned(j))
    BY <2>3, <2>5, <2>6 DEF Alone, Pinned, Released
  <2> QED
    BY <1>0, <1>2, <2>3, <2>6, <2>7, CoresKept
<1>7. ASSUME NEW i \in Instances, OwnerDestroys(i) \/ SweepDestroys(i)
      PROVE  CoreInv'
  <2>1. UNCHANGED <<cores, allocated_cores, provision, status, destroyed>>
    BY <1>7 DEF OwnerDestroys, SweepDestroys, held, rows
  <2>2. \/ UNCHANGED destroy
        \/ \E c \in Callers : destroy[c][i] = "idle" /\ Live(i) /\ Beside(i) /\ To(c, i, "down")
    BY <1>7 DEF OwnerDestroys, SweepDestroys, Callers
  <2>3. \A j \in Instances : Live(j)' <=> Live(j)
    BY <2>1 DEF Live
  <2>4. CASE UNCHANGED destroy
    <3>1. \A j \in Instances : (Alone(j) => Alone(j)') /\ (Pinned(j)' => Pinned(j))
      BY <2>1, <2>3, <2>4 DEF Alone, Pinned, Released
    <3> QED
      BY <1>0, <1>2, <2>1, <3>1, CoresKept
  <2>5. ASSUME NEW c \in Callers, destroy[c][i] = "idle", Live(i), Beside(i), To(c, i, "down")
        PROVE  CoreInv'
    <3>1. faults'["crash"] = 0 /\ faults'["overlap"] = 0 => ~Destroying(i)
      BY <2>5, BesideCounted
    <3>2. \A j \in Instances : Pinned(j)' => Pinned(j)
      BY <2>1, <2>3, <2>5 DEF Pinned, Released, To
    <3>3. \A j \in Instances \ {i} : Alone(j) => Alone(j)'
      BY <2>3, <2>5 DEF Alone, To
    <3>4. ~Destroying(i) => Alone(i)'
      BY <2>3, <2>5 DEF Alone, Destroying, To
    <3> QED
      BY <1>0, <1>2, <2>1, <3>1, <3>2, <3>3, <3>4, CoresKept
  <2> QED
    BY <2>2, <2>4, <2>5
<1>8. ASSUME NEW i \in Instances, NEW c \in Callers, ComposeDown(c, i) \/ FreePortBlock(c, i)
      PROVE  CoreInv'
  <2>1. UNCHANGED <<cores, allocated_cores, provision, status, destroyed>>
    BY <1>8 DEF ComposeDown, FreePortBlock, held, rows
  <2>2. \/ destroy[c][i] = "down" /\ \E step \in {"clean", "idle"} : To(c, i, step)
        \/ destroy[c][i] = "free" /\ To(c, i, "mark")
    BY <1>8 DEF ComposeDown, FreePortBlock
  <2>3. \A j \in Instances : Live(j)' <=> Live(j)
    BY <2>1 DEF Live
  <2>4. PICK step \in {"clean", "idle", "mark"} :
          \A j \in Instances, d \in Callers :
            destroy'[d][j] = IF j = i /\ d = c THEN step ELSE destroy[d][j]
    BY <2>2 DEF To
  <2>5. /\ destroy[c][i] # "idle"
        /\ destroy[c][i] \in {"free", "mark"} => step = "mark"
    BY <2>2, <2>4 DEF To
  <2>6. \A j \in Instances : Alone(j) => Alone(j)'
    BY <2>3, <2>4, <2>5 DEF Alone
  <2>7. \A j \in Instances : Released(j) => Released(j)'
    BY <2>4, <2>5 DEF Released
  <2> QED
    BY <1>0, <1>2, <2>1, <2>3, <2>6, <2>7, CoresKept DEF Pinned
<1>9. ASSUME NEW i \in Instances, NEW c \in Callers, RemoveDirAndCores(c, i)
      PROVE  CoreInv'
  <2>1. /\ destroy[c][i] = "clean" /\ To(c, i, "free")
        /\ allocated_cores' = allocated_cores \ {cores[i]}
        /\ UNCHANGED <<cores, provision, status, destroyed>>
    BY <1>9 DEF RemoveDirAndCores, ReleaseCpuSet, rows
  <2>2. \A j \in Instances : Live(j)' <=> Live(j)
    BY <2>1 DEF Live
  <2>3. \A j \in Instances : Alone(j) => Alone(j)'
    BY <2>1, <2>2 DEF Alone, To
  <2>4. Released(i)' /\ \A j \in Instances : Released(j) => Released(j)'
    BY <2>1 DEF Released, To
  <2>5. ~Pinned(i)' /\ \A j \in Instances : Pinned(j)' => Pinned(j)
    BY <2>1, <2>2, <2>4 DEF Pinned
  <2>6. ASSUME faults'["crash"] = 0 /\ faults'["overlap"] = 0, NEW j \in Instances, Pinned(j)'
        PROVE  cores[j] \in allocated_cores'
    <3>1. j # i /\ Pinned(j) /\ cores[j] \in allocated_cores /\ Alone(i)
      BY <1>2, <2>5, <2>6
    <3>2. Live(i) /\ ~Released(i)
      BY <2>1, <3>1 DEF Alone, Released
    <3>3. cores[j] # cores[i]
      BY <1>2, <2>6, <3>1, <3>2 DEF Pinned
    <3> QED
      BY <2>1, <3>1, <3>3
  <2>7. ASSUME faults'["crash"] = 0 /\ faults'["overlap"] = 0
        PROVE  \A j, k \in Instances : j # k /\ Pinned(j)' /\ Pinned(k)' => cores'[j] # cores'[k]
    BY <1>2, <2>1, <2>5, <2>7
  <2> QED
    BY <1>2, <2>1, <2>3, <2>6, <2>7 DEF CoreInv
<1>10. ASSUME NEW i \in Instances, NEW c \in Callers, MarkDestroyed(c, i)
       PROVE  CoreInv'
  <2>1. /\ UNCHANGED <<cores, allocated_cores, provision>> /\ destroy[c][i] = "mark"
        /\ status' = [status EXCEPT ![i] = "destroyed"] /\ destroyed' = destroyed \cup {i}
        /\ To(c, i, "idle")
    BY <1>10 DEF MarkDestroyed, held
  <2>2. provision[i] \notin {"cored", "written"} /\ ~Live(i)'
    BY <2>1 DEF Live
  <2>3. \A j \in Instances \ {i} : (Live(j)' <=> Live(j)) /\ (Released(j)' <=> Released(j))
    BY <2>1 DEF Live, Released, To
  <2>4. \A j \in Instances \ {i} : Alone(j) => Alone(j)'
    BY <2>1, <2>3 DEF Alone, To
  <2>5. Alone(i) => Alone(i)'
    BY <2>1 DEF Alone, To
  <2>6. \A j \in Instances : Pinned(j)' => Pinned(j)
    BY <2>1, <2>2, <2>3 DEF Pinned
  <2> QED
    BY <1>0, <1>2, <2>1, <2>4, <2>5, <2>6, CoresKept
<1>11. ASSUME NEW i \in Instances, Extend(i) \/ Expire(i)
       PROVE  CoreInv'
  <2>1. UNCHANGED <<cores, allocated_cores, provision, status, destroyed, destroy>>
    BY <1>11 DEF Extend, Expire, held
  <2> QED
    BY <1>0, <1>2, <2>1, CoresKept DEF Alone, Pinned, Live, Released
<1>12. CASE CleanupExpired \/ WarmTick \/ UNCHANGED vars
  <2>1. UNCHANGED <<cores, allocated_cores, provision, status, destroyed, destroy>>
    BY <1>12 DEF CleanupExpired, WarmTick, vars, rows, held
  <2> QED
    BY <1>0, <1>2, <2>1, CoresKept DEF Alone, Pinned, Live, Released
<1>13. CASE Restart
  <2>1. faults'["crash"] > 0
    BY <1>13, FaultCounted DEF Restart, Faults
  <2>2. \A j \in Instances : provision'[j] \in Unpinned => cores'[j] = NoCores
    BY <1>13 DEF Restart, CoreInv
  <2> QED
    BY <2>1, <2>2 DEF CoreInv
<1> QED
  BY <1>3, <1>4, <1>5, <1>6, <1>7, <1>8, <1>9, <1>10, <1>11, <1>12, <1>13, Steps

-----------------------------------------------------------------------------
(* What is destroyed stays down. *)

\* Steps that start no container and begin no destroy.
LEMMA DownKept ==
    ASSUME TypeOK, DownInv, Remembered,
           faults'["docker"] = 0 /\ faults'["early"] = 0 =>
               \A j \in Instances :
                  /\ provision'[j] \in InFlight => provision[j] \in InFlight
                  /\ j \in destroyed' => j \in destroyed
                  /\ \A c \in Callers :
                        /\ destroy'[c][j] # "idle" => destroy[c][j] # "idle"
                        /\ destroy'[c][j] \in {"clean", "free", "mark"} =>
                              destroy[c][j] \in {"clean", "free", "mark"}
                  /\ stack[j] = "none" => stack'[j] = "none" \/ provision[j] \in InFlight
    PROVE  DownInv'
<1>1. faults'["docker"] = 0 /\ faults'["early"] = 0 => faults["docker"] = 0 /\ faults["early"] = 0
  BY DEF TypeOK, Remembered, Faults
<1>2. ASSUME faults'["docker"] = 0 /\ faults'["early"] = 0, NEW j \in Instances
      PROVE  Down(j)'
  <2>1. Down(j)
    BY <1>1, <1>2 DEF DownInv
  <2>2. \A c \in Callers : destroy[c][j] \in {"clean", "free", "mark"} => destroy[c][j] # "idle"
    OBVIOUS
  <2> QED
    BY <1>2, <2>1, <2>2 DEF Down
<1> QED
  BY <1>2 DEF DownInv

LEMMA DownStep ==
    ASSUME TypeOK, \A i \in Instances : StatusFits(i), DownInv, [Next]_vars
    PROVE  DownInv'
<1>0. Remembered
  BY EachRemembers
<1>1. faults'["docker"] = 0 /\ faults'["early"] = 0 => faults["docker"] = 0 /\ faults["early"] = 0
  BY <1>0 DEF TypeOK, Remembered, Faults
<1>2. ASSUME faults'["docker"] = 0 /\ faults'["early"] = 0
      PROVE  \A j \in Instances : Down(j)
  BY <1>1, <1>2 DEF DownInv
<1> USE DEF TypeOK
<1>3. ASSUME NEW i \in Instances, CheckCapacity(i)
      PROVE  DownInv'
  <2>1. /\ Goto(i, "counted") /\ provision[i] = "none"
        /\ UNCHANGED <<destroyed, destroy, stack>>
    BY <1>3 DEF CheckCapacity, rows, host
  <2>2. i \notin destroyed /\ \A c \in Callers : destroy[c][i] = "idle"
    BY <2>1 DEF StatusFits
  <2> QED
    BY <1>2, <2>1, <2>2 DEF DownInv, Down, Goto
<1>4. ASSUME NEW i \in Instances, \/ AllocatePortBlock(i) \/ AllocateCpuSet(i) \/ WriteFiles(i)
                                  \/ InsertInstance(i) \/ BindPort(i)
      PROVE  DownInv'
  <2>1. provision[i] \in InFlight /\ \E place \in InFlight \cup {"over"} : Goto(i, place)
    BY <1>4 DEF AllocatePortBlock, AllocateCpuSet, WriteFiles, InsertInstance, BindPort,
                InFlight, Preparing, Uninserted, Finalizing
  <2>2. UNCHANGED <<destroyed, destroy, stack>>
    BY <1>4 DEF AllocatePortBlock, AllocateCpuSet, WriteFiles, InsertInstance, BindPort, rows, host
  <2> QED
    BY <1>0, <2>1, <2>2, DownKept DEF Goto
<1>5. ASSUME NEW i \in Instances, ReadRow(i) \/ ComposeUp(i) \/ WaitForHealth(i) \/ UpdateStatus(i)
      PROVE  DownInv'
  <2>1. AfterFailedUp(provision[i]) \in InFlight
    BY DEF AfterFailedUp, InFlight, Finalizing, Upping
  <2>2. provision[i] \in InFlight /\ \E place \in InFlight \cup {"over"} : Goto(i, place)
    BY <1>5, <2>1 DEF ReadRow, ComposeUp, WaitForHealth, UpdateStatus, InFlight, Finalizing, Upping
  <2>3. UNCHANGED <<destroyed, destroy>> /\ \A j \in Instances \ {i} : stack'[j] = stack[j]
    BY <1>5 DEF ReadRow, ComposeUp, WaitForHealth, UpdateStatus, rows, host
  <2> QED
    BY <1>0, <2>2, <2>3, DownKept DEF Goto
<1>6. ASSUME NEW i \in Instances, OwnerDestroys(i) \/ SweepDestroys(i)
      PROVE  DownInv'
  <2>1. UNCHANGED <<provision, stack, destroyed>>
    BY <1>6 DEF OwnerDestroys, SweepDestroys, host, rows
  <2>2. \/ UNCHANGED destroy
        \/ \E c \in Callers : Beside(i) /\ To(c, i, "down")
    BY <1>6 DEF OwnerDestroys, SweepDestroys, Callers
  <2>3. CASE UNCHANGED destroy
    BY <1>0, <2>1, <2>3, DownKept
  <2>4. ASSUME NEW c \in Callers, Beside(i), To(c, i, "down")
        PROVE  DownInv'
    <3>1. ASSUME faults'["docker"] = 0 /\ faults'["early"] = 0
          PROVE  provision[i] \notin InFlight
      <4>1. Destroying(i) \/ provision[i] \notin InFlight
        BY <2>4, <3>1, BesideCounted
      <4> QED
        BY <1>2, <3>1, <4>1 DEF Destroying, Down
    <3>2. \A j \in Instances, d \in Callers :
            destroy'[d][j] = IF j = i /\ d = c THEN "down" ELSE destroy[d][j]
      BY <2>4 DEF To
    <3> QED
      BY <1>2, <2>1, <3>1, <3>2 DEF DownInv, Down
  <2> QED
    BY <2>2, <2>3, <2>4
<1>7. ASSUME NEW i \in Instances, NEW c \in Callers, ComposeDown(c, i)
      PROVE  DownInv'
  <2>1. UNCHANGED <<provision, destroyed>> /\ destroy[c][i] = "down"
    BY <1>7 DEF ComposeDown, rows
  <2>2. \/ stack' = [stack EXCEPT ![i] = "none"] /\ To(c, i, "clean")
        \/ faults'["docker"] > 0
        \/ stack' \in {stack, [stack EXCEPT ![i] = "none"]} /\ To(c, i, "idle")
    BY <1>7, FaultCounted DEF ComposeDown, Faults
  <2>3. CASE stack' = [stack EXCEPT ![i] = "none"] /\ To(c, i, "clean")
    <3>1. \A j \in Instances, d \in Callers :
            destroy'[d][j] = IF j = i /\ d = c THEN "clean" ELSE destroy[d][j]
      BY <2>3 DEF To
    <3>2. stack'[i] = "none" /\ \A j \in Instances \ {i} : stack'[j] = stack[j]
      BY <2>3
    <3>3. destroy[c][i] # "idle"
      BY <2>1
    <3> QED
      BY <1>2, <2>1, <3>1, <3>2, <3>3 DEF DownInv, Down
  <2>4. CASE faults'["docker"] > 0
    BY <2>4 DEF DownInv
  <2>5. CASE stack' \in {stack, [stack EXCEPT ![i] = "none"]} /\ To(c, i, "idle")
    <3>1. \A j \in Instances, d \in Callers :
            destroy'[d][j] = IF j = i /\ d = c THEN "idle" ELSE destroy[d][j]
      BY <2>5 DEF To
    <3>2. \A j \in Instances : stack[j] = "none" => stack'[j] = "none"
      BY <2>5
    <3> QED
      BY <1>0, <2>1, <3>1, <3>2, DownKept
  <2> QED
    BY <2>2, <2>3, <2>4, <2>5
<1>8. ASSUME NEW i \in Instances, NEW c \in Callers, RemoveDirAndCores(c, i) \/ FreePortBlock(c, i)
      PROVE  DownInv'
  <2>1. UNCHANGED <<provision, stack, destroyed>>
    BY <1>8 DEF RemoveDirAndCores, FreePortBlock, rows, host
  <2>2. /\ destroy[c][i] \in {"clean", "free"}
        /\ \E step \in {"free", "mark"} : To(c, i, step)
    BY <1>8 DEF RemoveDirAndCores, FreePortBlock
  <2> QED
    BY <1>0, <2>1, <2>2, DownKept DEF To
<1>9. ASSUME NEW i \in Instances, NEW c \in Callers, MarkDestroyed(c, i)
      PROVE  DownInv'
  <2>1. /\ UNCHANGED <<provision, stack>> /\ destroy[c][i] = "mark"
        /\ destroyed' = destroyed \cup {i} /\ To(c, i, "idle")
    BY <1>9 DEF MarkDestroyed, host
  <2>2. \A j \in Instances, d \in Callers :
          destroy'[d][j] = IF j = i /\ d = c THEN "idle" ELSE destroy[d][j]
    BY <2>1 DEF To
  <2> QED
    BY <1>2, <2>1, <2>2 DEF DownInv, Down
<1>10. ASSUME NEW i \in Instances, Extend(i) \/ Expire(i)
       PROVE  DownInv'
  BY <1>0, <1>10, DownKept DEF Extend, Expire, host
<1>11. CASE CleanupExpired \/ WarmTick \/ UNCHANGED vars
  BY <1>0, <1>11, DownKept DEF CleanupExpired, WarmTick, rows, host, vars
<1>12. CASE Restart
  <2>1. \A j \in Instances : /\ provision'[j] \in InFlight => provision[j] \in InFlight
                             /\ \A c \in Callers : destroy'[c][j] = "idle"
    BY <1>12 DEF Restart, InFlight, Preparing, Uninserted, Finalizing, Upping
  <2>2. UNCHANGED <<destroyed, stack>>
    BY <1>12 DEF Restart, rows, host
  <2> QED
    BY <1>0, <2>1, <2>2, DownKept
<1> QED
  BY <1>3, <1>4, <1>5, <1>6, <1>7, <1>8, <1>9, <1>10, <1>11, <1>12, Steps

-----------------------------------------------------------------------------
(* The properties. *)

LEMMA LifeInit == Init => LifeInv
<1> SUFFICES ASSUME Init
             PROVE  LifeInv
  OBVIOUS
<1>1. TypeOK
  BY DEF Init, TypeOK, InFlight, Preparing, Uninserted, Finalizing, Upping, DestroySteps
<1>2. \A i \in Instances : StatusFits(i)
  BY DEF Init, StatusFits, Uninserted, Finalizing, Upping
<1>3. Counted = {} /\ Pending = {}
  BY DEF Init, Counted, Pending, Uninserted
<1>4. CountInv
  BY <1>3, FS_EmptySet, InstancesAssumption DEF CountInv
<1>5. PortInv
  BY DEF Init, PortInv, ClaimsApart, Claims, Bound, Claiming, Live
<1>6. \A i \in Instances : Alone(i) /\ ~Pinned(i)
  BY DEF Init, Alone, Pinned, Live
<1>7. CoreInv
  BY <1>6 DEF Init, CoreInv
<1>8. DownInv
  BY DEF Init, DownInv, Down, InFlight, Preparing, Uninserted, Finalizing, Upping
<1> QED
  BY <1>1, <1>2, <1>4, <1>5, <1>7, <1>8 DEF LifeInv

\* The inductive invariant of the instances of a node holds in every state.
THEOREM LifeInvariant == Spec => []LifeInv
<1>1. LifeInv /\ [Next]_vars => LifeInv'
  BY TypeStep, StatusStep, CountStep, PortStep, CoreStep, DownStep DEF LifeInv
<1> QED
  BY LifeInit, <1>1, PTL DEF Spec

\* Every variable of the model keeps its type.
THEOREM InstancesTypeCorrect == Spec => []TypeOK
<1>1. LifeInv => TypeOK
  BY DEF LifeInv
<1> QED
  BY LifeInvariant, <1>1, PTL

\* prepare_provision counts the rows before it inserts its own: whatever the
\* requests beside it do, max_instances is overshot by those under way only.
THEOREM InstancesBounded == Spec => []OvershootBounded
<1>1. ASSUME LifeInv
      PROVE  OvershootBounded
  <2>1. {i \in Instances : Live(i) /\ status[i] \in {"running", "provisioning"}} = Counted
    BY DEF Live, Counted
  <2>2. Cardinality(Counted) \in Nat /\ Cardinality(Pending) \in Nat
    BY InstancesAssumption, FS_Subset, FS_CardinalityType DEF Counted, Pending
  <2>3. Cardinality(Counted) + Cardinality(Pending) <= MaxInstances - 1 + Parallel
    BY <1>1 DEF LifeInv, CountInv
  <2> QED
    BY <2>1, <2>2, <2>3, InstancesAssumption DEF OvershootBounded
<1> QED
  BY LifeInvariant, <1>1, PTL

\* Two live instances never hold one port block, nor the same cores, but in the
\* few places ResourcesApart names: in the middle of destroy, and after a crash.
THEOREM InstancesApart == Spec => []ResourcesApart
<1>1. ASSUME LifeInv
      PROVE  BlocksApart
  <2> SUFFICES ASSUME faults["crash"] = 0, NEW i \in Instances, NEW j \in Instances,
                      Live(i), Live(j), i # j, block[i] = block[j], ~Marking(i), ~Marking(j)
               PROVE  FALSE
    BY DEF BlocksApart
  <2>1. \A k \in {i, j} : provision[k] \in Preparing => provision[k] = "inserted"
    BY <1>1 DEF LifeInv, StatusFits, Live, Preparing
  <2>2. \A k \in {i, j} :
          /\ provision[k] \in Preparing => port_allocations[block[k]] = "unbound"
          /\ provision[k] \notin Preparing => port_allocations[block[k]] = k
    BY <1>1, <2>1 DEF LifeInv, PortInv, Claims, Claiming, Bound
  <2>3. ~(provision[i] \in Preparing /\ provision[j] \in Preparing)
    BY <1>1, <2>1 DEF LifeInv, PortInv, ClaimsApart, Claiming
  <2> QED
    BY <2>2, <2>3, NamesApart
<1>2. ASSUME LifeInv
      PROVE  CoresApart
  BY <1>2 DEF LifeInv, CoreInv, CoresApart, Pinned
<1> QED
  BY LifeInvariant, <1>1, <1>2, PTL DEF ResourcesApart

\* Containers of a destroyed instance do not come back, unless Docker failed or
\* the instance was destroyed while it was provisioned.
THEOREM InstancesStayDown == Spec => []DestroyedStaysDown
<1>1. ASSUME LifeInv
      PROVE  DestroyedStaysDown
  <2>1. destroyed \subseteq Instances
    BY <1>1 DEF LifeInv, TypeOK
  <2> QED
    BY <1>1, <2>1 DEF LifeInv, DownInv, Down, DestroyedStaysDown
<1> QED
  BY LifeInvariant, <1>1, PTL

=============================================================================
