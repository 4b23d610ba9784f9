--------------------------- MODULE InstanceLeakProofs ---------------------------
(***************************************************************************)
(* Proofs about the port blocks that InstanceManager loses, for any        *)
(* instances, blocks and limits.  A block is lost unbound (Stranded) or    *)
(* bound to an instance that is gone; the second kind comes only from      *)
(* instances that are destroyed before they are bound (Disturbed).         *)
(***************************************************************************)
EXTENDS InstanceManagerProofs

-----------------------------------------------------------------------------
(* The inductive invariant. *)

Admitted == {i \in Instances : provision[i] \in Preparing}

AdmittedInv == Cardinality(Admitted) <= Parallel

BoundTo(i) == {b \in Blocks : port_allocations[b] = i}

\* A request binds once, at its end, and its row is there by then.
BindInv ==
    \A i \in Instances :
        /\ provision[i] \in Preparing \/ status[i] = "none" => BoundTo(i) = {}
        /\ \A b, c \in BoundTo(i) : b = c

\* Blocks that nobody is going to bind.
Stranded ==
    {b \in Blocks : /\ port_allocations[b] = "unbound"
                    /\ ~\E i \in Instances : provision[i] \in Claiming /\ block[i] = b}

StrandedInv ==
    Cardinality(Stranded) <= faults["prepare"] + faults["warm"] + Parallel * faults["crash"]

\* Instances whose destroy came before their block was bound: the block is
\* lost, or will be when it is bound or when the row is marked.
Disturbed ==
    {i \in Instances :
        \/ provision[i] = "inserted" /\ (Destroying(i) \/ i \in destroyed)
        \/ BoundTo(i) # {} /\ (Marking(i) \/ i \in destroyed)}

DisturbedInv == Cardinality(Disturbed) <= faults["early"]

LeakInv == AdmittedInv /\ BindInv /\ StrandedInv /\ DisturbedInv

-----------------------------------------------------------------------------
(* Finite sets. *)

LEMMA SetsFinite ==
    /\ IsFiniteSet(Instances) /\ IsFiniteSet(Blocks)
    /\ \A S \in SUBSET Instances : IsFiniteSet(S) /\ Cardinality(S) \in Nat
    /\ \A S \in SUBSET Blocks : IsFiniteSet(S) /\ Cardinality(S) \in Nat
<1>1. NBlocks - 1 \in Int
  BY InstancesAssumption
<1>2. IsFiniteSet(Blocks)
  BY <1>1, FS_Interval DEF Blocks
<1> QED
  BY <1>2, InstancesAssumption, FS_Subset, FS_CardinalityType

\* A set that only loses members, or gains one, is counted accordingly.
LEMMA Grown ==
    ASSUME NEW S, IsFiniteSet(S), NEW x, NEW T, T \subseteq S \cup {x}
    PROVE  /\ Cardinality(S) \in Nat /\ Cardinality(T) \in Nat
           /\ Cardinality(T) <= Cardinality(S) + 1
           /\ T \subseteq S => Cardinality(T) <= Cardinality(S)
<1>1. /\ IsFiniteSet(S \cup {x}) /\ Cardinality(S) \in Nat
      /\ Cardinality(S \cup {x}) <= Cardinality(S) + 1
      /\ Cardinality(S \cup {x}) \in Nat
  BY OneMore, FS_AddElement, FS_CardinalityType
<1>2. Cardinality(T) \in Nat /\ Cardinality(T) <= Cardinality(S \cup {x})
  BY <1>1, FS_Subset, FS_CardinalityType
<1> QED
  BY <1>1, <1>2, FS_Subset

\* The blocks of some instances are no more than these.
LEMMA Blocked ==
    ASSUME TypeOK, NEW S \in SUBSET Instances
    PROVE  LET T == {block[i] : i \in S} IN
           IsFiniteSet(T) /\ Cardinality(T) \in Nat /\ Cardinality(T) <= Cardinality(S)
<1> DEFINE T == {block[i] : i \in S}
           f == [i \in S |-> block[i]]
<1>1. IsFiniteSet(S)
  BY SetsFinite
<1>2. f \in Surjection(S, T)
  BY DEF Surjection
<1>3. IsFiniteSet(T) /\ Cardinality(T) <= Cardinality(S)
  BY <1>1, <1>2, FS_Surjection
<1> QED
  BY <1>3, FS_CardinalityType

-----------------------------------------------------------------------------
(* What the steps change. *)

LEMMA FaultAdds ==
    ASSUME TypeOK, NEW f \in Faults, Fault(f)
    PROVE  faults'[f] = faults[f] + 1
  BY DEF TypeOK, Fault

\* Only CheckCapacity lets a request in, and a row stays a row.
LEMMA RequestChanges ==
    ASSUME TypeOK, [Next]_vars
    PROVE  /\ \A j \in Instances :
                provision'[j] \in Preparing => provision[j] \in Preparing \/ CheckCapacity(j)
           /\ \A j \in Instances : status'[j] = "none" => status[j] = "none"
<1> DEFINE Kept == /\ \A j \in Instances : provision'[j] \in Preparing => provision[j] \in Preparing
                   /\ \A j \in Instances : status'[j] = "none" => status[j] = "none"
<1> USE DEF TypeOK, Preparing, Uninserted
<1>1. ASSUME NEW i \in Instances, CheckCapacity(i)
      PROVE  /\ \A j \in Instances :
                  provision'[j] \in Preparing => provision[j] \in Preparing \/ j = i
             /\ UNCHANGED status
  BY <1>1 DEF CheckCapacity, Goto, rows
<1>2. ASSUME NEW i \in Instances, \/ AllocatePortBlock(i) \/ AllocateCpuSet(i) \/ WriteFiles(i)
                                  \/ InsertInstance(i) \/ BindPort(i)
      PROVE  Kept
  BY <1>2 DEF AllocatePortBlock, AllocateCpuSet, WriteFiles, InsertInstance, BindPort, Goto, rows
<1>3. ASSUME NEW i \in Instances, ReadRow(i) \/ ComposeUp(i) \/ WaitForHealth(i) \/ UpdateStatus(i)
      PROVE  Kept
  BY <1>3 DEF ReadRow, ComposeUp, AfterFailedUp, WaitForHealth, UpdateStatus, FinalStatus, Goto, rows
<1>4. ASSUME NEW i \in Instances, OwnerDestroys(i) \/ SweepDestroys(i) \/ Extend(i) \/ Expire(i)
      PROVE  Kept
  BY <1>4 DEF OwnerDestroys, SweepDestroys, Extend, Expire, rows
<1>5. ASSUME NEW i \in Instances, NEW c \in Callers,
             \/ ComposeDown(c, i) \/ RemoveDirAndCores(c, i)
             \/ FreePortBlock(c, i) \/ MarkDestroyed(c, i)
      PROVE  Kept
  BY <1>5 DEF ComposeDown, RemoveDirAndCores, FreePortBlock, MarkDestroyed, rows
<1>6. CASE CleanupExpired \/ WarmTick \/ Restart \/ UNCHANGED vars
  BY <1>6 DEF CleanupExpired, WarmTick, Restart, vars, rows
<1> QED
  BY <1>1, <1>2, <1>3, <1>4, <1>5, <1>6, Steps

\* The steps that write the table of port blocks.
LEMMA PortChanges ==
    ASSUME [Next]_vars
    PROVE  \/ UNCHANGED port_allocations
           \/ \E i \in Instances : AllocatePortBlock(i) \/ BindPort(i)
           \/ \E i \in Instances, c \in Callers : FreePortBlock(c, i)
           \/ WarmTick
<1>1. ASSUME NEW i \in Instances,
             \/ CheckCapacity(i) \/ AllocateCpuSet(i) \/ WriteFiles(i) \/ InsertInstance(i)
             \/ ReadRow(i) \/ ComposeUp(i) \/ WaitForHealth(i) \/ UpdateStatus(i)
             \/ OwnerDestroys(i) \/ SweepDestroys(i) \/ Extend(i) \/ Expire(i)
      PROVE  UNCHANGED port_allocations
  BY <1>1 DEF CheckCapacity, AllocateCpuSet, WriteFiles, InsertInstance, ReadRow, ComposeUp,
              WaitForHealth, UpdateStatus, OwnerDestroys, SweepDestroys, Extend, Expire, held
<1>2. ASSUME NEW i \in Instances, NEW c \in Callers,
             ComposeDown(c, i) \/ RemoveDirAndCores(c, i) \/ MarkDestroyed(c, i)
      PROVE  UNCHANGED port_allocations
  BY <1>2 DEF ComposeDown, RemoveDirAndCores, MarkDestroyed, held
<1>3. CASE CleanupExpired \/ Restart \/ UNCHANGED vars
  BY <1>3 DEF CleanupExpired, Restart, vars, held
<1> QED
  BY <1>1, <1>2, <1>3, Steps

\* Blocks are bound by BindPort, and by it alone.
LEMMA BoundChanges ==
    ASSUME TypeOK, [Next]_vars, NEW j \in Instances
    PROVE  BoundTo(j)' \subseteq BoundTo(j) \/ BindPort(j)
<1>0. j # "free" /\ j # "unbound"
  BY NamesApart
<1>1. ASSUME NEW i \in Instances, BindPort(i), i # j
      PROVE  BoundTo(j)' \subseteq BoundTo(j)
  BY <1>1 DEF BindPort, BoundTo, TypeOK
<1>2. ASSUME NEW i \in Instances, AllocatePortBlock(i)
      PROVE  BoundTo(j)' \subseteq BoundTo(j)
  BY <1>0, <1>2 DEF AllocatePortBlock, BoundTo, TypeOK
<1>3. CASE WarmTick
  BY <1>0, <1>3 DEF WarmTick, BoundTo, TypeOK
<1>4. ASSUME NEW i \in Instances, NEW c \in Callers, FreePortBlock(c, i)
      PROVE  BoundTo(j)' \subseteq BoundTo(j)
  BY <1>0, <1>4 DEF FreePortBlock, Freed, BoundTo
<1>5. CASE UNCHANGED port_allocations
  BY <1>5 DEF BoundTo
<1> QED
  BY <1>1, <1>2, <1>3, <1>4, <1>5, PortChanges

-----------------------------------------------------------------------------
(* Requests under way, and what they bind. *)

LEMMA AdmittedStep ==
    ASSUME TypeOK, AdmittedInv, [Next]_vars
    PROVE  AdmittedInv'
<1>1. IsFiniteSet(Admitted)
  BY SetsFinite DEF Admitted
<1>2. ASSUME NEW i \in Instances, CheckCapacity(i)
      PROVE  AdmittedInv'
  <2>1. Cardinality(Admitted) < Parallel
    BY <1>2 DEF CheckCapacity, Admitted
  <2>2. Admitted' \subseteq Admitted \cup {i}
    BY <1>2 DEF CheckCapacity, Admitted, Goto, TypeOK
  <2>3. /\ Cardinality(Admitted) \in Nat /\ Cardinality(Admitted') \in Nat
        /\ Cardinality(Admitted') <= Cardinality(Admitted) + 1
    BY <1>1, <2>2, Grown
  <2> QED
    BY <2>1, <2>3, InstancesAssumption DEF AdmittedInv
<1>3. CASE ~\E i \in Instances : CheckCapacity(i)
  <2>1. Admitted' \subseteq Admitted
    BY <1>3, RequestChanges DEF Admitted
  <2>2. Cardinality(Admitted') <= Cardinality(Admitted)
    BY <1>1, <2>1, FS_Subset
  <2>3. Cardinality(Admitted') \in Nat /\ Cardinality(Admitted) \in Nat
    BY SetsFinite DEF Admitted
  <2> QED
    BY <2>2, <2>3, InstancesAssumption DEF AdmittedInv
<1> QED
  BY <1>2, <1>3

LEMMA BindStep ==
    ASSUME TypeOK, \A i \in Instances : StatusFits(i), BindInv, [Next]_vars
    PROVE  BindInv'
<1> SUFFICES ASSUME NEW i \in Instances
             PROVE  /\ provision'[i] \in Preparing \/ status'[i] = "none" => BoundTo(i)' = {}
                    /\ \A b, c \in BoundTo(i)' : b = c
  BY DEF BindInv
<1>1. CASE BindPort(i)
  <2>1. BoundTo(i) = {}
    BY <1>1 DEF BindPort, BindInv, Preparing
  <2>2. BoundTo(i)' \subseteq {block[i]}
    BY <1>1, <2>1 DEF BindPort, BoundTo, TypeOK
  <2>3. status[i] # "none" /\ status' = status
    BY <1>1 DEF BindPort, StatusFits, rows
  <2>4. provision'[i] = "spawned"
    BY <1>1 DEF BindPort, Goto, TypeOK
  <2> QED
    BY <2>2, <2>3, <2>4 DEF Preparing, Uninserted
<1>2. CASE BoundTo(i)' \subseteq BoundTo(i)
  <2>1. CASE CheckCapacity(i)
    <3>1. status[i] = "none"
      BY <2>1 DEF CheckCapacity, StatusFits
    <3> QED
      BY <1>2, <3>1 DEF BindInv
  <2>2. CASE ~CheckCapacity(i)
    BY <1>2, <2>2, RequestChanges DEF BindInv
  <2> QED
    BY <2>1, <2>2
<1> QED
  BY <1>1, <1>2, BoundChanges

-----------------------------------------------------------------------------
(* Blocks lost unbound. *)

Allowance == faults["prepare"] + faults["warm"] + Parallel * faults["crash"]

LEMMA AllowanceType ==
    ASSUME TypeOK
    PROVE  /\ Allowance \in Nat
           /\ Parallel \in Nat
           /\ \A f \in {"prepare", "warm", "crash"} : faults[f] \in Nat
<1>1. \A f \in {"prepare", "warm", "crash"} : faults[f] \in Nat
  BY DEF TypeOK, Faults
<1>2. \A m, n \in Nat : m * n \in Nat
  OBVIOUS
<1>3. Parallel \in Nat
  BY InstancesAssumption
<1>4. Parallel * faults["crash"] \in Nat
  BY <1>1, <1>2, <1>3
<1> QED
  BY <1>1, <1>3, <1>4 DEF Allowance

\* No allowance is taken back, and each fault that loses blocks adds its own.
LEMMA AllowanceGrows ==
    ASSUME TypeOK, Remembered
    PROVE  /\ Allowance' \in Nat /\ Allowance <= Allowance'
           /\ Fault("prepare") \/ Fault("warm") => Allowance' >= Allowance + 1
           /\ Fault("crash") => Allowance' >= Allowance + Parallel
<1> DEFINE crash == faults["crash"]
<1>1. \A f \in {"prepare", "warm", "crash"} :
        faults[f] \in Nat /\ faults'[f] \in Nat /\ faults'[f] >= faults[f]
  BY DEF TypeOK, Remembered, Faults
<1>2. Parallel \in Nat
  BY InstancesAssumption
<1>3. \A m, n, k \in Nat : m * n \in Nat /\ (k >= n => m * k >= m * n) /\ m * (n + 1) = m * n + m
  OBVIOUS
<1>4. /\ Parallel * crash \in Nat /\ Parallel * crash' \in Nat
      /\ Parallel * crash' >= Parallel * crash
  BY <1>1, <1>2, <1>3
<1>5. Allowance' \in Nat /\ Allowance <= Allowance'
  BY <1>1, <1>4 DEF Allowance
<1>6. ASSUME Fault("prepare") \/ Fault("warm")
      PROVE  Allowance' >= Allowance + 1
  <2>1. faults'["prepare"] = faults["prepare"] + 1 \/ faults'["warm"] = faults["warm"] + 1
    BY <1>6, FaultAdds DEF Faults
  <2> QED
    BY <1>1, <1>4, <2>1 DEF Allowance
<1>7. ASSUME Fault("crash")
      PROVE  Allowance' >= Allowance + Parallel
  <2>1. crash' = crash + 1
    BY <1>7, FaultAdds DEF Faults
  <2>2. Parallel * crash' = Parallel * crash + Parallel
    BY <1>1, <1>2, <1>3, <2>1
  <2> QED
    BY <1>1, <1>2, <1>4, <2>2 DEF Allowance
<1> QED
  BY <1>5, <1>6, <1>7

\* Steps that strand no block.
LEMMA NoneStranded ==
    ASSUME TypeOK, StrandedInv, Remembered, Stranded' \subseteq Stranded
    PROVE  StrandedInv'
<1>1. /\ IsFiniteSet(Stranded) /\ Cardinality(Stranded) \in Nat
      /\ Cardinality(Stranded') \in Nat
  BY SetsFinite DEF Stranded
<1>2. Cardinality(Stranded') <= Cardinality(Stranded)
  BY <1>1, FS_Subset
<1>3. Cardinality(Stranded) <= Allowance
  BY DEF StrandedInv, Allowance
<1>4. Cardinality(Stranded') <= Allowance'
  BY <1>1, <1>2, <1>3, AllowanceGrows, AllowanceType
<1> QED
  BY <1>4 DEF StrandedInv, Allowance

\* Steps that strand one, and are counted.
LEMMA OneStranded ==
    ASSUME TypeOK, StrandedInv, Remembered, Fault("prepare") \/ Fault("warm"),
           NEW b, Stranded' \subseteq Stranded \cup {b}
    PROVE  StrandedInv'
<1>1. IsFiniteSet(Stranded)
  BY SetsFinite DEF Stranded
<1>2. /\ Cardinality(Stranded) \in Nat /\ Cardinality(Stranded') \in Nat
      /\ Cardinality(Stranded') <= Cardinality(Stranded) + 1
  BY <1>1, Grown
<1>3. Cardinality(Stranded) <= Allowance
  BY DEF StrandedInv, Allowance
<1>4. Cardinality(Stranded') <= Allowance'
  BY <1>2, <1>3, AllowanceGrows, AllowanceType
<1> QED
  BY <1>4 DEF StrandedInv, Allowance

\* The end of the process strands the blocks of the requests under way.
LEMMA RestartStrands ==
    ASSUME TypeOK, AdmittedInv, StrandedInv, Remembered, Restart
    PROVE  StrandedInv'
<1> DEFINE T == {block[i] : i \in Admitted}
<1>1. /\ Admitted \in SUBSET Instances
      /\ IsFiniteSet(T) /\ Cardinality(T) \in Nat /\ Cardinality(T) <= Cardinality(Admitted)
  BY Blocked DEF Admitted
<1>2. /\ IsFiniteSet(Stranded) /\ Cardinality(Stranded) \in Nat
      /\ Cardinality(Stranded') \in Nat /\ Cardinality(Admitted) \in Nat
  BY <1>1, SetsFinite DEF Stranded
<1>3. Stranded' \subseteq Stranded \cup T
  <2>1. port_allocations' = port_allocations
    BY DEF Restart
  <2>2. Claiming \subseteq Preparing
    BY DEF Claiming, Preparing, Uninserted
  <2> QED
    BY <2>1, <2>2 DEF Stranded, Admitted
<1> HIDE DEF T
<1>4. /\ IsFiniteSet(Stranded \cup T)
      /\ Cardinality(Stranded \cup T) =
            Cardinality(Stranded) + Cardinality(T) - Cardinality(Stranded \cap T)
  BY <1>1, <1>2, FS_Union
<1>5. Cardinality(Stranded \cap T) \in Nat
  BY <1>2, FS_Subset, FS_CardinalityType
<1>6. Cardinality(Stranded') <= Cardinality(Stranded \cup T)
  BY <1>3, <1>4, FS_Subset
<1>7. Cardinality(Stranded) <= Allowance /\ Cardinality(Admitted) <= Parallel
  BY DEF StrandedInv, Allowance, AdmittedInv
<1>8. Allowance \in Nat /\ Allowance' \in Nat /\ Allowance' >= Allowance + Parallel
  BY AllowanceGrows, AllowanceType DEF Restart
<1>9. Cardinality(Stranded') <= Allowance'
  BY <1>1, <1>2, <1>4, <1>5, <1>6, <1>7, <1>8, InstancesAssumption
<1> QED
  BY <1>9 DEF StrandedInv, Allowance

LEMMA StrandedStep ==
    ASSUME TypeOK, AdmittedInv, StrandedInv, [Next]_vars
    PROVE  StrandedInv'
<1>0. Remembered
  BY EachRemembers
<1> USE DEF TypeOK, Claiming
<1>1. ASSUME UNCHANGED <<block, port_allocations>>,
             \A j \in Instances : provision[j] \in Claiming => provision'[j] \in Claiming
      PROVE  StrandedInv'
  BY <1>0, <1>1, NoneStranded DEF Stranded
<1>2. ASSUME NEW i \in Instances, CheckCapacity(i) \/ AllocateCpuSet(i) \/ InsertInstance(i)
      PROVE  StrandedInv'
  BY <1>1, <1>2 DEF CheckCapacity, AllocateCpuSet, InsertInstance, Goto, held
<1>3. ASSUME NEW i \in Instances, AllocatePortBlock(i)
      PROVE  StrandedInv'
  <2>1. CASE FreeBlocks = {}
    BY <1>1, <1>3, <2>1 DEF AllocatePortBlock, Goto
  <2>2. CASE FreeBlocks # {}
    <3> DEFINE b == Min(FreeBlocks)
    <3>1. b \in Blocks
      BY <2>2, Allocated DEF FreeBlocks
    <3>2. /\ block' = [block EXCEPT ![i] = b] /\ Goto(i, "ported")
          /\ port_allocations' = [port_allocations EXCEPT ![b] = "unbound"]
          /\ provision[i] = "counted"
      BY <1>3, <2>2, <3>1 DEF AllocatePortBlock
    <3> HIDE DEF b
    <3>3. Stranded' \subseteq Stranded
      BY <3>1, <3>2 DEF Stranded, Goto
    <3> QED
      BY <1>0, <3>3, NoneStranded
  <2> QED
    BY <2>1, <2>2
<1>4. ASSUME NEW i \in Instances, WriteFiles(i)
      PROVE  StrandedInv'
  <2>1. UNCHANGED <<block, port_allocations>>
    BY <1>4 DEF WriteFiles, held
  <2>2. CASE Goto(i, "written")
    BY <1>1, <2>1, <2>2 DEF Goto
  <2>3. CASE Fault("prepare") /\ Goto(i, "over")
    <3>1. Stranded' \subseteq Stranded \cup {block[i]}
      BY <2>1, <2>3 DEF Stranded, Goto
    <3> QED
      BY <1>0, <2>3, <3>1, OneStranded
  <2> QED
    BY <1>4, <2>2, <2>3 DEF WriteFiles
<1>5. ASSUME NEW i \in Instances, BindPort(i)
      PROVE  StrandedInv'
  <2>1. /\ port_allocations' = [port_allocations EXCEPT ![block[i]] = i]
        /\ Goto(i, "spawned") /\ UNCHANGED block
    BY <1>5 DEF BindPort
  <2>2. Stranded' \subseteq Stranded
    BY <2>1, NamesApart DEF Stranded, Goto
  <2> QED
    BY <1>0, <2>2, NoneStranded
<1>6. ASSUME NEW i \in Instances, ReadRow(i) \/ ComposeUp(i) \/ WaitForHealth(i) \/ UpdateStatus(i)
      PROVE  StrandedInv'
  <2>1. provision[i] \notin Claiming
    BY <1>6 DEF ReadRow, ComposeUp, WaitForHealth, UpdateStatus, Upping
  <2>2. UNCHANGED <<block, port_allocations>>
    BY <1>6 DEF ReadRow, ComposeUp, WaitForHealth, UpdateStatus, held
  <2>3. \E place : Goto(i, place)
    BY <1>6 DEF ReadRow, ComposeUp, WaitForHealth, UpdateStatus
  <2> QED
    BY <1>1, <2>1, <2>2, <2>3 DEF Goto
<1>7. ASSUME NEW i \in Instances, OwnerDestroys(i) \/ SweepDestroys(i) \/ Extend(i) \/ Expire(i)
      PROVE  StrandedInv'
  BY <1>1, <1>7 DEF OwnerDestroys, SweepDestroys, Extend, Expire, held
<1>8. ASSUME NEW i \in Instances, NEW c \in Callers,
             ComposeDown(c, i) \/ RemoveDirAndCores(c, i) \/ MarkDestroyed(c, i)
      PROVE  StrandedInv'
  BY <1>1, <1>8 DEF ComposeDown, RemoveDirAndCores, MarkDestroyed, held
<1>9. ASSUME NEW i \in Instances, NEW c \in Callers, FreePortBlock(c, i)
      PROVE  StrandedInv'
  <2>1. Stranded' \subseteq Stranded
    BY <1>9 DEF FreePortBlock, Freed, Stranded
  <2> QED
    BY <1>0, <2>1, NoneStranded
<1>10. CASE WarmTick
  <2> DEFINE b == Min(FreeBlocks)
  <2>1. /\ port_allocations' = [port_allocations EXCEPT ![b] = "unbound"]
        /\ UNCHANGED <<block, provision>> /\ Fault("warm")
    BY <1>10 DEF WarmTick
  <2> HIDE DEF b
  <2>2. Stranded' \subseteq Stranded \cup {b}
    BY <2>1 DEF Stranded
  <2> QED
    BY <1>0, <2>1, <2>2, OneStranded
<1>11. CASE Restart
  BY <1>0, <1>11, RestartStrands
<1>12. CASE CleanupExpired \/ UNCHANGED vars
  BY <1>1, <1>12 DEF CleanupExpired, vars, held
<1> QED
  BY <1>2, <1>3, <1>4, <1>5, <1>6, <1>7, <1>8, <1>9, <1>10, <1>11, <1>12, Steps

-----------------------------------------------------------------------------
(* Instances destroyed before they are bound. *)

\* Steps that disturb no instance.
LEMMA NoneDisturbed ==
    ASSUME TypeOK, DisturbedInv, Remembered, Disturbed' \subseteq Disturbed
    PROVE  DisturbedInv'
<1>1. /\ IsFiniteSet(Disturbed) /\ Cardinality(Disturbed) \in Nat
      /\ Cardinality(Disturbed') \in Nat
  BY SetsFinite DEF Disturbed
<1>2. Cardinality(Disturbed') <= Cardinality(Disturbed)
  BY <1>1, FS_Subset
<1>3. faults["early"] \in Nat /\ faults'["early"] \in Nat /\ faults'["early"] >= faults["early"]
  BY DEF TypeOK, Remembered, Faults
<1> QED
  BY <1>1, <1>2, <1>3 DEF DisturbedInv

\* A destroy that starts while the instance is provisioned, and is counted.
LEMMA OneDisturbed ==
    ASSUME TypeOK, DisturbedInv, Fault("early"), NEW i, Disturbed' \subseteq Disturbed \cup {i}
    PROVE  DisturbedInv'
<1>1. IsFiniteSet(Disturbed)
  BY SetsFinite DEF Disturbed
<1>2. /\ Cardinality(Disturbed) \in Nat /\ Cardinality(Disturbed') \in Nat
      /\ Cardinality(Disturbed') <= Cardinality(Disturbed) + 1
  BY <1>1, Grown
<1>3. faults["early"] \in Nat /\ faults'["early"] = faults["early"] + 1
  BY FaultAdds DEF TypeOK, Faults
<1> QED
  BY <1>2, <1>3 DEF DisturbedInv

LEMMA BoundShrinks ==
    ASSUME TypeOK, [Next]_vars, NEW j \in Instances,
           provision'[j] = "spawned" => provision[j] # "inserted"
    PROVE  BoundTo(j)' \subseteq BoundTo(j)
<1>1. BindPort(j) => provision[j] = "inserted" /\ provision'[j] = "spawned"
  BY DEF BindPort, Goto, TypeOK
<1> QED
  BY <1>1, BoundChanges

\* Steps that neither insert nor bind nor begin or end a destroy.
LEMMA DisturbanceKept ==
    ASSUME TypeOK, DisturbedInv, Remembered, [Next]_vars, destroyed' = destroyed,
           \A j \in Instances :
              /\ provision'[j] = "inserted" => provision[j] = "inserted"
              /\ provision'[j] = "spawned" => provision[j] # "inserted"
              /\ Destroying(j)' => Destroying(j)
              /\ Marking(j)' => Marking(j)
    PROVE  DisturbedInv'
<1>1. \A j \in Instances : BoundTo(j)' \subseteq BoundTo(j)
  BY BoundShrinks
<1>2. Disturbed' \subseteq Disturbed
  BY <1>1 DEF Disturbed
<1> QED
  BY <1>2, NoneDisturbed

LEMMA DisturbedStep ==
    ASSUME TypeOK, \A i \in Instances : StatusFits(i), DisturbedInv, [Next]_vars
    PROVE  DisturbedInv'
<1>0. Remembered
  BY EachRemembers
<1> USE DEF TypeOK
<1>1. ASSUME NEW i \in Instances, \/ CheckCapacity(i) \/ AllocatePortBlock(i) \/ AllocateCpuSet(i)
                                  \/ WriteFiles(i)
      PROVE  DisturbedInv'
  <2>1. UNCHANGED <<destroy, destroyed>> /\ provision[i] # "inserted"
    BY <1>1 DEF CheckCapacity, AllocatePortBlock, AllocateCpuSet, WriteFiles, rows
  <2>2. \E place \in {"counted", "ported", "cored", "written", "over"} : Goto(i, place)
    BY <1>1 DEF CheckCapacity, AllocatePortBlock, AllocateCpuSet, WriteFiles
  <2> QED
    BY <1>0, <2>1, <2>2, DisturbanceKept DEF Goto, Destroying, Marking
<1>2. ASSUME NEW i \in Instances, InsertInstance(i)
      PROVE  DisturbedInv'
  <2>1. /\ provision[i] = "written" /\ Goto(i, "inserted")
        /\ UNCHANGED <<destroy, destroyed, port_allocations>>
    BY <1>2 DEF InsertInstance, held
  <2>2. i \notin destroyed /\ ~Destroying(i)
    BY <2>1 DEF StatusFits, Uninserted, Destroying
  <2>3. Disturbed' \subseteq Disturbed
    BY <2>1, <2>2 DEF Disturbed, BoundTo, Goto, Destroying, Marking
  <2> QED
    BY <1>0, <2>3, NoneDisturbed
<1>3. ASSUME NEW i \in Instances, BindPort(i)
      PROVE  DisturbedInv'
  <2>1. /\ provision[i] = "inserted" /\ Goto(i, "spawned")
        /\ UNCHANGED <<destroy, destroyed>>
    BY <1>3 DEF BindPort, rows
  <2>2. \A j \in Instances \ {i} : BoundTo(j)' \subseteq BoundTo(j)
    BY <2>1, BoundShrinks DEF Goto
  <2>3. Marking(i) => Destroying(i)
    BY DEF Marking, Destroying
  <2>4. Disturbed' \subseteq Disturbed
    BY <2>1, <2>2, <2>3 DEF Disturbed, Goto, Destroying, Marking
  <2> QED
    BY <1>0, <2>4, NoneDisturbed
<1>4. ASSUME NEW i \in Instances, ReadRow(i) \/ ComposeUp(i) \/ WaitForHealth(i) \/ UpdateStatus(i)
      PROVE  DisturbedInv'
  <2>1. UNCHANGED <<destroy, destroyed>>
    BY <1>4 DEF ReadRow, ComposeUp, WaitForHealth, UpdateStatus, rows
  <2>2. \E place : place \notin {"inserted", "spawned"} /\ Goto(i, place)
    BY <1>4 DEF ReadRow, ComposeUp, AfterFailedUp, WaitForHealth, UpdateStatus
  <2> QED
    BY <1>0, <2>1, <2>2, DisturbanceKept DEF Goto, Destroying, Marking
<1>5. ASSUME NEW i \in Instances, NEW c \in Callers, destroy[c][i] = "idle", Beside(i), Live(i),
             To(c, i, "down"), UNCHANGED <<rows, held, provision>>
      PROVE  DisturbedInv'
  <2>1. /\ UNCHANGED <<destroyed, port_allocations>>
        /\ \A j \in Instances : Marking(j)' => Marking(j)
        /\ \A j \in Instances \ {i} : Destroying(j)' => Destroying(j)
    BY <1>5 DEF rows, held, Marking, Destroying, To
  <2>2. CASE provision[i] = "inserted" /\ ~Destroying(i)
    <3>1. Fault("early")
      BY <1>5, <2>2 DEF Beside, InFlight, Preparing
    <3>2. Disturbed' \subseteq Disturbed \cup {i}
      BY <1>5, <2>1 DEF Disturbed, BoundTo
    <3> QED
      BY <3>1, <3>2, OneDisturbed
  <2>3. CASE ~(provision[i] = "inserted" /\ ~Destroying(i))
    <3>1. Disturbed' \subseteq Disturbed
      BY <1>5, <2>1, <2>3 DEF Disturbed, BoundTo
    <3> QED
      BY <1>0, <3>1, NoneDisturbed
  <2> QED
    BY <2>2, <2>3
<1>6. ASSUME NEW i \in Instances, OwnerDestroys(i) \/ SweepDestroys(i)
      PROVE  DisturbedInv'
  <2>1. CASE UNCHANGED destroy
    <3>1. UNCHANGED <<destroyed, provision>>
      BY <1>6 DEF OwnerDestroys, SweepDestroys, rows
    <3> QED
      BY <1>0, <2>1, <3>1, DisturbanceKept DEF Destroying, Marking
  <2>2. CASE ~UNCHANGED destroy
    <3>1. PICK c \in Callers : destroy[c][i] = "idle" /\ Beside(i) /\ Live(i) /\ To(c, i, "down")
      BY <1>6, <2>2 DEF OwnerDestroys, SweepDestroys, Callers
    <3>2. UNCHANGED <<rows, held, provision>>
      BY <1>6 DEF OwnerDestroys, SweepDestroys
    <3> QED
      BY <1>5, <3>1, <3>2
  <2> QED
    BY <2>1, <2>2
<1>7. ASSUME NEW i \in Instances, Extend(i) \/ Expire(i)
      PROVE  DisturbedInv'
  BY <1>0, <1>7, DisturbanceKept DEF Extend, Expire, Destroying, Marking
<1>8. ASSUME NEW i \in Instances, NEW c \in Callers, ComposeDown(c, i) \/ RemoveDirAndCores(c, i)
      PROVE  DisturbedInv'
  <2>1. UNCHANGED <<provision, destroyed>> /\ destroy[c][i] # "idle"
    BY <1>8 DEF ComposeDown, RemoveDirAndCores, rows
  <2>2. \E step \in {"idle", "clean", "free"} : To(c, i, step)
    BY <1>8 DEF ComposeDown, RemoveDirAndCores
  <2>3. \A j \in Instances : (Destroying(j)' => Destroying(j)) /\ (Marking(j)' => Marking(j))
    BY <2>1, <2>2 DEF Destroying, Marking, To
  <2> QED
    BY <1>0, <2>1, <2>3, DisturbanceKept
<1>9. ASSUME NEW i \in Instances, NEW c \in Callers, FreePortBlock(c, i)
      PROVE  DisturbedInv'
  <2>1. /\ UNCHANGED <<provision, destroyed>> /\ destroy[c][i] # "idle"
        /\ port_allocations' = Freed(i) /\ To(c, i, "mark")
    BY <1>9 DEF FreePortBlock, rows
  <2>2. BoundTo(i)' = {}
    BY <2>1, NamesApart DEF BoundTo, Freed
  <2>3. \A j \in Instances : BoundTo(j)' \subseteq BoundTo(j)
    BY <2>1, BoundShrinks
  <2>4. /\ \A j \in Instances : Destroying(j)' => Destroying(j)
        /\ \A j \in Instances \ {i} : Marking(j)' => Marking(j)
    BY <2>1 DEF Destroying, Marking, To
  <2>5. Disturbed' \subseteq Disturbed
    BY <2>1, <2>2, <2>3, <2>4 DEF Disturbed
  <2> QED
    BY <1>0, <2>5, NoneDisturbed
<1>10. ASSUME NEW i \in Instances, NEW c \in Callers, MarkDestroyed(c, i)
       PROVE  DisturbedInv'
  <2>1. /\ UNCHANGED <<provision, port_allocations>> /\ destroy[c][i] = "mark"
        /\ destroyed' = destroyed \cup {i} /\ To(c, i, "idle")
    BY <1>10 DEF MarkDestroyed, held
  <2>2. Marking(i) /\ Destroying(i)
    BY <2>1 DEF Marking, Destroying
  <2>3. \A j \in Instances : (Destroying(j)' => Destroying(j)) /\ (Marking(j)' => Marking(j))
    BY <2>1 DEF Destroying, Marking, To
  <2>4. Disturbed' \subseteq Disturbed
    BY <2>1, <2>2, <2>3 DEF Disturbed, BoundTo
  <2> QED
    BY <1>0, <2>4, NoneDisturbed
<1>11. CASE CleanupExpired \/ WarmTick \/ UNCHANGED vars
  BY <1>0, <1>11, DisturbanceKept DEF CleanupExpired, WarmTick, vars, rows, Destroying, Marking
<1>12. CASE Restart
  <2>1. /\ destroyed' = destroyed
        /\ \A j \in Instances : /\ provision'[j] \notin {"inserted", "spawned"}
                                /\ ~Destroying(j)' /\ ~Marking(j)'
    BY <1>12 DEF Restart, rows, Destroying, Marking, InFlight, Preparing, Finalizing
  <2> QED
    BY <1>0, <2>1, DisturbanceKept
<1> QED
  BY <1>1, <1>2, <1>3, <1>4, <1>6, <1>7, <1>8, <1>9, <1>10, <1>11, <1>12, Steps

-----------------------------------------------------------------------------
(* The theorem. *)

LEMMA LeakInit == Init => LeakInv
<1> SUFFICES ASSUME Init
             PROVE  LeakInv
  OBVIOUS
<1>1. \A i \in Instances : BoundTo(i) = {} /\ ~Destroying(i) /\ ~Marking(i)
  BY NamesApart DEF Init, BoundTo, Destroying, Marking
<1>2. Admitted = {} /\ Stranded = {} /\ Disturbed = {}
  BY <1>1 DEF Init, Admitted, Stranded, Disturbed, Preparing, Uninserted
<1>3. \A f \in {"prepare", "warm", "crash", "early"} : faults[f] = 0
  BY DEF Init, Faults
<1>4. Parallel \in Nat /\ Parallel * 0 = 0
  BY InstancesAssumption
<1> QED
  BY <1>1, <1>2, <1>3, <1>4, FS_EmptySet
     DEF LeakInv, AdmittedInv, BindInv, StrandedInv, DisturbedInv

LEMMA LeakInvariant == Spec => [](LifeInv /\ LeakInv)
<1>1. LifeInv /\ LeakInv /\ [Next]_vars => LeakInv'
  BY AdmittedStep, BindStep, StrandedStep, DisturbedStep DEF LifeInv, LeakInv
<1> QED
  BY LeakInit, LifeInvariant, <1>1, PTL DEF Spec

\* Blocks bound to an instance that is gone.
Lost == {b \in Blocks : \E i \in Instances : port_allocations[b] = i /\ ~Live(i)}

LEMMA LostCounted ==
    ASSUME LifeInv, LeakInv
    PROVE  Cardinality(Lost) <= faults["early"]
<1> DEFINE f == [b \in Lost |-> port_allocations[b]]
<1>1. ASSUME NEW b \in Lost
      PROVE  port_allocations[b] \in Disturbed /\ b \in BoundTo(port_allocations[b])
  <2>1. PICK i \in Instances : port_allocations[b] = i /\ ~Live(i)
    BY DEF Lost
  <2>2. b \in BoundTo(i)
    BY <2>1 DEF Lost, BoundTo
  <2>3. i \in destroyed
    BY <2>1, <2>2 DEF Live, LeakInv, BindInv
  <2> QED
    BY <2>1, <2>2, <2>3 DEF Disturbed
<1>2. \A i \in Disturbed : \A b, c \in BoundTo(i) : b = c
  BY DEF LeakInv, BindInv, Disturbed
<1>3. f \in Injection(Lost, Disturbed)
  BY <1>1, <1>2 DEF Injection, IsInjective
<1>4. IsFiniteSet(Disturbed) /\ Cardinality(Disturbed) \in Nat
  BY SetsFinite DEF Disturbed
<1>5. Cardinality(Lost) <= Cardinality(Disturbed)
  BY <1>3, <1>4, FS_Injection
<1>6. Cardinality(Lost) \in Nat /\ faults["early"] \in Nat
  BY SetsFinite DEF Lost, LifeInv, TypeOK, Faults
<1> QED
  BY <1>4, <1>5, <1>6 DEF LeakInv, DisturbedInv

\* Port blocks are lost in four ways only, each as often as it happens, and a
\* crash costs no more blocks than there are requests under way.
THEOREM BlocksAccounted == Spec => []LeaksAccounted
<1>1. ASSUME LifeInv, LeakInv
      PROVE  LeaksAccounted
  <2>1. Leaked \subseteq Stranded \cup Lost
    BY DEF Leaked, Stranded, Lost, Claiming, Preparing, Uninserted
  <2>2. /\ IsFiniteSet(Stranded) /\ Cardinality(Stranded) \in Nat
        /\ IsFiniteSet(Lost) /\ Cardinality(Lost) \in Nat
        /\ Cardinality(Leaked) \in Nat
    BY SetsFinite DEF Stranded, Lost, Leaked
  <2>3. /\ IsFiniteSet(Stranded \cup Lost)
        /\ Cardinality(Stranded \cup Lost) =
              Cardinality(Stranded) + Cardinality(Lost) - Cardinality(Stranded \cap Lost)
    BY <2>2, FS_Union
  <2>4. Cardinality(Stranded \cap Lost) \in Nat
    BY <2>2, FS_Subset, FS_CardinalityType
  <2>5. Cardinality(Leaked) <= Cardinality(Stranded \cup Lost)
    BY <2>1, <2>3, FS_Subset
  <2>6. Cardinality(Stranded) <= Allowance
    BY <1>1 DEF LeakInv, StrandedInv, Allowance
  <2>7. Cardinality(Lost) <= faults["early"]
    BY <1>1, LostCounted
  <2>8. Allowance \in Nat /\ faults["early"] \in Nat
    BY <1>1, AllowanceType DEF LifeInv, TypeOK, Faults
  <2>9. Cardinality(Leaked) <= Allowance + faults["early"]
    BY <2>2, <2>3, <2>4, <2>5, <2>6, <2>7, <2>8
  <2>10. /\ faults["prepare"] \in Nat /\ faults["warm"] \in Nat
         /\ Parallel * faults["crash"] \in Nat
    BY <1>1, AllowanceType DEF LifeInv
  <2> QED
    BY <2>8, <2>9, <2>10 DEF Allowance, LeaksAccounted
<1> QED
  BY LeakInvariant, <1>1, PTL

-----------------------------------------------------------------------------
(* What is lost stays lost. *)

\* A request has no block before it allocates one.
UnclaimedInv == \A i \in Instances : provision[i] \in {"none", "counted"} => block[i] = NoBlock

\* A destroy has its instance for itself, and its row is live.
AloneInv == faults["overlap"] = 0 => \A i \in Instances : Alone(i)

LEMMA UnclaimedStep ==
    ASSUME TypeOK, UnclaimedInv, [Next]_vars
    PROVE  UnclaimedInv'
<1> USE DEF TypeOK
<1>1. ASSUME UNCHANGED block,
             \A j \in Instances :
                provision'[j] \in {"none", "counted"} => provision[j] \in {"none", "counted"}
      PROVE  UnclaimedInv'
  BY <1>1 DEF UnclaimedInv
<1>2. ASSUME NEW i \in Instances, AllocatePortBlock(i)
      PROVE  UnclaimedInv'
  <2>1. /\ \A j \in Instances \ {i} : block'[j] = block[j] /\ provision'[j] = provision[j]
        /\ provision'[i] \in {"ported", "over"}
    BY <1>2 DEF AllocatePortBlock, Goto
  <2> QED
    BY <2>1 DEF UnclaimedInv
<1>3. ASSUME NEW i \in Instances, \/ CheckCapacity(i) \/ AllocateCpuSet(i) \/ WriteFiles(i)
                                  \/ InsertInstance(i) \/ BindPort(i)
      PROVE  UnclaimedInv'
  BY <1>1, <1>3 DEF CheckCapacity, AllocateCpuSet, WriteFiles, InsertInstance, BindPort, Goto, held
<1>4. ASSUME NEW i \in Instances, ReadRow(i) \/ ComposeUp(i) \/ WaitForHealth(i) \/ UpdateStatus(i)
      PROVE  UnclaimedInv'
  BY <1>1, <1>4 DEF ReadRow, ComposeUp, AfterFailedUp, WaitForHealth, UpdateStatus, Goto, held
<1>5. ASSUME NEW i \in Instances, OwnerDestroys(i) \/ SweepDestroys(i) \/ Extend(i) \/ Expire(i)
      PROVE  UnclaimedInv'
  BY <1>1, <1>5 DEF OwnerDestroys, SweepDestroys, Extend, Expire, held
<1>6. ASSUME NEW i \in Instances, NEW c \in Callers,
             \/ ComposeDown(c, i) \/ RemoveDirAndCores(c, i)
             \/ FreePortBlock(c, i) \/ MarkDestroyed(c, i)
      PROVE  UnclaimedInv'
  BY <1>1, <1>6 DEF ComposeDown, RemoveDirAndCores, FreePortBlock, MarkDestroyed, held
<1>7. CASE CleanupExpired \/ WarmTick \/ Restart \/ UNCHANGED vars
  BY <1>1, <1>7 DEF CleanupExpired, WarmTick, Restart, vars, held
<1> QED
  BY <1>2, <1>3, <1>4, <1>5, <1>6, <1>7, Steps

\* Only MarkDestroyed ends a row, and no row begins again.
LEMMA RowsStay ==
    ASSUME TypeOK, [Next]_vars, NEW j \in Instances
    PROVE  /\ j \in destroyed => j \in destroyed'
           /\ Live(j) => Live(j)' \/ \E c \in Callers : MarkDestroyed(c, j)
<1>1. status'[j] = "none" => status[j] = "none"
  BY RequestChanges
<1>2. CASE UNCHANGED destroyed
  BY <1>1, <1>2 DEF Live
<1>3. ASSUME NEW i \in Instances, NEW c \in Callers, MarkDestroyed(c, i)
      PROVE  /\ j \in destroyed => j \in destroyed'
             /\ Live(j) => Live(j)' \/ \E d \in Callers : MarkDestroyed(d, j)
  <2>1. destroyed' = destroyed \cup {i}
    BY <1>3 DEF MarkDestroyed
  <2>2. CASE i = j
    BY <1>3, <2>1, <2>2
  <2>3. CASE i # j
    BY <1>1, <2>1, <2>3 DEF Live
  <2> QED
    BY <2>2, <2>3
<1>4. ASSUME NEW i \in Instances,
             \/ CheckCapacity(i) \/ AllocatePortBlock(i) \/ AllocateCpuSet(i) \/ WriteFiles(i)
             \/ InsertInstance(i) \/ BindPort(i) \/ ReadRow(i) \/ ComposeUp(i)
             \/ WaitForHealth(i) \/ UpdateStatus(i) \/ OwnerDestroys(i) \/ SweepDestroys(i)
             \/ Extend(i) \/ Expire(i)
      PROVE  UNCHANGED destroyed
  BY <1>4 DEF CheckCapacity, AllocatePortBlock, AllocateCpuSet, WriteFiles, InsertInstance,
              BindPort, ReadRow, ComposeUp, WaitForHealth, UpdateStatus, OwnerDestroys,
              SweepDestroys, Extend, Expire, rows
<1>5. ASSUME NEW i \in Instances, NEW c \in Callers,
             ComposeDown(c, i) \/ RemoveDirAndCores(c, i) \/ FreePortBlock(c, i)
      PROVE  UNCHANGED destroyed
  BY <1>5 DEF ComposeDown, RemoveDirAndCores, FreePortBlock, rows
<1>6. CASE CleanupExpired \/ WarmTick \/ Restart \/ UNCHANGED vars
  BY <1>2, <1>6 DEF CleanupExpired, WarmTick, Restart, vars, rows
<1> QED
  BY <1>2, <1>3, <1>4, <1>5, <1>6, Steps

LEMMA AloneStep ==
    ASSUME TypeOK, AloneInv, [Next]_vars
    PROVE  AloneInv'
<1> SUFFICES ASSUME faults'["overlap"] = 0
             PROVE  \A j \in Instances : Alone(j)'
  BY DEF AloneInv
<1> USE DEF TypeOK
<1>1. faults["overlap"] = 0
  BY EachRemembers DEF Remembered, Faults
<1>2. \A j \in Instances : Alone(j)
  BY <1>1 DEF AloneInv
\* A step that begins no destroy and ends none by marking its row.
<1>3. ASSUME \A j \in Instances : ~\E c \in Callers : MarkDestroyed(c, j),
             \A j \in Instances, c \in Callers : destroy'[c][j] # "idle" => destroy[c][j] # "idle"
      PROVE  \A j \in Instances : Alone(j)'
  <2>1. \A j \in Instances : Live(j) => Live(j)'
    BY <1>3, RowsStay
  <2> QED
    BY <1>2, <1>3, <2>1 DEF Alone
<1>4. ASSUME NEW i \in Instances, NEW c \in Callers, Live(i), Beside(i),
             To(c, i, "down"), UNCHANGED rows
      PROVE  \A j \in Instances : Alone(j)'
  <2>1. ~Destroying(i)
    <3> SUFFICES ASSUME Destroying(i)
                 PROVE  FALSE
      OBVIOUS
    <3>1. Fault("overlap")
      BY <1>4 DEF Beside
    <3> QED
      BY <1>1, <3>1, FaultAdds DEF Faults
  <2>2. \A j \in Instances : Live(j)' <=> Live(j)
    BY <1>4 DEF Live, rows
  <2> QED
    BY <1>2, <1>4, <2>1, <2>2 DEF Alone, Destroying, To
<1>5. ASSUME NEW i \in Instances, OwnerDestroys(i) \/ SweepDestroys(i)
      PROVE  \A j \in Instances : Alone(j)'
  <2>1. CASE UNCHANGED destroy
    <3>1. UNCHANGED rows
      BY <1>5 DEF OwnerDestroys, SweepDestroys
    <3> QED
      BY <1>2, <2>1, <3>1 DEF Alone, Live, rows
  <2>2. CASE ~UNCHANGED destroy
    <3>1. PICK c \in Callers : Beside(i) /\ Live(i) /\ To(c, i, "down")
      BY <1>5, <2>2 DEF OwnerDestroys, SweepDestroys, Callers
    <3> QED
      BY <1>4, <1>5, <3>1 DEF OwnerDestroys, SweepDestroys
  <2> QED
    BY <2>1, <2>2
<1>6. ASSUME NEW i \in Instances, NEW c \in Callers, MarkDestroyed(c, i)
      PROVE  \A j \in Instances : Alone(j)'
  <2>1. /\ destroy[c][i] = "mark" /\ To(c, i, "idle")
        /\ destroyed' = destroyed \cup {i} /\ status' = [status EXCEPT ![i] = "destroyed"]
    BY <1>6 DEF MarkDestroyed
  <2>2. \A d \in Callers : destroy'[d][i] = "idle"
    BY <1>2, <2>1 DEF Alone, To
  <2>3. \A j \in Instances \ {i} : /\ Live(j)' <=> Live(j)
                                   /\ \A d \in Callers : destroy'[d][j] = destroy[d][j]
    BY <2>1 DEF Live, To
  <2> QED
    BY <1>2, <2>2, <2>3 DEF Alone
<1>7. ASSUME NEW i \in Instances, NEW c \in Callers,
             ComposeDown(c, i) \/ RemoveDirAndCores(c, i) \/ FreePortBlock(c, i)
      PROVE  \A j \in Instances : Alone(j)'
  <2>1. \A j \in Instances, d \in Callers : destroy'[d][j] # "idle" => destroy[d][j] # "idle"
    BY <1>7 DEF ComposeDown, RemoveDirAndCores, FreePortBlock, To
  <2>2. UNCHANGED rows
    BY <1>7 DEF ComposeDown, RemoveDirAndCores, FreePortBlock
  <2>3. \A j \in Instances : Live(j)' <=> Live(j)
    BY <2>2 DEF Live, rows
  <2> QED
    BY <1>2, <2>1, <2>3 DEF Alone
<1>8. CASE UNCHANGED destroy
  <2> SUFFICES ASSUME \A i \in Instances, c \in Callers : ~MarkDestroyed(c, i)
               PROVE  \A j \in Instances : Alone(j)'
    BY <1>6
  <2> QED
    BY <1>3, <1>8
<1>9. ASSUME NEW i \in Instances,
             \/ CheckCapacity(i) \/ AllocatePortBlock(i) \/ AllocateCpuSet(i) \/ WriteFiles(i)
             \/ InsertInstance(i) \/ BindPort(i) \/ ReadRow(i) \/ ComposeUp(i)
             \/ WaitForHealth(i) \/ UpdateStatus(i) \/ Extend(i) \/ Expire(i)
      PROVE  UNCHANGED destroy
  BY <1>9 DEF CheckCapacity, AllocatePortBlock, AllocateCpuSet, WriteFiles, InsertInstance,
              BindPort, ReadRow, ComposeUp, WaitForHealth, UpdateStatus, Extend, Expire
<1>10. CASE Restart
  <2>1. \A j \in Instances, c \in Callers : destroy'[c][j] = "idle"
    BY <1>10 DEF Restart
  <2> QED
    BY <2>1 DEF Alone
<1>11. CASE CleanupExpired \/ WarmTick \/ UNCHANGED vars
  BY <1>8, <1>11 DEF CleanupExpired, WarmTick, vars
<1> QED
  BY <1>5, <1>6, <1>7, <1>8, <1>9, <1>10, <1>11, Steps

\* A request begins to claim a block when it allocates it, and keeps to it.
LEMMA ClaimBegins ==
    ASSUME TypeOK, [Next]_vars, NEW j \in Instances, provision'[j] \in Claiming
    PROVE  \/ AllocatePortBlock(j)
           \/ provision[j] \in Claiming /\ block'[j] = block[j]
<1> USE DEF TypeOK, Claiming
<1>1. ASSUME NEW i \in Instances, AllocatePortBlock(i), i # j
      PROVE  provision[j] \in Claiming /\ block'[j] = block[j]
  BY <1>1 DEF AllocatePortBlock, Goto
<1>2. ASSUME NEW i \in Instances, \/ CheckCapacity(i) \/ AllocateCpuSet(i) \/ WriteFiles(i)
                                  \/ InsertInstance(i) \/ BindPort(i)
      PROVE  provision[j] \in Claiming /\ block' = block
  BY <1>2 DEF CheckCapacity, AllocateCpuSet, WriteFiles, InsertInstance, BindPort, Goto, held
<1>3. ASSUME NEW i \in Instances, ReadRow(i) \/ ComposeUp(i) \/ WaitForHealth(i) \/ UpdateStatus(i)
      PROVE  provision[j] \in Claiming /\ block' = block
  BY <1>3 DEF ReadRow, ComposeUp, AfterFailedUp, WaitForHealth, UpdateStatus, Goto, held
<1>4. ASSUME NEW i \in Instances, OwnerDestroys(i) \/ SweepDestroys(i) \/ Extend(i) \/ Expire(i)
      PROVE  provision[j] \in Claiming /\ block' = block
  BY <1>4 DEF OwnerDestroys, SweepDestroys, Extend, Expire, held
<1>5. ASSUME NEW i \in Instances, NEW c \in Callers,
             \/ ComposeDown(c, i) \/ RemoveDirAndCores(c, i)
             \/ FreePortBlock(c, i) \/ MarkDestroyed(c, i)
      PROVE  provision[j] \in Claiming /\ block' = block
  BY <1>5 DEF ComposeDown, RemoveDirAndCores, FreePortBlock, MarkDestroyed, held
<1>6. CASE CleanupExpired \/ WarmTick \/ Restart \/ UNCHANGED vars
  BY <1>6 DEF CleanupExpired, WarmTick, Restart, vars, held
<1> QED
  BY <1>1, <1>2, <1>3, <1>4, <1>5, <1>6, Steps

\* A block that nobody is going to bind stays so.
LEMMA StrandedStays ==
    ASSUME TypeOK, PortInv, [Next]_vars, NEW b \in Stranded
    PROVE  b \in Stranded'
<1> USE DEF TypeOK
<1>0. b \in Blocks /\ port_allocations[b] = "unbound"
  BY DEF Stranded
<1>1. port_allocations'[b] = "unbound"
  <2>1. ASSUME NEW i \in Instances, AllocatePortBlock(i)
        PROVE  port_allocations'[b] = "unbound"
    BY <1>0, <2>1 DEF AllocatePortBlock
  <2>2. ASSUME NEW i \in Instances, BindPort(i)
        PROVE  port_allocations'[b] = "unbound"
    <3>1. block[i] # b
      BY <2>2 DEF BindPort, Stranded, Claiming
    <3> QED
      BY <1>0, <2>2, <3>1 DEF BindPort
  <2>3. ASSUME NEW i \in Instances, NEW c \in Callers, FreePortBlock(c, i)
        PROVE  port_allocations'[b] = "unbound"
    BY <1>0, <2>3, NamesApart DEF FreePortBlock, Freed
  <2>4. CASE WarmTick
    BY <1>0, <2>4 DEF WarmTick
  <2> QED
    BY <1>0, <2>1, <2>2, <2>3, <2>4, PortChanges
<1>2. ASSUME NEW i \in Instances, provision'[i] \in Claiming, block'[i] = b
      PROVE  FALSE
  <2>1. CASE AllocatePortBlock(i)
    <3>1. FreeBlocks # {} /\ block'[i] = Min(FreeBlocks)
      BY <1>2, <2>1 DEF AllocatePortBlock, Goto, Claiming
    <3>2. Min(FreeBlocks) \in FreeBlocks
      BY <3>1, Allocated
    <3> QED
      BY <1>0, <1>2, <3>1, <3>2 DEF FreeBlocks
  <2>2. CASE block'[i] = block[i] /\ provision[i] \in Claiming
    BY <1>2, <2>2 DEF Stranded
  <2>3. CASE ~AllocatePortBlock(i)
    BY <1>2, <2>2, <2>3, ClaimBegins
  <2> QED
    BY <2>1, <2>3
<1> QED
  BY <1>0, <1>1, <1>2 DEF Stranded

\* A block of an instance that is gone stays bound to it.
LEMMA LostStays ==
    ASSUME LifeInv, BindInv, AloneInv, [Next]_vars, faults'["overlap"] = 0, NEW b \in Lost
    PROVE  b \in Lost'
<1> USE DEF TypeOK
<1>0. TypeOK /\ b \in Blocks
  BY DEF LifeInv, Lost
<1>1. PICK i \in Instances : port_allocations[b] = i /\ ~Live(i)
  BY DEF Lost
<1>2. i \in destroyed
  BY <1>0, <1>1 DEF Live, BindInv, BoundTo
<1>3. ~Live(i)'
  BY <1>0, <1>2, RowsStay DEF Live
<1>4. port_allocations'[b] = i
  <2>1. ASSUME NEW j \in Instances, AllocatePortBlock(j)
        PROVE  port_allocations'[b] = i
    <3>1. FreeBlocks # {} => Min(FreeBlocks) \in FreeBlocks
      BY Allocated
    <3>2. b \notin FreeBlocks
      BY <1>1, NamesApart DEF FreeBlocks
    <3> QED
      BY <1>0, <1>1, <2>1, <3>1, <3>2 DEF AllocatePortBlock
  <2>2. ASSUME NEW j \in Instances, BindPort(j)
        PROVE  port_allocations'[b] = i
    <3>1. port_allocations[block[j]] = "unbound"
      BY <2>2 DEF BindPort, LifeInv, PortInv, Claims, Claiming
    <3>2. block[j] # b
      BY <1>1, <3>1, NamesApart
    <3> QED
      BY <1>0, <1>1, <2>2, <3>2 DEF BindPort
  <2>3. ASSUME NEW j \in Instances, NEW c \in Callers, FreePortBlock(c, j)
        PROVE  port_allocations'[b] = i
    <3>1. faults["overlap"] = 0
      BY <1>0, EachRemembers DEF Remembered, Faults
    <3>2. i # j
      BY <1>1, <2>3, <3>1 DEF FreePortBlock, AloneInv, Alone
    <3> QED
      BY <1>0, <1>1, <2>3, <3>2 DEF FreePortBlock, Freed
  <2>4. CASE WarmTick
    <3>1. Min(FreeBlocks) \in FreeBlocks
      BY <2>4, Allocated DEF WarmTick
    <3>2. b # Min(FreeBlocks)
      BY <1>1, <3>1, NamesApart DEF FreeBlocks
    <3> QED
      BY <1>0, <1>1, <2>4, <3>2 DEF WarmTick
  <2> QED
    BY <1>1, <2>1, <2>2, <2>3, <2>4, PortChanges
<1> QED
  BY <1>0, <1>1, <1>3, <1>4 DEF Lost

\* With no request that holds a block before it allocates one, what is lost is
\* lost unbound or bound to an instance that is gone.
LEMMA LeakedKinds ==
    ASSUME UnclaimedInv
    PROVE  Leaked = Stranded \cup Lost
<1>1. NoBlock \notin Blocks
  BY InstancesAssumption DEF NoBlock, Blocks
<1>2. ASSUME NEW i \in Instances, block[i] \in Blocks
      PROVE  provision[i] \in Preparing <=> provision[i] \in Claiming
  BY <1>1, <1>2 DEF UnclaimedInv, Preparing, Uninserted, Claiming
<1> QED
  BY <1>2 DEF Leaked, Stranded, Lost

\* A lost port block stays lost, over restarts too: no step of the node gives it
\* back, unless two destroys of one instance overlap.
THEOREM LostForGood == Spec => LeaksStay
<1> DEFINE Kinds == Leaked = Stranded \cup Lost
<1>1. Init => UnclaimedInv /\ AloneInv
  BY DEF Init, UnclaimedInv, AloneInv, Alone
<1>2. LifeInv /\ UnclaimedInv /\ AloneInv /\ [Next]_vars => UnclaimedInv' /\ AloneInv'
  BY UnclaimedStep, AloneStep DEF LifeInv
<1>3. UnclaimedInv => Kinds
  BY LeakedKinds
<1>4. LifeInv /\ LeakInv /\ AloneInv /\ Kinds /\ Kinds' /\ [Next]_vars
      => [faults'["overlap"] = 0 => Leaked \subseteq Leaked']_vars
  <2> SUFFICES ASSUME LifeInv, LeakInv, AloneInv, Kinds, Kinds', [Next]_vars,
                      faults'["overlap"] = 0
               PROVE  Leaked \subseteq Leaked'
    OBVIOUS
  <2>1. Stranded \subseteq Stranded'
    BY StrandedStays DEF LifeInv
  <2>2. Lost \subseteq Lost'
    BY LostStays DEF LeakInv
  <2> QED
    BY <2>1, <2>2
<1> HIDE DEF Kinds
<1> QED
  BY LeakInvariant, <1>1, <1>2, <1>3, <1>4, PTL DEF Spec, LeaksStay
=============================================================================
