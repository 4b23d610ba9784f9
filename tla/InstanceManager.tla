--------------------------- MODULE InstanceManager ---------------------------
(***************************************************************************)
(* The life of the instances of one node (instance_manager.rs, the tables  *)
(* instances and port_allocations of db/mod.rs, provision_handler,         *)
(* destroy_handler, extend_handler and the cleanup loop of main.rs, the    *)
(* maintenance tick of warm_pool.rs).                                      *)
(*                                                                         *)
(* Every call of Database takes the connection's mutex for one statement:  *)
(* the handlers interleave between two calls.  Port blocks are numbered    *)
(* from port_range_start on, cores by pairs.  A request that is refused    *)
(* changes nothing and is left out.  foreign_keys is ON, so that the warm  *)
(* pool never holds a stack: bind_port_to_instance refuses the name of a   *)
(* warm project, take() returns None and provision_from_warm is never      *)
(* called (WarmTick).                                                      *)
(***************************************************************************)
EXTENDS Naturals, FiniteSets, FiniteSetsExt

CONSTANTS
    Instances,     \* the ids the requests draw (a nanoid is never drawn twice)
    Extended,      \* bound: the instances whose owner asks for an extension
    NBlocks,       \* port blocks between port_range_start and port_range_end
    NPairs,        \* available_cpu_cores / 2
    MaxInstances,  \* max_instances
    Parallel,      \* bound: provision requests in prepare_provision
    MaxFaults,     \* bound: each of Faults
    MaxTotal       \* bound: all of them together

Blocks == 0..(NBlocks - 1)
Pairs == 0..(NPairs - 1)
NoBlock == NBlocks + 1
NoCores == NPairs + 1

\* "prepare": a file operation of prepare_provision fails.  "docker": a docker
\* command cannot be spawned or exits non-zero, or a container dies.  "rm": a
\* directory cannot be removed.  "warm": a tick of the warm pool.  "leave": the
\* client of a destroy leaves.  "crash": the node's process ends and is started
\* again.  "early": an instance is destroyed while it is provisioned.  "overlap":
\* it is destroyed by two at once.
Faults == {"prepare", "docker", "rm", "warm", "leave", "crash", "early", "overlap"}

ASSUME InstancesAssumption ==
    /\ IsFiniteSet(Instances) /\ Extended \subseteq Instances /\ Instances \cap {"free", "unbound"} = {}
    /\ NBlocks \in Nat /\ NPairs \in Nat
    /\ MaxInstances \in Nat \ {0} /\ Parallel \in Nat \ {0}
    /\ MaxFaults \in [Faults -> Nat] /\ MaxTotal \in Nat

VARIABLES
    status,            \* instances.status; "none": no row
    destroyed,         \* rows with destroyed_at
    expires,           \* instances.expires_at
    block,             \* base_port of a request, and of its row
    cores,             \* cpuset of a request, and of its row
    port_allocations,  \* the instance each block is bound to
    allocated_cores,   \* InstanceManager::allocated_cores
    stack,             \* containers of each compose project
    dirs,              \* instance directories on disk
    provision,         \* where each provision request is
    destroy,           \* where each destroy is, by caller and instance
    expired,           \* rows the cleanup loop has read and not yet destroyed
    faults             \* faults so far

vars == <<status, destroyed, expires, block, cores, port_allocations, allocated_cores,
          stack, dirs, provision, destroy, expired, faults>>
rows == <<status, destroyed, expires>>
held == <<block, cores, port_allocations, allocated_cores>>
host == <<stack, dirs>>

Uninserted == {"counted", "ported", "cored", "written"}
Preparing == Uninserted \cup {"inserted"}
Upping == {"up1", "up2", "up3"}
Finalizing == {"spawned", "waiting", "healthy", "unhealthy"} \cup Upping
InFlight == Preparing \cup Finalizing
Callers == {"owner", "sweep"}
DestroySteps == {"idle", "down", "clean", "free", "mark"}

TypeOK ==
    /\ status \in [Instances -> {"none", "provisioning", "running", "degraded", "destroyed"}]
    /\ destroyed \subseteq Instances
    /\ expires \in [Instances -> {"never", "ahead", "past"}]
    /\ block \in [Instances -> Blocks \cup {NoBlock}]
    /\ cores \in [Instances -> Pairs \cup {NoCores}]
    /\ port_allocations \in [Blocks -> Instances \cup {"free", "unbound"}]
    /\ allocated_cores \subseteq Pairs
    /\ stack \in [Instances -> {"none", "partial", "up"}]
    /\ dirs \subseteq Instances
    /\ provision \in [Instances -> InFlight \cup {"none", "over", "lost"}]
    /\ destroy \in [Callers -> [Instances -> DestroySteps]]
    /\ expired \subseteq Instances
    /\ faults \in [Faults -> Nat]

Init ==
    /\ status = [i \in Instances |-> "none"] /\ destroyed = {}
    /\ expires = [i \in Instances |-> "never"]
    /\ block = [i \in Instances |-> NoBlock] /\ cores = [i \in Instances |-> NoCores]
    /\ port_allocations = [b \in Blocks |-> "free"] /\ allocated_cores = {}
    /\ stack = [i \in Instances |-> "none"] /\ dirs = {}
    /\ provision = [i \in Instances |-> "none"]
    /\ destroy = [c \in Callers |-> [i \in Instances |-> "idle"]] /\ expired = {}
    /\ faults = [f \in Faults |-> 0]

-----------------------------------------------------------------------------
(* Tables. *)

\* What get_instance and get_instance_by_id find.
Live(i) == status[i] # "none" /\ i \notin destroyed

Destroying(i) == \E c \in Callers : destroy[c][i] # "idle"

\* Mutated form: rows that are still provisioned do not count.
CountedWhenRunning == {i \in Instances : status[i] = "running" /\ i \notin destroyed}

\* running_instance_count.
Counted == {i \in Instances : status[i] \in {"running", "provisioning"} /\ i \notin destroyed}

\* Mutated form: only the blocks of instances are walked over.
Unowned == {b \in Blocks : port_allocations[b] \in {"free", "unbound"}}

\* The gaps allocate_port_block walks over; blocks never overlap in part.
FreeBlocks == {b \in Blocks : port_allocations[b] = "free"}

\* Mutated form: the pairs are taken from the rows, not from allocated_cores.
PairsOfRows == Pairs \ {cores[i] : i \in {j \in Instances : Live(j)}}

FreePairs == Pairs \ allocated_cores

Fault(f) ==
    /\ faults[f] < MaxFaults[f]
    /\ MapThenSumSet(LAMBDA g : faults[g], Faults) < MaxTotal
    /\ faults' = [faults EXCEPT ![f] = @ + 1]

Goto(i, place) == provision' = [provision EXCEPT ![i] = place]

-----------------------------------------------------------------------------
(* prepare_provision. *)

CheckCapacity(i) ==
    /\ provision[i] = "none"
    /\ Cardinality({j \in Instances : provision[j] \in Preparing}) < Parallel
    /\ Cardinality(Counted) < MaxInstances
    /\ Goto(i, "counted")
    /\ UNCHANGED <<rows, held, host, destroy, expired, faults>>

AllocatePortBlock(i) ==
    /\ provision[i] = "counted"
    /\ \/ /\ FreeBlocks # {}
          /\ block' = [block EXCEPT ![i] = Min(FreeBlocks)]
          /\ port_allocations' = [port_allocations EXCEPT ![block'[i]] = "unbound"]
          /\ Goto(i, "ported")
       \/ /\ FreeBlocks = {}
          /\ Goto(i, "over")
          /\ UNCHANGED <<block, port_allocations>>
    /\ UNCHANGED <<rows, cores, allocated_cores, host, destroy, expired, faults>>

\* Without a free pair the instance runs unconstrained.
AllocateCpuSet(i) ==
    /\ provision[i] = "ported"
    /\ \/ /\ FreePairs # {}
          /\ cores' = [cores EXCEPT ![i] = Min(FreePairs)]
          /\ allocated_cores' = allocated_cores \cup {cores'[i]}
       \/ /\ FreePairs = {}
          /\ UNCHANGED <<cores, allocated_cores>>
    /\ Goto(i, "cored")
    /\ UNCHANGED <<rows, block, port_allocations, host, destroy, expired, faults>>

\* On an error nothing is given back.
WriteFiles(i) ==
    /\ provision[i] = "cored"
    /\ \/ /\ dirs' = dirs \cup {i} /\ Goto(i, "written")
          /\ UNCHANGED faults
       \/ /\ Fault("prepare") /\ Goto(i, "over")
          /\ dirs' \in {dirs, dirs \cup {i}}
    /\ UNCHANGED <<rows, held, stack, destroy, expired>>

InsertInstance(i) ==
    /\ provision[i] = "written"
    /\ status' = [status EXCEPT ![i] = "provisioning"]
    /\ Goto(i, "inserted")
    /\ UNCHANGED <<destroyed, expires, held, host, destroy, expired, faults>>

\* The end of prepare_provision; provision_handler spawns finalize_provision.
BindPort(i) ==
    /\ provision[i] = "inserted"
    /\ port_allocations' = [port_allocations EXCEPT ![block[i]] = i]
    /\ Goto(i, "spawned")
    /\ UNCHANGED <<rows, block, cores, allocated_cores, host, destroy, expired, faults>>

-----------------------------------------------------------------------------
(* finalize_provision. *)

ReadRow(i) ==
    /\ provision[i] = "spawned"
    /\ Goto(i, IF Live(i) THEN "up1" ELSE "over")
    /\ UNCHANGED <<rows, held, host, destroy, expired, faults>>

\* External: Docker refuses to publish a port twice.
PortTaken(i) == \E j \in Instances \ {i} : stack[j] # "none" /\ block[j] = block[i]

AfterFailedUp(place) == CASE place = "up1" -> "up2" [] place = "up2" -> "up3" [] OTHER -> "waiting"

\* A command cannot be spawned in a directory that is gone.
ComposeUp(i) ==
    /\ provision[i] \in Upping
    /\ \/ /\ i \in dirs /\ ~PortTaken(i)
          /\ stack' = [stack EXCEPT ![i] = "up"] /\ Goto(i, "waiting")
          /\ UNCHANGED faults
       \/ /\ i \in dirs /\ (IF PortTaken(i) THEN UNCHANGED faults ELSE Fault("docker"))
          /\ stack' = [stack EXCEPT ![i] = IF @ = "up" THEN @ ELSE "partial"]
          /\ Goto(i, AfterFailedUp(provision[i]))
       \/ /\ IF i \in dirs THEN Fault("docker") ELSE UNCHANGED faults
          /\ Goto(i, "over")
          /\ UNCHANGED stack
    /\ UNCHANGED <<rows, held, dirs, destroy, expired>>

WaitForHealth(i) ==
    /\ provision[i] = "waiting"
    /\ \/ /\ stack[i] = "up" /\ Goto(i, "healthy") /\ UNCHANGED faults
       \/ /\ IF stack[i] = "up" THEN Fault("docker") ELSE UNCHANGED faults
          /\ Goto(i, "unhealthy")
    /\ UNCHANGED <<rows, held, host, destroy, expired>>

\* Mutated form: a stack that never got healthy leaves its row as it was.
OnlyHealthy(i) == IF provision[i] = "healthy" THEN "running" ELSE status[i]

FinalStatus(i) == IF provision[i] = "healthy" THEN "running" ELSE "degraded"

\* update_instance_status does not look at destroyed_at.
UpdateStatus(i) ==
    /\ provision[i] \in {"healthy", "unhealthy"}
    /\ status' = [status EXCEPT ![i] = FinalStatus(i)]
    /\ Goto(i, "over")
    /\ UNCHANGED <<destroyed, expires, held, host, destroy, expired, faults>>

-----------------------------------------------------------------------------
(* destroy, called for the owner and by the cleanup loop. *)

To(c, i, step) == destroy' = [destroy EXCEPT ![c][i] = step]

\* The two ways in which a destroy may start beside something else.
Beside(i) ==
    CASE Destroying(i)                                -> Fault("overlap")
      [] ~Destroying(i) /\ provision[i] \in InFlight -> Fault("early")
      [] OTHER                                        -> UNCHANGED faults

OwnerDestroys(i) ==
    /\ destroy["owner"][i] = "idle"
    /\ Live(i)
    /\ Beside(i)
    /\ To("owner", i, "down")
    /\ UNCHANGED <<rows, held, host, provision, expired>>

\* Mutated form: the dates are compared the wrong way round.
NeverExpired == {i \in Instances : expires[i] = "ahead" /\ status[i] = "running"}

\* expired_instance_ids does not look at destroyed_at.
ExpiredIds == {i \in Instances : expires[i] = "past" /\ status[i] = "running"}

SweepIdle == expired = {} /\ \A i \in Instances : destroy["sweep"][i] = "idle"

CleanupExpired ==
    /\ SweepIdle
    /\ ExpiredIds # {}
    /\ expired' = ExpiredIds
    /\ UNCHANGED <<rows, held, host, provision, destroy, faults>>

\* The next one of the list; destroy fails when the row is destroyed by now.
SweepDestroys(i) ==
    /\ i \in expired
    /\ \A j \in Instances : destroy["sweep"][j] = "idle"
    /\ expired' = expired \ {i}
    /\ IF Live(i) THEN Beside(i) /\ To("sweep", i, "down")
                  ELSE UNCHANGED <<destroy, faults>>
    /\ UNCHANGED <<rows, held, host, provision>>

\* Mutated form: the directory is removed first, so that down cannot be spawned.
RemoveFirst(c, i) ==
    /\ destroy[c][i] = "down"
    /\ dirs' = dirs \ {i}
    /\ To(c, i, "clean")
    /\ UNCHANGED <<rows, held, stack, provision, expired, faults>>

\* docker compose down: done, refused by Docker, or not spawned.  It is the only
\* await: a handler whose client leaves is dropped here and its command ends alone.
ComposeDown(c, i) ==
    /\ destroy[c][i] = "down"
    /\ \/ /\ i \in dirs /\ stack' = [stack EXCEPT ![i] = "none"] /\ To(c, i, "clean")
          /\ UNCHANGED faults
       \/ /\ i \in dirs /\ Fault("docker") /\ To(c, i, "clean")
          /\ UNCHANGED stack
       \/ /\ IF i \in dirs THEN Fault("docker") ELSE UNCHANGED faults
          /\ To(c, i, "idle")
          /\ UNCHANGED stack
       \/ /\ c = "owner" /\ i \in dirs /\ Fault("leave") /\ To(c, i, "idle")
          /\ stack' \in {stack, [stack EXCEPT ![i] = "none"]}
    /\ UNCHANGED <<rows, held, dirs, provision, expired>>

ReleaseCpuSet(i) == allocated_cores \ {cores[i]}

RemoveDirAndCores(c, i) ==
    /\ destroy[c][i] = "clean"
    /\ \/ dirs' = dirs \ {i} /\ UNCHANGED faults
       \/ i \in dirs /\ Fault("rm") /\ UNCHANGED dirs
    /\ allocated_cores' = ReleaseCpuSet(i)
    /\ To(c, i, "free")
    /\ UNCHANGED <<rows, block, cores, port_allocations, stack, provision, expired>>

\* Mutated form: the block is unbound and its row stays.
Unbound(i) == [b \in Blocks |-> IF port_allocations[b] = i THEN "unbound" ELSE port_allocations[b]]

\* DELETE ... WHERE instance_id = id.
Freed(i) == [b \in Blocks |-> IF port_allocations[b] = i THEN "free" ELSE port_allocations[b]]

FreePortBlock(c, i) ==
    /\ destroy[c][i] = "free"
    /\ port_allocations' = Freed(i)
    /\ To(c, i, "mark")
    /\ UNCHANGED <<rows, block, cores, allocated_cores, host, provision, expired, faults>>

MarkDestroyed(c, i) ==
    /\ destroy[c][i] = "mark"
    /\ status' = [status EXCEPT ![i] = "destroyed"]
    /\ destroyed' = destroyed \cup {i}
    /\ To(c, i, "idle")
    /\ UNCHANGED <<expires, held, host, provision, expired, faults>>

-----------------------------------------------------------------------------
(* Expiry, the warm pool, and the end of the process. *)

\* extend_instance adds to the old expiry, or to now when there is none: what
\* has been past for longer than that stays so.
Extend(i) ==
    /\ i \in Extended
    /\ Live(i)
    /\ expires' = [expires EXCEPT ![i] = "ahead"]
    /\ UNCHANGED <<status, destroyed, held, host, provision, destroy, expired, faults>>

Expire(i) ==
    /\ expires[i] = "ahead"
    /\ expires' = [expires EXCEPT ![i] = "past"]
    /\ UNCHANGED <<status, destroyed, held, host, provision, destroy, expired, faults>>

\* maintain: provision_warm_instance allocates a block and then fails to bind it.
WarmTick ==
    /\ Fault("warm")
    /\ FreeBlocks # {}
    /\ port_allocations' = [port_allocations EXCEPT ![Min(FreeBlocks)] = "unbound"]
    /\ UNCHANGED <<rows, block, cores, allocated_cores, host, provision, destroy, expired>>

\* The cores are kept in memory only; containers and files stay.
Restart ==
    /\ Fault("crash")
    /\ provision' = [i \in Instances |-> IF provision[i] \in InFlight THEN "lost" ELSE provision[i]]
    /\ destroy' = [c \in Callers |-> [i \in Instances |-> "idle"]]
    /\ expired' = {}
    /\ allocated_cores' = {}
    /\ UNCHANGED <<rows, block, cores, port_allocations, host>>

-----------------------------------------------------------------------------

Prepare(i) == \/ AllocatePortBlock(i) \/ AllocateCpuSet(i) \/ WriteFiles(i)
              \/ InsertInstance(i) \/ BindPort(i)
Finalize(i) == ReadRow(i) \/ ComposeUp(i) \/ WaitForHealth(i) \/ UpdateStatus(i)
DestroyStep(c, i) == \/ ComposeDown(c, i) \/ RemoveDirAndCores(c, i)
                     \/ FreePortBlock(c, i) \/ MarkDestroyed(c, i)

Next ==
    \/ \E i \in Instances :
        \/ CheckCapacity(i) \/ Prepare(i) \/ Finalize(i)
        \/ OwnerDestroys(i) \/ SweepDestroys(i) \/ Extend(i) \/ Expire(i)
        \/ \E c \in Callers : DestroyStep(c, i)
    \/ CleanupExpired
    \/ WarmTick
    \/ Restart

Spec == Init /\ [][Next]_vars

\* Handlers and tasks run on; the cleanup loop ticks.  Nobody has to ask for
\* anything and nothing has to fail.
FairSpec ==
    /\ Spec
    /\ \A i \in Instances :
        /\ WF_vars(Prepare(i)) /\ WF_vars(Finalize(i))
        /\ WF_vars(SweepDestroys(i))
        /\ \A c \in Callers : WF_vars(DestroyStep(c, i))
    /\ WF_vars(CleanupExpired)

-----------------------------------------------------------------------------
(* Properties. *)

\* prepare_provision counts the rows and inserts its own later: max_instances
\* is overshot by the other requests that are under way, and by no more.
OvershootBounded ==
    Cardinality({i \in Instances : Live(i) /\ status[i] \in {"running", "provisioning"}})
        <= MaxInstances + Parallel - 1

Marking(i) == \E c \in Callers : destroy[c][i] = "mark"

\* Two live instances have one port block only while one of them is destroyed
\* and its block is given back already; a crash there leaves it so.
BlocksApart ==
    faults["crash"] = 0 =>
        \A i, j \in {k \in Instances : Live(k)} :
            i # j /\ block[i] = block[j] => Marking(i) \/ Marking(j)

Released(i) == \E c \in Callers : destroy[c][i] \in {"free", "mark"}

\* Two live instances run on the same cores only while one of them is destroyed
\* and its cores are released: not after a crash, which forgets the cores, and
\* not when one instance is destroyed by two at once, the second of which
\* releases what was given to another by then.
CoresApart ==
    faults["crash"] = 0 /\ faults["overlap"] = 0 =>
        \A i, j \in {k \in Instances : Live(k)} :
            i # j /\ cores[i] = cores[j] /\ cores[i] # NoCores => Released(i) \/ Released(j)

\* No two live instances hold the same ports or cores, with these exceptions.
ResourcesApart == BlocksApart /\ CoresApart

\* The containers of a destroyed instance are gone, unless Docker failed or the
\* instance was destroyed while finalize_provision brought it up.
DestroyedStaysDown ==
    faults["docker"] = 0 /\ faults["early"] = 0 =>
        \A i \in destroyed : stack[i] = "none"

\* Blocks nobody will ever give back: no request is going to bind them and no
\* destroy of a live instance deletes them.
Leaked ==
    {b \in Blocks :
        \/ /\ port_allocations[b] = "unbound"
           /\ ~\E i \in Instances : provision[i] \in Preparing /\ block[i] = b
        \/ \E i \in Instances : port_allocations[b] = i /\ ~Live(i)}

\* A port block is lost by a failed prepare_provision, by a tick of the warm
\* pool, by a crash in prepare_provision, by a destroy that comes before
\* bind_port_to_instance, and in no other way.
LeaksAccounted ==
    Cardinality(Leaked) <=
        faults["prepare"] + faults["warm"] + faults["early"] + Parallel * faults["crash"]

\* A lost port block stays lost, over restarts too.  (The second of two
\* overlapping destroys may give back what was bound after the first.)
LeaksStay == [][faults'["overlap"] = 0 => Leaked \subseteq Leaked']_vars

\* Every row leaves 'provisioning', unless a docker command fails (one that cannot
\* be spawned, a non-zero exit and a dead container are one fault here) or the
\* process ends, after which nothing looks at such a row again.
ProvisioningSettles ==
    \A i \in Instances :
        status[i] = "provisioning" ~>
            status[i] # "provisioning" \/ faults["docker"] > 0 \/ faults["crash"] > 0

\* An expired running instance is destroyed or extended, whatever its owner and
\* the other instances do; a directory that cannot be removed stops nothing.
ExpiredGoes ==
    \A i \in Instances :
        Live(i) /\ status[i] = "running" /\ expires[i] = "past" ~>
            \/ ~Live(i) \/ expires[i] = "ahead"
            \/ faults["docker"] > 0 \/ faults["crash"] > 0

=============================================================================
