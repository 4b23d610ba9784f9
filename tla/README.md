# Verification of kraph-core

TLA+ models of the parts of kraph-core whose correctness is a matter of order,
failure and interleaving, TLC configurations that check them on small
instances, and TLAPS proofs of their main invariants for every value of the
constants. Every definition is translated from the source; `PROJECT.json` maps
each one to its lines.

## The system

kraph-core hosts one Supabase stack ("instance") for each AI agent on a node of
an independent operator. A node is one Rust process (`node-rs`) in front of a
Docker daemon, with a SQLite file of its own. Nodes ship encrypted WAL to each
other. A Solana program records nodes, instances and payments.

| Component | Source | State | Operations | Status |
|---|---|---|---|---|
| WAL replication | `node-rs/src/replication.rs`, tables in `db/mod.rs`, `db/schema.rs`, task in `main.rs` | archive directory in the db container, `wal-encrypted/`, `wal_segments`, `replica_shipments`, `instance_replicas`; on a replica `replicas/<instance>/` and `replica_segments` | process pass, ship pass, receive, add replica | modelled, proved |
| On-chain registry | `contracts/programs/supaba-registry` | node, instance and escrow accounts, token balances | 14 instructions | modelled, proved |
| Job admission | `node-rs/src/job_admission.rs` | two sets of keys | `try_acquire`, the guard's drop | modelled, proved |
| Build store, build tasks | `build_store.rs`, `frontend_build.rs`, `main.rs` | rows by build id; a task and a container for each build | start, complete, poll, time out, pin, deploy | modelled, proved |
| Database migration | `db_migration.rs`, `main.rs` | a container for each migration, subscription and publication in the databases | bulk, live sync, cutover, cancel | partly (not the SQL) |
| Instance lifecycle | `instance_manager.rs`, `db/mod.rs`, cleanup loop and idle sweeper in `main.rs` | `instances`, `port_allocations`, `allocated_cores`, instance directories, compose projects, `resume_locks` | prepare, finalize, destroy, extend, expire; suspend, resume, touch, pin | modelled, proved |
| Warm pool | `warm_pool.rs` | port blocks of stacks to come | maintenance tick | partly (what can be reached) |
| Env vars, redirect URLs | `instance_manager.rs`, `db/mod.rs`, `main.rs` | `instance_env`, `volumes/functions/.env`, `.env`, the functions container | set, delete, list, apply, append | modelled, proved |
| Sidecars | `nextjs_service.rs` | bundle, container and row of an instance's service | deploy | modelled, proved |
| Credits hook | `contracts/programs/kraph-credits-hook` | allowlist | add, remove, transfer admin, execute | not modelled |
| Request signatures | `sigauth.rs` | nonces seen | verify | not modelled |
| Health, TEE, integrity, config, path safety, Studio proxy | `node-rs/src` | none of their own that others wait on | pure functions and I/O | not modelled |
| Crypto library, firmware, install scripts | `crypto`, `firmware`, `node-rs/scripts` | none | pure functions, scripts | not modelled |

How they interact: one Tokio task of a node alternates the process pass and the
ship pass of WAL replication. The ship pass POSTs to the HTTP server of another
node, whose handler runs concurrently with everything there. Build, deploy and
migration handlers share the admission sets and the Docker daemon. A build
continues in a task of its own after the response, and so do
`finalize_provision` and the recreation of a functions container; every other
handler is a future that axum drops when its client leaves. Two loops work on
the `instances` rows beside the handlers: the cleanup loop destroys what has
expired, the idle sweeper stops what has no traffic. The gateway, which calls a node,
and the client of the registry are not in this repository: any order of calls
is possible.

What is hard: every `await` is a point where another handler runs; SQLite
statements commit one by one; files, rows and containers are changed in turn and
a crash leaves any prefix; the primary gives up on a request that goes on
running; containers outlive the process that started them; the registry's
instructions may come in any order and combination. `PROJECT.json`
lists these hazards one by one, at their lines.

What makes each part correct:

* WAL replication: the chain is linked and covers the blobs on disk; replicas hold
  what the primary recorded and the blobs their rows cover; shipped means held;
  shipments settle; replicas get everything, in order and without gaps.
* Registry: capacity is respected, escrow and stake add up and are paid once, what
  was slashed is not claimed, a migrated instance keeps its Merkle root, a node is
  paid back only when it hosts nothing.
* Lifecycle: the instance limit, port blocks and cores hold whatever requests and
  destroys overlap; what is destroyed stays down; blocks do not leak; rows reach a
  final status; expired instances go; a row's `lifecycle_state` is what Docker
  runs; the sweeper stops nothing that is in use; a suspended instance comes back, an idle one is suspended.
* Configuration: protected values are not listed; what is left of a destroyed
  instance is younger than its destroy; the sidecar serves the last bundle; what was
  answered as applied reaches the functions container.
* Jobs: the limits hold, no slot leaks, a polled build is completed, success is
  earned, outcomes are kept, jobs end.

## Modules

| Module | What it is |
|---|---|
| `WalReplication` | one instance on its primary, and its replicas |
| `ReplicatedChain` | what WAL replication promises: an append-only log and gapless copies |
| `MCWalReplication` | fault budgets for its runs |
| `WalReplicationProofs`, `WalCopyProofs` | its theorems: the primary's chain and what replicas may hold; what they get, and the refinement |
| `Registry`, `MCRegistry`, `RegistryProofs` | the Solana program, symmetry for its run, its theorems |
| `NodeJobs`, `MCNodeJobs`, `NodeJobsProofs` | admission, builds, deploys and migrations, constants for the runs, theorems |
| `InstanceManager`, `MCInstanceManager`, `InstanceManagerProofs`, `InstanceLeakProofs` | the instances of a node from request to removal, their ports and cores, the cleanup loop and the warm pool's tick; theorems, those about lost port blocks apart |
| `IdleSuspend`, `MCIdleSuspend`, `IdleSuspendProofs` | one instance between idle sweeper, `/resume`, `/touch`, `/pin` and a destroy |
| `InstanceConfig`, `MCInstanceConfig`, `InstanceConfigProofs` | one instance's variables, redirect URLs and sidecar, beside a destroy |

Mutated forms of definitions (each marked in its comment) stand before the
definition they would replace; they are the plausible bugs that each
property is known to catch.

### WalReplication

The state is the archive directory (`container`: absent, partly or wholly
written), `wal-encrypted` (`encrypted`), the three tables of the primary (`wal`,
`registered`, `shipments`), the local variables of the WAL task (`pc`, `todo`,
`targets`, `left`, `prev`, `idx`, `plain`, `queue`), the HTTP requests in flight
and, for each replica, its rows (`store`) and files (`blobs`). A segment's name
is its number. A ciphertext is the record of what went into it (name and index
through the AAD, a fresh nonce, whether the plaintext was whole); a hash
is the sequence of ciphertexts hashed so far, which makes SHA-256 injective and
nothing else.

| Action | Code |
|---|---|
| `ArchiveBegin`, `ArchiveEnd` | `archive_command` (`replication.rs:290-300`); its `cp` is not atomic |
| `BeginPass` | `ls`, the reads of the database and of the replicas (497-617); an empty list goes on to shipping |
| `CopyOut`, `SkipFile` | `docker cp` and `fs::read` (619-638); a failing `cp` skips the file |
| `Seal`, `Record`, `Enqueue`, `Clean` | encrypt and write the blob; insert the row; enqueue each replica; `rm` in the container and advance (640-732) |
| `AbortPass` | an error return anywhere up to the write of the blob, which it may leave torn |
| `Send`, `Answered`, `TimeOut`, `ReadFails`, `GiveUp`, `EndShipping` | the loop of `ship_pending_segments` (739-845) |
| `Check`, `WriteBlob`, `InsertRow`, `HandlerFails` | `receive_segment` (861-983), split at its awaits |
| `AddReplica` | `add_replica_handler` |
| `Crash` | the process stops anywhere; files and rows stay |

When the primary stops waiting for a request (timeout, crash), the handler may
be dropped or run on (`Orphan`); at most `MaxStray` such handlers run at once.
Segments are taken in the order of their names, as the sorted list is; the order
in which a segment's replicas are enqueued is left open.

Left out: SQLite errors; the branch for a shipment without a `wal_segments` row
(no code deletes such rows); several instances (they share nothing but the
task); a primary that is suspended; signatures.

### Registry

One agent, as instances of different agents only meet in the node's counter. An
instruction is one action, as a failing instruction changes nothing. The
replicas of an instance are a count, since nothing reads who they are. Token
accounts are balances; checks that compare addresses only are left out. Numbers
are unbounded: the bounds stay far below `u64`. `refunded` (what
destroys paid back) and `migrated_root` (the Merkle roots an instance had whenever it
became Migrating) are history variables. `MigrateInstance` onto the present primary is modelled as Anchor
executes it: two copies of one account, of which the second one is written last.

### NodeJobs

Each request runs through `admitted`, a container (`running`), perhaps
`publishing`, `ending`, `over`. `by_wallet` and `by_instance` are the sets of
`job_admission`, `builds` is the `BuildStore`, `container` is what the Docker
daemon has and `exit_code` a history variable for how the container really
ended. `SeenExit` is the code the handler makes of Docker's answer:
`run_live_sync_setup` and the cutover skip error items. A wait that ends
without an item is a zero for every handler (`unwrap_or(0)`,
`frontend_build.rs:638`, `db_migration.rs:424`); `WaitFails` has it as a failure of Docker, and the history
variable `unanswered` keeps which jobs it happened to, so that `SuccessIsEarned`
can exempt them. The release profile has
`panic = "abort"`, so that a string cut inside a character (`TailCut`,
`CapCut`) ends the node. A client that leaves drops the handler's future
(`ClientLeaves`) except for a build, which has a task of its own.

Left out: requests that are refused (they change nothing); the bodies of the
containers and the migration's result marker (taken to agree with the exit
code); the steps within a sidecar deploy (they are in
`InstanceConfig`); a cancel may name any migration's
container, whether the client was told its name or not (Docker lists it).

### InstanceManager

Port blocks are numbered from `port_range_start` on; a block is `free` (no row in
`port_allocations`), `unbound` (a row without an instance) or bound. Cores are
handed out in pairs. Each provision request is at a place of its handler
(`provision`), each destroy likewise, by caller: the owner's handler or the
cleanup loop. `stack` is what Docker has of a compose project.

| Action | Code |
|---|---|
| `CheckCapacity`, `AllocatePortBlock`, `AllocateCpuSet`, `WriteFiles`, `InsertInstance`, `BindPort` | `prepare_provision`, split where another handler may take the connection's mutex |
| `ReadRow`, `ComposeUp`, `WaitForHealth`, `UpdateStatus` | `finalize_provision` in its own task; `compose up` is tried three times |
| `OwnerDestroys`, `ComposeDown`, `RemoveDirAndCores`, `FreePortBlock`, `MarkDestroyed` | `destroy_handler` and `destroy`, whose one await is `compose down` |
| `CleanupExpired`, `SweepDestroys` | `cleanup_expired`: a list, then one destroy after the other |
| `Extend`, `Expire` | `extend_instance`; time passes over `expires_at` |
| `WarmTick` | `maintain` of the warm pool |
| `Restart` | the process stops anywhere; `allocated_cores` is lost, rows, files and containers stay |

The warm pool stays empty. Its tick allocates a block and then binds it to the
name of a warm project; `foreign_keys` is ON (`db/mod.rs:348`) and no instance has
that id, so that the statement fails and the block is lost. Everything behind
it, and provisioning from a warm stack, cannot be reached and is left out.

### IdleSuspend

One instance, as locks are per instance. `request` is the place of each
`/resume` handler, `lock` the holder of the entry in `resume_locks`, `orphan` a
`compose start` whose handler was dropped. The history variable `hit` says that the
instance was touched or pinned after the sweeper made its list.

| Action | Code |
|---|---|
| `Touch`, `Pin`, `Tick` | `/touch`, `/pin` (never shortens a pin), the clock |
| `Resume`, `TakeLock`, `Recheck` | `/resume`: the state is read before the lock is waited for, and again behind it |
| `SetStarting`, `ComposeStart`, `ResetToSuspended`, `Poll`, `TouchAndAnswer` | `resume`: the row, docker, 30 s of dialling Postgres |
| `List`, `TryLock`, `Suspend`, `ComposeStop`, `SetSuspended` | the sweeper and `suspend` |
| `Destroy`, `ComposeDown`, `MarkDestroyed` | `destroy` as far as it meets the others; it takes no lock |
| `ClientLeaves`, `OrphanEnds`, `Restart` | a dropped handler, its command, the end of the process |

### InstanceConfig

A value, a URL and a bundle are the request that brought it, so that two of
them are never equal by chance. `env` is the table, `env_file` the file written
from it, `functions` what the container was last created with; `allow_list` is
the line of `.env`; `target`, `sidecar` and `nextjs` are the bundle on disk, the
container and the row; `network` is the network of the compose project, which a sidecar
joins. A handler that is dropped at an await leaves what its file operation or Docker
call makes of it (`FileLeft`, `SidecarLeft`), a truncated file included. The history
variable `overlap` holds the requests under way beside the last destroy. The steps of
`append_redirect_urls` are modelled because they share directory and containers with
the rest; no property is about the list itself, which overlapping appends may cut
short (see below).

| Action | Code |
|---|---|
| `Start` | any handler behind `require_owned_instance`; a deploy is admitted alone |
| `Upsert`, `DeleteEnv`, `List` | one statement each; a protected row is not overwritten by a plain value, and not listed |
| `ReadInstance`, `ListEnv`, `WriteEnvFile` | `apply_env_to_functions` and its retry in `set_env_handler` |
| `RecreateReads`, `RecreateRuns` | the spawned `up -d --force-recreate`: compose reads the file, then the container goes and comes back |
| `ReadAllowList`, `WriteAllowList`, `RestartAuth` | `append_redirect_urls` |
| `EnsureImage` ... `SetNextjsService` | `NextjsService::deploy`, step by step |
| `Destroy`, `ComposeDown`, `RemoveDir`, `DeleteAllEnv`, `MarkDestroyed` | `destroy` |
| `ClientLeaves`, `Restart` | as above |

`NodeJobs`, `InstanceManager`, `IdleSuspend` and `InstanceConfig` each hold the part of
`destroy` or of a deploy that their own state can see; the steps agree and are
mapped to the same lines.

## Runs

Each run finishes in less than three minutes with two workers.

| Run | Question | Bounds |
|---|---|---|
| `wal_safety` | chain, blobs, agreement, shipped means held, no segment passed over | 2 replicas, 2 segments, 2 attempts, 1 stray handler, 1 fault each of pass, network, crash |
| `wal_serial` | gapless copies and right blobs, refinement of `ReplicatedChain`, giving up is final, shipments settle, a started replica catches up: when no handler outlives the wait | 1 replica, 3 segments, 2 attempts, 1 fault each of network, replica's disk, crash |
| `registry` | types, capacity, escrow, stake, slashed stake; the Merkle root of an instance that has ever been migrating | 2 nodes, 1 instance, capacity 2, 2 deposits, 2 clock values, 3 replicas |
| `registry_count` | violated: `DeregisteredHostsNothing` | 1 node, 2 instances, cooldown of one tick |
| `jobs` | limits, slots, rows, success, overlap, outcomes | 2 jobs, 2 instances of a wallet, all handlers and logs, 1 fault of each kind, rows kept for no tick, 1 tick |
| `jobs_live` | every job settles | 2 jobs, 1 instance, 1 Docker failure, 1 departed client |
| `jobs_cutover` | violated: `DoneIsComplete` | 2 cutovers, no fault |
| `instances` | overshoot, ports and cores, destroyed stays down, lost blocks have a cause and stay lost | 3 instances, 2 blocks, 1 pair of cores, `max_instances` 1, 2 requests at once, any 2 faults of 5 kinds (failed preparation, warm tick, crash, early destroy, double destroy) |
| `instances_live` | rows reach a final status, expired instances go | 2 instances, 2 blocks, 2 pairs, 1 fault of 8 kinds (also docker, `rm`, a departed client) |
| `idle` | the sweeper stops only what runs, is not being brought up and was idle; row and containers agree, instances come back, idle ones go | 2 `/resume` handlers, limit of 1 tick, 4 clock values, any 2 faults of 5 kinds; status `active` |
| `idle_never` | violated: `IdleGoes` | 1 handler; status `running` |
| `config` | secrets, where the leftovers of a destroyed instance come from, the sidecar, what is applied | 3 requests of any kind, 1 variable, 1 fault of 6 kinds |

Why the bounds are enough. Two replicas show that shipments of one do not depend
on another; three segments are the fewest with a gap in the middle; one fault of
each kind reaches each error path, and their combinations, at every point; with
two attempts one fault is survived and two on one segment end in `failed`, so
that both sides of the retry cap are reached (`StartedReplicaCatchesUp` is about
the first, `StuckForGood` about the second). In `registry` two nodes make migration,
self-migration and slashing on the way out possible, and a deposit of 40 at 50
for a tick makes both the cap on what is left and the rounding of shares happen;
the interplay of two instances in one counter is `registry_count`'s. Two jobs
are what admission is about; a third meets the same refusals.

Three instances are what a double destroy needs to harm a third party: the one
destroyed, the one that is given its cores, and one that is then given them
again; with one pair and two blocks the resources run out. In `instances_live` everybody has enough, as waiting for resources is not what it asks. A
second `/resume` handler is what the lock is for; the sweeper and a destroy are the
third and fourth party. Three requests are a set, an overwrite and a read of one
variable, or two deploys and something beside them; two of them overlapping, or
beside a recreate, is a fault of its own kind, and so has to be chosen over
another one. All invariants and action properties and the refinement are also
proved, with no bound at all. `TypeOK` is checked by `wal_safety` and `registry`;
for the other modules it is part of the inductive invariants below.

`registry` permutes nodes and instances; its `CHOOSE` of an initial primary is of
a field nothing reads before it is set. `jobs` permutes requests. `instances`
permutes the instances nobody extends, which differ in nothing. Runs with
temporal properties use no symmetry, but for `jobs`, whose action property looks at
one step. Deadlock is checked in the WAL runs (the task loops
for ever) and not in the others, where accounts or requests run out.

### Fairness

`WalReplication!FairSpec`: weak fairness of the process pass and of the ship
pass (the loop over an interval timer in `spawn_background_tasks`, which
nothing ends) and of the replica's handler (a started axum handler is polled to
its end, or the primary's timeout is a fault). No fairness of Postgres, of
replica registration or of faults.

`NodeJobs!FairSpec`: weak fairness of each
job's own steps and of its cleanup: Tokio runs what can run, every wait for a
container is under `tokio::time::timeout`, and Docker answers. Exits,
cancellation and clients are not fair: the timeout alone makes a container end.
A sidecar deploy has no timeout of its own in the code, so that `Publish` being
fair is an assumption on Docker and Kubo.

`InstanceManager!FairSpec`: handlers and tasks run on and the cleanup loop ticks.
Nobody has to ask for, extend or destroy anything, and nothing has to fail.

`IdleSuspend!FairSpec`: handlers and the sweeper run on; the gateway asks again
for an instance that is not running, as its requests would otherwise go nowhere;
`SF` on `TakeLock`, as Tokio's mutex serves its waiters in the order they came. Hits,
pins and the clock are not fair.

`InstanceConfig!FairSpec`: handlers, recreate tasks and a started destroy run on.
No request has to come.

Docker commands have no timeout in `instance_manager.rs`; that they return is an assumption of the last three.

### What the violated runs show

1. `registry_count` - `destroy_instance` on a destroyed instance frees the slot of
   another one, so a node takes its stake and leaves while it hosts. The second destroy
   goes through when the escrow can pay the refund once more: it is zero, or the
   agent has deposited again.
2. `jobs_cutover` - a cutover whose container failed is reported done.
3. `idle_never` - the sweeper selects `status = 'active'`; `finalize_provision` writes
   `'running'`. No instance is ever suspended. The schema and the comments in
   `instance_manager.rs:688-690` call the status `active`, and `idle` checks what
   sweeper and `/resume` do once a row has it: the code behind the query is there
   to be right when the query is.

### Known divergences without a run

Found while modelling; the models contain them, and the properties name them as
exceptions where they meet them. A run for each would add nothing to the lines.

WAL replication. `receive_segment` checks continuity and inserts after two awaits
(`replication.rs:916`): a handler that outlived the 30 s timeout and the next one
pass the check together and leave a gap, which `schema.rs:106-107` says is rejected.
A crash between the row and its shipments (692) leaves a segment nobody enqueues,
and replicas reject every later one. A segment still being copied by
`archive_command` may be chained and removed (296). A file that `docker cp`
fails on is chained after its successors. A lost response leaves a held shipment
`failed`. A segment that is given up ends the replication to its replica for good
(`StuckForGood`): the loop goes on with later segments, each of which is refused
and given up in turn.

Registry. Three replicas at 15% exceed the payment (the comment at
`lib.rs:540` and the whitepaper have two, `MAX_REPLICA_NODES` is 3), so that the
escrow drains faster than the rate; an instance that was suspended or migrated
never becomes Active again; payments are not limited to one an hour
(`WHITEPAPER.md:394`).

Jobs. Containers do not die with the process, as `job_admission.rs:18-20` suggests:
after a restart two migrations may write to one instance, and without a restart,
too, when a client leaves, as the guard goes before the container. A failed build polls
with no exit code and an empty log.

Lifecycle. `max_instances` is overshot by concurrent requests, and `degraded` instances
are not counted. An error between `allocate_port_block` and the row loses the
block, and so does every tick of the warm pool (`warm_pool.rs:138`). After a restart
`allocated_cores` is empty while instances run. An instance destroyed while it is
provisioned may come up after its `compose down`. A destroy that is cut by a crash after it removed the directory can never be
repeated, as `compose down` cannot be started in it (647): the row stays. The comment at
`instance_manager.rs:727-728` has a failed resume reset to `suspended`; a timeout leaves
`starting` (793-797).

Suspend and resume. The lock of `/resume` is to keep docker commands apart (`main.rs:4084-4087`,
`instance_manager.rs:729-731`). It goes with a handler whose client leaves, while the
`compose start` of that handler runs on (`orphan`), so that the next start or the
sweeper's `compose stop` runs beside it; `destroy` takes no lock at all. No property
claims that one command runs at a time. The sweeper's list is made once and worked off one
`compose stop` after the other (`main.rs:4076-4105`), and `suspend` looks at `destroyed_at`
only: an instance that was hit or pinned meanwhile is suspended all the same, although
the query is for what is "not currently pinned" (`db/mod.rs:525-530`).
`SweptWhileIdle` exempts exactly these (`hit`).

Configuration. A protected variable is answered as applied when the recreate is queued
(`main.rs`, `set_env_handler`), although the hint beside it says that it must
have reached the container. Of overlapping applies the file of the older one may
stay, against "always overwritten in full to keep the two in sync"
(`instance_manager.rs:1384-1386`). `append_redirect_urls` restarts the auth
container, which does not read `.env` again (1212-1213, against 1395-1396), may
lose an append that overlaps, and replaces every blank line of `.env` by the new
value, not "byte-for-byte" (1217-1218, 1318-1322). `teardown` of a sidecar
(`nextjs_service.rs:386-393`) has no caller: the container survives its instance, against
the comments there and at 20-23, and `LeftoversAreLate` leaves it out. A `set_env` that
writes its row between `delete_all_env` and the mark of a destroy leaves a secret in the
table, against "keeps secrets out of the DB after destruction"
(`instance_manager.rs:672-679`); in the same way a request beside a destroy makes the
directory or the functions container again. Nothing cleans these up;
`LeftoversAreLate` says that nothing else is left.

## Proofs

`tlapm` proves, for any constants that satisfy the modules' `ASSUME`s:

* `WalReplicationProofs`: `TypeOK`, `PrimaryChain`, `BlobMatchesRow`, `ReplicaAgrees`,
  `ShippedIsHeld`, and `ReplicaBlobMatches` when no step of a replica's handler
  fails (`MaxFaults["disk"] = 0`; with a torn write and a stray handler together
  it does not hold).
* `WalCopyProofs`: `EnqueuedWithoutGap` and the action property `StuckForGood`; and,
  when no handler outlives the primary's wait (`MaxStray = 0`), `ReplicaContiguous`,
  `ReplicaBlobMatches` with any disk faults, and the refinement `RefinesChain`.
* `RegistryProofs`: `TypeOK`, `CapacityRespected`, `EscrowBalanced`, `StakeBacked`,
  `SlashedStakeHeld`, `MigratedRootFrozen`.
* `NodeJobsProofs`: `TypeOK`, `AdmissionLimits`, `SlotsAreHeld`, `RunningRowHasTask`,
  `SuccessIsEarned`, `OneBuildRuns`, and the action property `OutcomeKept`.
* `InstanceManagerProofs`: `TypeOK`, `OvershootBounded`, `ResourcesApart`,
  `DestroyedStaysDown`, with faults of every kind.
* `InstanceLeakProofs`: `LeaksAccounted` and the action property `LeaksStay`.
* `IdleSuspendProofs`: `TypeOK`, `SweptWhileIdle`, `RowMatchesStack`.
* `InstanceConfigProofs`: `TypeOK`, `SecretsUnseen`, `SidecarServesTarget`,
  `LeftoversAreLate`, whatever runs beside the destroy and whatever fails.

Each file proves an inductive invariant, action by action, and reads the
properties off it; the two of `WalCopyProofs` and the one of `InstanceLeakProofs` rest
on those of the file they extend.

*WAL* (`IInv`). `PrimaryChain` is not inductive: `Record` appends with the `prev` and
`idx` the pass carries. `PassInv` says that they continue the table as long as
the pass has not recorded its current file, that what is still to do is not
recorded, and what the blob of the file at hand is; `ArchiveInv` and
`NamesUnique` keep names apart. `ShipInv` says that every shipment is of a
recorded segment, and `RequestInv` that every request in flight carries a recorded
row with the blob it covers - this carries agreement to replicas whatever
overlaps - and that an accepted one is held.

*WAL copies*. `EnqueuedWithoutGap` speaks of the moments between passes. Within a pass
`Record` opens a gap for each replica among `targets`, and the loop of `Enqueue` closes
it: `EnqueueInv` allows a gap at the last row, for replicas in `left`. That nobody
else can have one needs `TargetsInv` - whoever was sent a segment is registered and
among the targets of the pass under way, as nobody is unregistered - and
`QueueInv`, that queue and requests are of enqueued shipments. A crash breaks
it, and only a crash.

`ReplicaContiguous` does not follow from the check in `receive_segment`, since the
row is inserted two awaits behind it: `SerialInv` says that there is one request
in flight, the awaited one (`OneRequest`), that what its handler has checked still
holds (`CheckedInv`), and that a replica's blobs are the primary's (`CopiedBlobs`). This
is where `MaxStray = 0` is needed: it leaves out the handlers that go on after the
primary's timeout, with which the property is false (see above). Nothing is assumed about crashes, lost
answers, rejected requests or torn files. From it, a step of the system is a step of
`ReplicatedChain` or a stutter: `Record` appends, `InsertRow` copies the entry after the
last one a replica has, nothing else changes `wal` or `store`.

`StuckForGood` holds with stray handlers, too. `AwaitInv` says that the queue is
of pending shipments and that at most one request is awaited and belongs to the
queue, so that no answer can turn a `failed` shipment back; then the row a stuck
replica would accept is in no request, and every other one fails the check.

*Registry* (`RegInv`). `SlashedStakeHeld` needs that accounts not yet registered are
empty and that the stake is either whole, zero or that of a suspended node; the
clock of an escrow never lies in the future (`ClockInv`), which keeps elapsed
times and payments natural numbers; the shares of a payment are bounded by
arithmetic lemmas. `MigratedRootFrozen` is inductive by itself, over `TypeOK`: each
instruction leaves a recorded instance its root and one of the three statuses behind
which neither `activate_instance` nor `commit_merkle_root` is possible.

*Jobs* (`JobInv`). `LocalInv` ties each job's row, container and exit code to its place;
`SlotsAreHeld` and `AdmissionLimits` need each other, since a drop removes a key
whoever holds it; `RunsWaited` says that, while nothing has failed, a running
build container is one its task waits for.

*Lifecycle* (`LifeInv`). The count of rows is not inductive: between check and insert
a request is a row to come, so that `CountInv` bounds the rows and the pending
requests together, and steps that move one to the other keep the sum.
`PortInv` says that an unbound block has one claimant at most until it binds it,
and that afterwards the live instance's block names it, or it is being marked;
`CoreInv` says that the cores nobody has released are marked as allocated and
pairwise different, which needs that an instance has at most one destroy;
`DownInv` says that a destroy never meets a provision of its instance and that
nothing comes up behind `compose down`. The last two are under the faults that
really break them.

*Lost blocks* (`LeakInv`). A lost block is stranded (unbound, and no request will bind
it) or bound to an instance that is gone. `StrandedInv` counts the first against failed
preparations, warm ticks and, for a crash, the requests under way, of which
`AdmittedInv` says that there are `Parallel` at most. The second cannot be counted as they come to be,
since the block of an instance that is destroyed too early is bound, or its row
marked, later: `DisturbedInv` counts the instances destroyed before they were bound, and
`BindInv` gives each of them one block at most, so that the lost blocks inject into
them. `LeaksStay` needs that a destroy works on a live row (`AloneInv`, which holds
until two destroys of one instance overlap) and that a request has no block
before it allocates one (`UnclaimedInv`).

*Idle* (`IdleInv`). `LockInv`: whoever is behind the lock holds it. `StartInv`: during
a start the row says `starting`, so that the sweeper's `compose stop` and its row are
not about to be contradicted. `SweepInv`: what is on the list stays running and,
but for a hit or a pin, idle, since whoever would bring it up holds the lock, sees
`running` and goes away. `RowInv` is `RowMatchesStack` with what a stopped or
refused command implies on the way.

*Configuration* (`ConfigInv`). `SecretInv` follows a value from its request through
the row: a plain row was set by a plain request. `DeployInv` describes bundle,
container and row at each step of the one deploy under way. `KindInv` ties the steps
that write the file or recreate the container to the requests that may take them,
`DirInv` says when the directory is there, and `OverlapInv` that whoever is under way
from the start of a destroy on is in `overlap`, and, step by step of the destroy, that
whatever has come back since its removal is of one of them.

Only model-checked: the liveness properties (`ShipmentsSettle`,
`StartedReplicaCatchesUp`, `JobsSettle`, `ProvisioningSettles`, `ExpiredGoes`, `ComesBack`,
`IdleGoes`, `AppliedReaches`), which are out of the prover's reach: they rest on
fairness and `ENABLED`.

## Not modelled

* Credits hook: an allowlist and one membership test for each instruction; the
  signatures and nonces of `sigauth.rs`: one map under one mutex. Both are next in the plan.
* TEE attestation, integrity checks, configuration, path safety, the Studio proxy, the
  crypto library: functions of their input without state, over binary formats or
  strings; TLA+ has little to say of them that their unit tests do not.
* Health: it sends the heartbeat that `Registry` models and reports.
* The SQL that migration containers run, `configure_wal_archiving` beyond its
  command, restoring an instance from a replica (no code here does it), the
  gateway (in another repository), encryption at rest.
* Firmware and install scripts.

## Plan

Done: WAL replication with its abstract chain, the registry, the jobs, the life of
instances, suspend and resume, configuration and sidecars, and the proofs of all
their safety properties and of the refinement. Left:

1. `CreditsHook` (allowlist and transfer rule) and `Nonces` (retention against the
   time window).
2. A composition of `InstanceManager` with `WalReplication`: what a destroy of the primary
   leaves of segments and shipments.
3. Proofs: an abstract specification of the port blocks and cores (a resource
   has one holder) that `InstanceManager` implements under the faults that allow it.

## Checking

    tlc -workers 2 -config WalSafety.cfg MCWalReplication.tla
    tlapm WalReplicationProofs.tla

The module and configuration of each run are in `PROJECT.json`.
