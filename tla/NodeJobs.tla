------------------------------- MODULE NodeJobs -------------------------------
(***************************************************************************)
(* The node's expensive jobs: frontend builds, sidecar deploys, database   *)
(* migrations and cutovers (job_admission.rs, build_store.rs, the handlers *)
(* of main.rs, frontend_build.rs, db_migration.rs).                        *)
(*                                                                         *)
(* A handler takes an admission slot, runs a container, waits for it and   *)
(* reports.  A build runs in a task of its own and reports in the          *)
(* BuildStore; every other handler is dropped with its guards when its     *)
(* client leaves.  Containers belong to the Docker daemon: they outlive    *)
(* the handler and the node's process until somebody removes them.         *)
(*                                                                         *)
(* A wallet is the owner of its instances (get_instance).  Of a log only   *)
(* this is kept: whether the byte at which code cuts it off starts a       *)
(* character.  The release profile makes a panic end the process.          *)
(***************************************************************************)
EXTENDS Naturals

CONSTANTS
    Jobs,       \* requests
    Wallets,
    Instances,
    Owner,      \* the wallet of each instance
    Handlers,   \* bound: the handlers called, of AllHandlers
    Outputs,    \* bound: the kinds of log, of AllOutputs
    KeepFor,    \* KEEP_FINISHED_FOR_SECS, in clock ticks
    MaxNow,     \* bound: the last clock value
    MaxFaults   \* bound: clients that leave ("leave"), failures of Docker or
                \* of the file system ("docker"), node crashes ("crash")

AllHandlers == {"build", "deploy", "bulk", "live_sync", "cutover"}

\* "plain": every cut is at a character.  "tail": the 4096th byte from the end
\* is inside one.  "cap": so is byte MAX_LOG_BYTES of a longer log.
AllOutputs == {"plain", "tail", "cap"}

ASSUME JobsAssumption ==
    /\ Instances # {} /\ Owner \in [Instances -> Wallets]
    /\ Handlers \subseteq AllHandlers
    /\ "plain" \in Outputs /\ Outputs \subseteq AllOutputs
    /\ KeepFor \in Nat /\ MaxNow \in Nat
    /\ MaxFaults \in [{"leave", "docker", "crash"} -> Nat]

VARIABLES
    by_wallet,    \* job_admission::State: <<kind, wallet>> in flight
    by_instance,  \* job_admission::State: <<kind, instance>> in flight
    job,          \* the handler or task of each request
    container,    \* its container in the Docker daemon
    exit_code,    \* history: how that container really ended
    unanswered,   \* history: jobs that took a wait without an answer for a zero
    reaping,      \* containers a dropped ContainerCleanup is removing
    builds,       \* BuildStore
    now,          \* Utc::now()
    faults        \* faults so far

vars == <<by_wallet, by_instance, job, container, exit_code, unanswered, reaping, builds, now,
          faults>>
slots == <<by_wallet, by_instance>>
ended == <<exit_code, unanswered>>
docker == <<container, ended, reaping>>

Status == {"none", "running", "succeeded", "failed"}
Places == {"idle",        \* not requested
           "admitted",    \* in its handler, before any container
           "task",        \* a build's spawned task, before its container
           "running",     \* waiting for the container
           "publishing",  \* pinning, or replacing the sidecar
           "ending",      \* reported; the guard is about to drop
           "over",
           "lost"}        \* gone with the process

Job == [at : Places, handler : AllHandlers \cup {"none"}, instance : Instances,
        output : AllOutputs, reported : {"none", "done", "failed"}]
BuildState == [status : Status, finished_at : Nat]

TypeOK ==
    /\ by_wallet \subseteq {"build", "migration"} \X Wallets
    /\ by_instance \subseteq {"build", "migration"} \X Instances
    /\ job \in [Jobs -> Job]
    /\ container \in [Jobs -> {"none", "running", "exited"}]
    /\ exit_code \in [Jobs -> {"none", "zero", "nonzero"}]
    /\ unanswered \subseteq Jobs /\ reaping \subseteq Jobs
    /\ builds \in [Jobs -> BuildState]
    /\ now \in Nat
    /\ faults \in [DOMAIN MaxFaults -> Nat]

NotRequested == [at |-> "idle", handler |-> "none", instance |-> CHOOSE i \in Instances : TRUE,
                 output |-> "plain", reported |-> "none"]
NoBuild == [status |-> "none", finished_at |-> 0]

Init ==
    /\ by_wallet = {} /\ by_instance = {}
    /\ job = [j \in Jobs |-> NotRequested]
    /\ container = [j \in Jobs |-> "none"]
    /\ exit_code = [j \in Jobs |-> "none"]
    /\ unanswered = {} /\ reaping = {}
    /\ builds = [j \in Jobs |-> NoBuild]
    /\ now = 0
    /\ faults = [f \in DOMAIN MaxFaults |-> 0]

-----------------------------------------------------------------------------
(* Admission. *)

Kind(handler) == IF handler \in {"build", "deploy"} THEN "build" ELSE "migration"

WalletKey(j) == <<Kind(job[j].handler), Owner[job[j].instance]>>
InstanceKey(j) == <<Kind(job[j].handler), job[j].instance>>

Live(j) == job[j].at \in {"admitted", "task", "running", "publishing", "ending"}

\* migrate_cutover_handler takes no guard.
HoldsGuard(j) == Live(j) /\ job[j].handler # "cutover"

\* Mutated form: only the instance is looked up.
Admissible(kind, i) == <<kind, i>> \notin by_instance

\* The refusals of try_acquire.
Admitted(kind, i) ==
    /\ kind = "build" => <<kind, Owner[i]>> \notin by_wallet
    /\ <<kind, i>> \notin by_instance

\* Mutated form: the wallet's slot is not given back.
DropsInstanceOnly(j) ==
    /\ by_instance' = by_instance \ {InstanceKey(j)}
    /\ UNCHANGED by_wallet

\* AdmissionGuard's drop, of both keys, whatever else holds them.
DropGuard(j) ==
    IF HoldsGuard(j)
    THEN /\ by_wallet' = by_wallet \ {WalletKey(j)}
         /\ by_instance' = by_instance \ {InstanceKey(j)}
    ELSE UNCHANGED slots

\* The kinds of log that matter to a handler.
OutputsOf(handler) ==
    CASE handler = "build" -> Outputs
      [] handler = "bulk"  -> Outputs \ {"cap"}
      [] OTHER             -> {"plain"}

\* A request that is refused changes nothing and is left out.
Request(j, handler, i, output) ==
    /\ job[j].at = "idle"
    /\ output \in OutputsOf(handler)
    /\ \/ /\ handler = "cutover"
          /\ UNCHANGED slots
       \/ /\ handler # "cutover"
          /\ Admitted(Kind(handler), i)
          /\ by_wallet' = by_wallet \cup {<<Kind(handler), Owner[i]>>}
          /\ by_instance' = by_instance \cup {<<Kind(handler), i>>}
    /\ job' = [job EXCEPT ![j] = [at |-> "admitted", handler |-> handler, instance |-> i,
                                  output |-> output, reported |-> "none"]]
    /\ UNCHANGED <<docker, builds, now, faults>>

\* The handler returns early: a bad target or entry, or an unresolved source.
Reject(j) ==
    /\ job[j].at = "admitted"
    /\ DropGuard(j)
    /\ job' = [job EXCEPT ![j].at = "over"]
    /\ UNCHANGED <<docker, builds, now, faults>>

-----------------------------------------------------------------------------
(* The BuildStore. *)

\* Mutated form: a row is collected as soon as it is finished.
CollectsFinished(b) == b.status # "running"

\* The rows start removes: finished more than KEEP_FINISHED_FOR_SECS ago.
Stale(b) ==
    /\ b.status \in {"succeeded", "failed"}
    /\ now - b.finished_at > KeepFor

\* build_and_pin_handler inserts the row and spawns the task.
StartBuild(j) ==
    /\ job[j].at = "admitted" /\ job[j].handler = "build"
    /\ builds' = [k \in Jobs |-> IF k = j THEN [status |-> "running", finished_at |-> 0]
                                 ELSE IF Stale(builds[k]) THEN NoBuild
                                 ELSE builds[k]]
    /\ job' = [job EXCEPT ![j].at = "task"]
    /\ UNCHANGED <<slots, docker, now, faults>>

\* complete_success, complete_failure.
Complete(j, good) ==
    /\ builds' = [builds EXCEPT ![j] = [status |-> IF good THEN "succeeded" ELSE "failed",
                                       finished_at |-> now]]
    /\ job' = [job EXCEPT ![j].at = "ending"]

\* The response of a handler that waits for the end of its job.
Respond(j, good) ==
    /\ job' = [job EXCEPT ![j].at = "ending", ![j].reported = IF good THEN "done" ELSE "failed"]
    /\ UNCHANGED builds

\* What the client learns.
Report(j, good) ==
    IF job[j].handler = "build" THEN Complete(j, good) ELSE Respond(j, good)

\* The guard drops when the task or the handler returns.
EndJob(j) ==
    /\ job[j].at = "ending"
    /\ DropGuard(j)
    /\ job' = [job EXCEPT ![j].at = "over"]
    /\ UNCHANGED <<docker, builds, now, faults>>

-----------------------------------------------------------------------------
(* Containers. *)

Fault(f) ==
    /\ faults[f] < MaxFaults[f]
    /\ faults' = [faults EXCEPT ![f] = @ + 1]

\* Where the job's container is created.
AtContainer(j) ==
    \/ job[j].at = "task"
    \/ job[j].at = "admitted" /\ job[j].handler \in {"bulk", "live_sync", "cutover"}

StartContainer(j) ==
    /\ AtContainer(j)
    /\ container' = [container EXCEPT ![j] = "running"]
    /\ job' = [job EXCEPT ![j].at = "running"]
    /\ UNCHANGED <<slots, ended, reaping, builds, now, faults>>

\* An error before the container runs: the connection to Docker, the checks of
\* the request, the image, the container itself.
StartFails(j) ==
    /\ AtContainer(j)
    /\ Fault("docker")
    /\ Report(j, FALSE)
    /\ UNCHANGED <<slots, docker, now>>

\* The container's process ends.
ContainerExits(j, code) ==
    /\ container[j] = "running"
    /\ container' = [container EXCEPT ![j] = "exited"]
    /\ exit_code' = [exit_code EXCEPT ![j] = code]
    /\ UNCHANGED <<slots, job, unanswered, reaping, builds, now, faults>>

\* migrate_cancel_handler kills a kraph-migrate-* container.
CancelMigration(j) ==
    /\ job[j].handler \in {"bulk", "live_sync"}
    /\ ContainerExits(j, "nonzero")

\* Mutated form: the wait of a bulk migration ignores errors too.
ExitIgnoredByMigrations(j) ==
    IF job[j].handler \in {"bulk", "live_sync", "cutover"} THEN "zero" ELSE exit_code[j]

\* The exit code the handler sees.  Docker's answer for a code other than zero
\* is an error item, which live_sync and cutover skip: no code is a zero.
SeenExit(j) ==
    IF job[j].handler \in {"live_sync", "cutover"} THEN "zero" ELSE exit_code[j]

\* The failure message quotes the end of the log: tail_log cuts the string at
\* a byte and panics inside a character.
TailPanics(j) ==
    SeenExit(j) = "nonzero" /\ job[j].output = "tail"

\* The ContainerCleanup is dropped, and the outcome follows.
AfterWait(j, good) ==
    /\ reaping' = reaping \cup {j}
    /\ IF job[j].handler = "build" /\ good
       THEN /\ job' = [job EXCEPT ![j].at = "publishing"]
            /\ UNCHANGED builds
       ELSE Report(j, good)

WaitEnds(j) ==
    /\ job[j].at = "running" /\ container[j] = "exited"
    /\ ~TailPanics(j)
    /\ AfterWait(j, SeenExit(j) = "zero")
    /\ UNCHANGED <<slots, container, ended, now, faults>>

\* The wait itself fails: with an error, which only live_sync and cutover skip,
\* or with a stream that ends without an item, which every handler takes for a
\* zero (unwrap_or).
WaitFails(j) ==
    /\ job[j].at = "running"
    /\ Fault("docker")
    /\ \/ /\ job[j].handler \notin {"live_sync", "cutover"}
          /\ AfterWait(j, FALSE)
          /\ UNCHANGED unanswered
       \/ /\ AfterWait(j, TRUE)
          /\ unanswered' = unanswered \cup {j}
    /\ UNCHANGED <<slots, container, exit_code, now>>

\* Mutated form: only a build has a timeout.
BuildIsLate(j) == job[j].at = "running" /\ job[j].handler = "build"

\* BUILD_TIMEOUT_SECS, or the migration's own, is over.  The answer of the wait
\* may be on its way.
IsLate(j) == job[j].at = "running"

Kill(j) ==
    /\ container' = [container EXCEPT ![j] = "exited"]
    /\ exit_code' = [exit_code EXCEPT ![j] = IF @ = "none" THEN "nonzero" ELSE @]

\* Mutated form: the container is left to the cleanup.
TimesOutWithoutKill(j) ==
    /\ IsLate(j)
    /\ Report(j, FALSE)
    /\ reaping' = reaping \cup {j}
    /\ UNCHANGED <<slots, container, ended, now, faults>>

\* Mutated form: the task returns without completing the row.
TimesOutSilently(j) ==
    /\ IsLate(j)
    /\ Kill(j)
    /\ job' = [job EXCEPT ![j].at = "ending"]
    /\ reaping' = reaping \cup {j}
    /\ UNCHANGED <<slots, unanswered, builds, now, faults>>

\* Kill the container, whatever Docker says to that, and fail.
TimeOut(j) ==
    /\ IsLate(j)
    /\ \/ Kill(j) /\ UNCHANGED faults
       \/ Fault("docker") /\ UNCHANGED <<container, exit_code>>
    /\ Report(j, FALSE)
    /\ reaping' = reaping \cup {j}
    /\ UNCHANGED <<slots, unanswered, now>>

\* deploy_nextjs_service_handler comes to svc.deploy.
BeginDeploy(j) ==
    /\ job[j].at = "admitted" /\ job[j].handler = "deploy"
    /\ job' = [job EXCEPT ![j].at = "publishing"]
    /\ UNCHANGED <<slots, docker, builds, now, faults>>

\* Pin the output, or replace the sidecar.
Publish(j) ==
    /\ job[j].at = "publishing"
    /\ Report(j, TRUE)
    /\ UNCHANGED <<slots, docker, now, faults>>

PublishFails(j) ==
    /\ job[j].at = "publishing"
    /\ Fault("docker")
    /\ Report(j, FALSE)
    /\ UNCHANGED <<slots, docker, now>>

\* remove_container with force, in a task of its own; an error is ignored.
Reap(j) ==
    /\ j \in reaping
    /\ reaping' = reaping \ {j}
    /\ \/ container' = [container EXCEPT ![j] = "none"] /\ UNCHANGED faults
       \/ Fault("docker") /\ UNCHANGED container
    /\ UNCHANGED <<slots, job, ended, builds, now>>

-----------------------------------------------------------------------------
(* Clients, crashes and time. *)

\* The client's connection closes: the handler's future is dropped where it
\* waits, and its guards with it.  A spawned build goes on.
ClientLeaves(j) ==
    /\ \/ job[j].at = "admitted"
       \/ job[j].at \in {"running", "publishing"} /\ job[j].handler # "build"
    /\ Fault("leave")
    /\ DropGuard(j)
    /\ reaping' = IF job[j].at = "running" THEN reaping \cup {j} ELSE reaping
    /\ job' = [job EXCEPT ![j].at = "over"]
    /\ UNCHANGED <<container, ended, builds, now>>

\* The process ends and starts again: all but the containers is in memory.
NodeEnds ==
    /\ by_wallet' = {} /\ by_instance' = {} /\ reaping' = {}
    /\ builds' = [j \in Jobs |-> NoBuild]
    /\ job' = [j \in Jobs |-> IF Live(j) THEN [job[j] EXCEPT !.at = "lost"] ELSE job[j]]
    /\ UNCHANGED <<container, ended, now>>

Crash == Fault("crash") /\ NodeEnds

TailCut(j) ==
    /\ job[j].at = "running" /\ container[j] = "exited" /\ TailPanics(j)
    /\ NodeEnds
    /\ UNCHANGED faults

\* append_log cuts a chunk at the cap.
CapCut(j) ==
    /\ job[j].at = "running" /\ container[j] = "running"
    /\ job[j].handler = "build" /\ job[j].output = "cap"
    /\ NodeEnds
    /\ UNCHANGED faults

Tick ==
    /\ now < MaxNow
    /\ now' = now + 1
    /\ UNCHANGED <<slots, job, docker, builds, faults>>

Advance(j) ==
    \/ StartContainer(j) \/ WaitEnds(j) \/ TimeOut(j) \/ TailCut(j)
    \/ StartBuild(j) \/ BeginDeploy(j) \/ Publish(j) \/ EndJob(j)

Next ==
    \/ \E j \in Jobs, handler \in Handlers, i \in Instances, output \in Outputs :
         Request(j, handler, i, output)
    \/ \E j \in Jobs : Advance(j) \/ Reap(j)
    \/ \E j \in Jobs : Reject(j) \/ StartFails(j) \/ WaitFails(j) \/ PublishFails(j)
    \/ \E j \in Jobs, code \in {"zero", "nonzero"} : ContainerExits(j, code)
    \/ \E j \in Jobs : CancelMigration(j) \/ ClientLeaves(j) \/ CapCut(j)
    \/ Crash
    \/ Tick

Spec == Init /\ [][Next]_vars

\* Tokio runs every task that can go on, Docker and Kubo answer, and a wait has
\* a timeout.
FairSpec ==
    /\ Spec
    /\ \A j \in Jobs : WF_vars(Advance(j)) /\ WF_vars(Reap(j))

-----------------------------------------------------------------------------
(* Properties. *)

\* "1 active build per wallet, 1 per instance", "1 active migration per
\* instance", of the jobs that hold a guard.
AdmissionLimits ==
    \A j, k \in Jobs :
        HoldsGuard(j) /\ HoldsGuard(k) /\ j # k
        => /\ InstanceKey(j) # InstanceKey(k)
           /\ Kind(job[j].handler) = "build" => WalletKey(j) # WalletKey(k)

\* A slot is taken just as long as a guard for it lives: no path through the
\* handlers, a panic or a disconnect included, leaks one or frees another's.
\* (A wallet's migration key is not looked up, and two migrations share it.)
SlotsAreHeld ==
    /\ by_instance = {InstanceKey(j) : j \in {k \in Jobs : HoldsGuard(k)}}
    /\ \A w \in Wallets :
         <<"build", w>> \in by_wallet
         <=> \E j \in Jobs : HoldsGuard(j) /\ WalletKey(j) = <<"build", w>>

\* A build that polls as running has a task that will complete it.
RunningRowHasTask ==
    \A j \in Jobs :
        builds[j].status = "running"
        => /\ job[j].handler = "build"
           /\ job[j].at \in {"task", "running", "publishing"}

\* A build that succeeded, or a bulk migration reported done, ran a container
\* that ended well, whatever else Docker, a timeout or a kill made of it; the one
\* exception is a wait that Docker ended without an answer.
SuccessIsEarned ==
    \A j \in Jobs :
        \/ builds[j].status = "succeeded"
        \/ job[j].handler = "bulk" /\ job[j].reported = "done"
        => exit_code[j] = "zero" \/ j \in unanswered

\* While Docker answers and the node stays up, a wallet has one build container
\* at a time: the guard is in the task and the task does not end before it.
OneBuildRuns ==
    /\ faults["docker"] = 0
    /\ \A j \in Jobs : job[j].at # "lost"
    => \A j, k \in Jobs :
         /\ job[j].handler = "build" /\ container[j] = "running"
         /\ job[k].handler = "build" /\ container[k] = "running"
         /\ Owner[job[j].instance] = Owner[job[k].instance]
         => j = k

\* The first outcome of a build is the last, and can be polled until it is
\* stale, unless the node goes down.
OutcomeKept ==
    [][\A j \in Jobs :
         /\ builds[j].status \in {"succeeded", "failed"}
         /\ now - builds[j].finished_at <= KeepFor
         => builds'[j] = builds[j] \/ NodeEnds]_vars

\* Every job that is let in comes to an end and gives back its slot.
JobsSettle == \A j \in Jobs : Live(j) ~> ~Live(j)

-----------------------------------------------------------------------------
(* What the comments claim and the code does not keep. *)

\* A cutover reported done is complete: "Container exits once cutover is
\* complete".
DoneIsComplete ==
    \A j \in Jobs : job[j].handler = "cutover" /\ job[j].reported = "done"
        => exit_code[j] = "zero"
=============================================================================
