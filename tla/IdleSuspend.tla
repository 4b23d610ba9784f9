----------------------------- MODULE IdleSuspend -----------------------------
(***************************************************************************)
(* Suspending an idle instance and bringing it back: the sweeper of        *)
(* main.rs, suspend and resume of instance_manager.rs, the handlers of     *)
(* /touch, /resume and /pin and the columns they use, beside destroy.      *)
(*                                                                         *)
(* One instance: the locks are per instance and the sweeper takes one row  *)
(* after the other.  The handlers are called by the gateway, which asks    *)
(* for /resume as long as it has traffic for the instance.  A handler      *)
(* whose client leaves is dropped at its next await; the docker command it *)
(* waited for runs on.                                                     *)
(***************************************************************************)
EXTENDS Naturals, FiniteSets, FiniteSetsExt

CONSTANTS
    Requests,   \* bound: /resume handlers at a time
    Statuses,   \* what instances.status of the row may be
    IdleSecs,   \* idle_suspend_secs, in ticks of the clock
    Pins,       \* how far ahead of the clock a pin may run
    MaxNow,     \* bound: the clock
    MaxFaults,  \* bound: each of Faults
    MaxTotal    \* bound: all of them together

\* "docker": docker exits non-zero.  "spawn": it cannot be started.  "slow":
\* Postgres does not listen within 30 s.  "leave": the client of a /resume or of
\* a destroy leaves.  "crash": the node's process ends and is started again.
Faults == {"docker", "spawn", "slow", "leave", "crash"}

ASSUME IdleAssumption ==
    /\ {"sweep", "nobody"} \cap Requests = {}
    /\ Statuses \subseteq {"active", "running"}
    /\ IdleSecs \in Nat /\ Pins \subseteq Nat /\ MaxNow \in Nat
    /\ MaxFaults \in [Faults -> Nat] /\ MaxTotal \in Nat

VARIABLES
    now,              \* the clock
    status,           \* instances.status
    lifecycle_state,  \* instances.lifecycle_state
    last_seen_at,     \* instances.last_seen_at, created_at (0) at first
    pinned_until,     \* instances.pinned_until, 0 for NULL
    stack,            \* the containers of the compose project
    lock,             \* who holds the instance's entry of resume_locks
    request,          \* where each /resume handler is
    sweep,            \* where the sweeper is
    hit,              \* history: touched or pinned since the sweeper listed it
    destroy,          \* where a destroy is
    orphan,           \* a `compose start` runs on without its handler
    faults            \* faults so far

vars == <<now, status, lifecycle_state, last_seen_at, pinned_until, stack, lock,
          request, sweep, hit, destroy, orphan, faults>>
swept == <<sweep, hit>>
row == <<status, lifecycle_state, last_seen_at, pinned_until>>

\* Handlers that hold the lock; of them, those that bring the instance up.
Resuming == {"cold", "starting", "failed", "polling"}
Locked == {"locked", "touching2", "up"} \cup Resuming
Asking == {"touching", "locking"} \cup Locked

TypeOK ==
    /\ now \in 0..MaxNow
    /\ status \in Statuses \cup {"destroyed"}
    /\ lifecycle_state \in {"running", "suspended", "starting"}
    /\ last_seen_at \in 0..now
    /\ pinned_until \in Nat
    /\ stack \in {"up", "stopped", "gone"}
    /\ lock \in Requests \cup {"sweep", "nobody"}
    /\ request \in [Requests -> Asking \cup {"none", "over"}]
    /\ sweep \in {"idle", "listed", "locked", "stopping", "stopped"} /\ hit \in BOOLEAN
    /\ destroy \in {"none", "down", "mark"}
    /\ orphan \in BOOLEAN
    /\ faults \in [Faults -> Nat]

Init ==
    /\ now = 0 /\ status \in Statuses /\ lifecycle_state = "running"
    /\ last_seen_at = 0 /\ pinned_until = 0 /\ stack = "up"
    /\ lock = "nobody" /\ request = [r \in Requests |-> "none"]
    /\ sweep = "idle" /\ hit = FALSE /\ destroy = "none" /\ orphan = FALSE
    /\ faults = [f \in Faults |-> 0]

-----------------------------------------------------------------------------

\* What get_instance_by_id finds.
Live == status # "destroyed"

Fault(f) ==
    /\ faults[f] < MaxFaults[f]
    /\ MapThenSumSet(LAMBDA g : faults[g], Faults) < MaxTotal
    /\ faults' = [faults EXCEPT ![f] = @ + 1]

Goto(r, place) == request' = [request EXCEPT ![r] = place]

\* The handler ends and its guard is dropped.
Leave(r) ==
    /\ Goto(r, "over")
    /\ lock' = IF lock = r THEN "nobody" ELSE lock

Hit == hit' = (sweep # "idle")

\* touch_instance, of any row.
Touched == last_seen_at' = now /\ Hit

-----------------------------------------------------------------------------
(* /touch, /pin and the clock. *)

Touch ==
    /\ Touched
    /\ UNCHANGED <<now, status, lifecycle_state, pinned_until, stack, lock, request,
                   sweep, destroy, orphan, faults>>

\* A pin is never shortened.
Pin ==
    /\ \E ahead \in Pins : pinned_until' = Max({pinned_until, now + ahead})
    /\ Hit
    /\ UNCHANGED <<now, status, lifecycle_state, last_seen_at, stack, lock, request,
                   sweep, destroy, orphan, faults>>

Tick ==
    /\ now < MaxNow
    /\ now' = now + 1
    /\ UNCHANGED <<row, stack, lock, request, swept, destroy, orphan, faults>>

-----------------------------------------------------------------------------
(* /resume. *)

\* The fast path of a running instance skips the lock.
Resume(r) ==
    /\ request[r] \in {"none", "over"}
    /\ Live
    /\ Goto(r, IF lifecycle_state = "running" THEN "touching" ELSE "locking")
    /\ UNCHANGED <<now, row, stack, lock, swept, destroy, orphan, faults>>

\* Answered as already running, or as resumed.
TouchAndAnswer(r) ==
    /\ request[r] \in {"touching", "touching2", "up"}
    /\ Touched
    /\ Leave(r)
    /\ UNCHANGED <<now, status, lifecycle_state, pinned_until, stack, sweep, destroy,
                   orphan, faults>>

\* Mutated form: the lock is not waited for.
LockIgnored(r) ==
    /\ request[r] = "locking"
    /\ lock' = r
    /\ Goto(r, "locked")
    /\ UNCHANGED <<now, row, stack, swept, destroy, orphan, faults>>

TakeLock(r) ==
    /\ request[r] = "locking"
    /\ lock = "nobody"
    /\ lock' = r
    /\ Goto(r, "locked")
    /\ UNCHANGED <<now, row, stack, swept, destroy, orphan, faults>>

\* Mutated form: an instance that is starting is taken for being resumed.
ResumedBySomeone == lifecycle_state \in {"running", "starting"}

ResumedBefore == lifecycle_state = "running"

\* The second look, inside the lock, and the third, in InstanceManager::resume.
Recheck(r) ==
    /\ request[r] = "locked"
    /\ \/ ~Live /\ Leave(r)
       \/ Live /\ Goto(r, IF ResumedBefore THEN "touching2" ELSE "cold") /\ UNCHANGED lock
    /\ UNCHANGED <<now, row, stack, swept, destroy, orphan, faults>>

\* Mutated form: the row says 'running' before docker is called.
RunningAtOnce(r) ==
    /\ request[r] = "cold"
    /\ lifecycle_state' = "running"
    /\ Goto(r, "starting")
    /\ UNCHANGED <<now, status, last_seen_at, pinned_until, stack, lock, swept, destroy,
                   orphan, faults>>

SetStarting(r) ==
    /\ request[r] = "cold"
    /\ lifecycle_state' = "starting"
    /\ Goto(r, "starting")
    /\ UNCHANGED <<now, status, last_seen_at, pinned_until, stack, lock, swept, destroy,
                   orphan, faults>>

\* docker compose start: done; refused, as it is when there are no containers;
\* or not spawned, which leaves the row as it is.
ComposeStart(r) ==
    /\ request[r] = "starting"
    /\ \/ /\ stack # "gone" /\ stack' = "up" /\ Goto(r, "polling")
          /\ UNCHANGED <<lock, faults>>
       \/ /\ IF stack # "gone" THEN Fault("docker") ELSE UNCHANGED faults
          /\ Goto(r, "failed")
          /\ UNCHANGED <<stack, lock>>
       \/ /\ Fault("spawn")
          /\ Leave(r)
          /\ UNCHANGED stack
    /\ UNCHANGED <<now, row, swept, destroy, orphan>>

ResetToSuspended(r) ==
    /\ request[r] = "failed"
    /\ lifecycle_state' = "suspended"
    /\ Leave(r)
    /\ UNCHANGED <<now, status, last_seen_at, pinned_until, stack, swept, destroy,
                   orphan, faults>>

\* Postgres listens on the host's port.
Listens(r) == stack = "up"

\* The 30 s of polling end with a connection, or without one in 'starting'.
Poll(r) ==
    /\ request[r] = "polling"
    /\ \/ /\ Listens(r)
          /\ lifecycle_state' = "running"
          /\ Goto(r, "up")
          /\ UNCHANGED <<lock, faults>>
       \/ /\ IF Listens(r) THEN Fault("slow") ELSE UNCHANGED faults
          /\ Leave(r)
          /\ UNCHANGED lifecycle_state
    /\ UNCHANGED <<now, status, last_seen_at, pinned_until, stack, swept, destroy,
                   orphan>>

\* The client leaves while its handler awaits.
ClientLeaves(r) ==
    /\ request[r] \in {"locking", "starting", "polling"}
    /\ Fault("leave")
    /\ Leave(r)
    /\ orphan' = (orphan \/ request[r] = "starting")
    /\ UNCHANGED <<now, row, stack, swept, destroy>>

\* The command of a handler that is gone ends.
OrphanEnds ==
    /\ orphan /\ orphan' = FALSE
    /\ stack' \in (IF stack = "gone" THEN {stack} ELSE {stack, "up"})
    /\ UNCHANGED <<now, row, lock, request, swept, destroy, faults>>

-----------------------------------------------------------------------------
(* The sweeper. *)

\* Mutated form: the pin is compared without asking for NULL, which is never less.
NullPinned ==
    /\ status = "active" /\ lifecycle_state = "running"
    /\ pinned_until # 0 /\ pinned_until < now
    /\ last_seen_at + IdleSecs < now

\* list_idle_running_instances.
IdleRunning ==
    /\ status = "active" /\ lifecycle_state = "running"
    /\ pinned_until < now
    /\ last_seen_at + IdleSecs < now

List ==
    /\ sweep = "idle"
    /\ IdleRunning
    /\ sweep' = "listed"
    /\ hit' = FALSE
    /\ UNCHANGED <<now, row, stack, lock, request, destroy, orphan, faults>>

SweepEnds ==
    /\ sweep' = "idle" /\ hit' = FALSE
    /\ lock' = IF lock = "sweep" THEN "nobody" ELSE lock

\* While a resume is in progress the instance is left for the next tick.
TryLock ==
    /\ sweep = "listed"
    /\ \/ lock = "nobody" /\ lock' = "sweep" /\ sweep' = "locked" /\ UNCHANGED hit
       \/ lock # "nobody" /\ SweepEnds
    /\ UNCHANGED <<now, row, stack, request, destroy, orphan, faults>>

\* suspend looks only whether the row is there.
Suspend ==
    /\ sweep = "locked"
    /\ \/ Live /\ sweep' = "stopping" /\ UNCHANGED <<lock, hit>>
       \/ ~Live /\ SweepEnds
    /\ UNCHANGED <<now, row, stack, request, destroy, orphan, faults>>

\* docker compose stop, which finds nothing to stop when the containers are gone
\* and fails when their directory is; on an error the row stays 'running'.
ComposeStop ==
    /\ sweep = "stopping"
    /\ \/ /\ stack' = IF stack = "gone" THEN stack ELSE "stopped"
          /\ sweep' = "stopped"
          /\ UNCHANGED <<lock, hit, faults>>
       \/ /\ \/ stack = "gone" /\ UNCHANGED <<stack, faults>>
             \/ Fault("spawn") /\ UNCHANGED stack
             \/ stack # "gone" /\ Fault("docker") /\ stack' \in {stack, "stopped"}
          /\ SweepEnds
    /\ UNCHANGED <<now, row, request, destroy, orphan>>

SetSuspended ==
    /\ sweep = "stopped"
    /\ lifecycle_state' = "suspended"
    /\ SweepEnds
    /\ UNCHANGED <<now, status, last_seen_at, pinned_until, stack, request, destroy,
                   orphan, faults>>

-----------------------------------------------------------------------------
(* destroy, which takes no lock, and the end of the process. *)

Destroy ==
    /\ destroy = "none"
    /\ Live
    /\ destroy' = "down"
    /\ UNCHANGED <<now, row, stack, lock, request, swept, orphan, faults>>

ComposeDown ==
    /\ destroy = "down"
    /\ \/ stack' = "gone" /\ destroy' = "mark" /\ UNCHANGED faults
       \/ stack' \in {stack, "gone"} /\ destroy' = "none" /\ Fault("leave")
    /\ UNCHANGED <<now, row, lock, request, swept, orphan>>

MarkDestroyed ==
    /\ destroy = "mark"
    /\ status' = "destroyed"
    /\ destroy' = "none"
    /\ UNCHANGED <<now, lifecycle_state, last_seen_at, pinned_until, stack, lock,
                   request, swept, orphan, faults>>

\* The locks and the tasks are gone; a command that was running may have ended.
Restart ==
    /\ Fault("crash")
    /\ lock' = "nobody" /\ sweep' = "idle" /\ hit' = FALSE
    /\ destroy' = "none" /\ orphan' = FALSE
    /\ request' = [r \in Requests |-> IF request[r] = "none" THEN "none" ELSE "over"]
    /\ stack' \in {stack}
         \cup (IF stack = "up" /\ sweep = "stopping" THEN {"stopped"} ELSE {})
         \cup (IF stack = "stopped" /\ (orphan \/ \E r \in Requests : request[r] = "starting")
                   THEN {"up"} ELSE {})
    /\ UNCHANGED <<now, row>>

-----------------------------------------------------------------------------

Handle(r) ==
    \/ TouchAndAnswer(r) \/ TakeLock(r) \/ Recheck(r) \/ SetStarting(r)
    \/ ComposeStart(r) \/ ResetToSuspended(r) \/ Poll(r)

SweepStep == TryLock \/ Suspend \/ ComposeStop \/ SetSuspended

Next ==
    \/ \E r \in Requests : Resume(r) \/ Handle(r) \/ ClientLeaves(r)
    \/ Touch \/ Pin \/ Tick
    \/ OrphanEnds
    \/ List \/ SweepStep
    \/ Destroy \/ ComposeDown \/ MarkDestroyed
    \/ Restart

Spec == Init /\ [][Next]_vars

\* Tasks run on; the gateway asks again for an instance it could not reach;
\* tokio's mutex serves its waiters in turn; the sweeper ticks.
FairSpec ==
    /\ Spec
    /\ \A r \in Requests :
        /\ WF_vars(lifecycle_state # "running" /\ Resume(r))
        /\ WF_vars(Handle(r)) /\ SF_vars(TakeLock(r))
    /\ WF_vars(List) /\ WF_vars(SweepStep)
    /\ WF_vars(ComposeDown) /\ WF_vars(MarkDestroyed)
    /\ WF_vars(OrphanEnds)

-----------------------------------------------------------------------------
(* Properties. *)

\* The sweeper acts on a list it does not look at again.  Still, what it stops is
\* a 'running' instance that no handler is bringing up, and one that is idle,
\* unless it was hit or pinned after the list was made.
SweptWhileIdle ==
    sweep \in {"locked", "stopping", "stopped"} =>
        /\ lifecycle_state = "running"
        /\ \A r \in Requests : request[r] \notin Resuming
        /\ hit \/ (pinned_until < now /\ last_seen_at + IdleSecs < now)

\* A row that says 'running' has its containers up, but for the time between
\* `compose stop` and the row, and while the instance is destroyed: unless the
\* process ended there, a stop failed halfway or a destroy lost its client, which
\* nothing puts right.
RunningMeansUp ==
    lifecycle_state = "running" /\ Live /\ faults["docker"] = 0 /\ faults["leave"] = 0
        /\ faults["crash"] = 0 =>
            stack = "up" \/ sweep = "stopped" \/ destroy = "mark"

\* The containers of a row that says 'suspended' do not run, unless a
\* `compose start` outlived its handler, or was refused when the start before
\* had ended without Postgres listening in time.
SuspendedMeansDown ==
    lifecycle_state = "suspended" /\ faults["docker"] = 0 /\ faults["leave"] = 0
        /\ faults["crash"] = 0 =>
            stack # "up"

\* What the gateway decides by, lifecycle_state, is what Docker runs, whatever
\* sweeps, resumes and a destroy are under way, with these exceptions.
RowMatchesStack == RunningMeansUp /\ SuspendedMeansDown

\* Whatever fails, and wherever the process ends, an instance that is suspended
\* or starting gets back to running while the gateway asks for it, or is
\* destroyed; a destroy that was cut after `compose down` leaves nothing to start.
ComesBack ==
    (Live /\ lifecycle_state # "running")
        ~> (lifecycle_state = "running" \/ ~Live \/ stack = "gone")

\* An instance without traffic is suspended after idle_suspend_secs, unless it is
\* hit, pinned or destroyed.
IdleGoes ==
    (Live /\ lifecycle_state = "running" /\ pinned_until < now /\ last_seen_at + IdleSecs < now)
        ~> \/ ~Live \/ lifecycle_state # "running" \/ pinned_until >= now
           \/ last_seen_at + IdleSecs >= now \/ stack = "gone"

==============================================================================
