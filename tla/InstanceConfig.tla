---------------------------- MODULE InstanceConfig ----------------------------
(***************************************************************************)
(* What the owner of an instance configures: the variables of its edge     *)
(* functions (the /env handlers of main.rs, apply_env_to_functions, the    *)
(* table instance_env), the redirect URLs of its auth service              *)
(* (append_redirect_urls) and its Node sidecar (nextjs_service.rs), beside *)
(* destroy.                                                                *)
(*                                                                         *)
(* One instance: no two instances share a row, a file or a container.      *)
(* instance_env is authoritative; volumes/functions/.env is written from   *)
(* it and read when the functions container is created again, by a task    *)
(* nobody waits for.  A value is the request that set it, and so are a URL *)
(* and a bundle.  A handler is dropped at an await when its client leaves. *)
(***************************************************************************)
EXTENDS Naturals, FiniteSets, FiniteSetsExt

CONSTANTS
    Requests,   \* bound: the requests
    Kinds,      \* what they may be
    Keys,       \* names of variables
    MaxFaults,  \* bound: each of Faults
    MaxTotal    \* bound: all of them together

Applying == {"set", "delete", "apply"}
AllKinds == Applying \cup {"list", "redirect", "deploy"}

\* "disk", "docker": a file operation, a docker command fails.  "leave": a
\* client leaves.  "crash": the node's process ends and is started again.
\* "beside": a request or a destroy starts while another one is under way;
\* "racing": while the functions container is created again.
Faults == {"disk", "docker", "leave", "crash", "beside", "racing"}

ASSUME ConfigAssumption ==
    /\ {"none", "gone"} \cap Requests = {} /\ Keys # {}
    /\ Kinds \subseteq AllKinds
    /\ MaxFaults \in [Faults -> Nat] /\ MaxTotal \in Nat

NoRow == [by |-> "none", protected |-> FALSE]
Rows == {NoRow} \cup [by : Requests, protected : BOOLEAN]
Contents == [Keys -> Requests \cup {"none"}]
Empty == [k \in Keys |-> "none"]
Gone == [k \in Keys |-> "gone"]
NoSidecar == [by |-> "none", env |-> Empty, up |-> FALSE]

VARIABLES
    live,          \* the row of the instance is there and not destroyed
    env,           \* instance_env
    dir,           \* the instance directory: as provisioned, made anew, removed
    env_file,      \* volumes/functions/.env
    functions,     \* the variables the functions container runs with
    network,       \* the network of the compose project is there
    allow_list,    \* URLs of requests in GOTRUE_URI_ALLOW_LIST of .env
    target,        \* the bundle in nextjs/
    sidecar,       \* the container of the sidecar
    nextjs,        \* nextjs_service_status is 'running'
    shown,         \* values handed out by GET /env
    request,       \* the handlers
    recreate,      \* the tasks that create the functions container again
    destroy,       \* where destroy is
    overlap,       \* history: requests under way during the last destroy
    faults         \* faults so far

vars == <<live, env, dir, env_file, functions, network, allow_list, target, sidecar, nextjs,
          shown, request, recreate, destroy, overlap, faults>>
stack == <<functions, network>>
cached == <<env_file, stack>>
destroying == <<destroy, overlap>>
side == <<target, sidecar, nextjs>>

ApplySteps == {"read", "list_env", "write"}
DeploySteps == {"image", "stage", "stop", "merge", "create", "start", "record"}
Steps == {"none", "upsert", "delete", "list", "redirect", "rewrite", "restart", "over"}
             \cup ApplySteps \cup DeploySteps
Answers == {"none", "ok", "refused", "failed", "applied", "not_applied"}

NoRequest(k) ==
    [at |-> "none", kind |-> "list", key |-> k, protected |-> FALSE, again |-> FALSE,
     snap |-> Empty, urls |-> {}, answer |-> "none"]

TypeOK ==
    /\ live \in BOOLEAN /\ env \in [Keys -> Rows]
    /\ dir \in {"whole", "bare", "none"}
    /\ env_file \in Contents /\ functions \in Contents \cup {Gone} /\ network \in BOOLEAN
    /\ allow_list \subseteq Requests
    /\ target \in Requests \cup {"none"}
    /\ sidecar \in [by : Requests \cup {"none"}, env : Contents, up : BOOLEAN]
    /\ nextjs \in BOOLEAN /\ shown \subseteq Requests
    /\ request \in [Requests -> [at : Steps, kind : AllKinds, key : Keys, protected : BOOLEAN,
                                 again : BOOLEAN, snap : Contents, urls : SUBSET Requests,
                                 answer : Answers]]
    /\ recreate \in [Requests -> [at : {"none", "queued", "up"}, snap : Contents]]
    /\ destroy \in {"none", "down", "rm", "env", "mark"} /\ overlap \subseteq Requests
    /\ faults \in [Faults -> Nat]

Init ==
    /\ live = TRUE /\ env = [k \in Keys |-> NoRow] /\ dir = "whole"
    /\ env_file = Empty /\ functions = Empty /\ network = TRUE /\ allow_list = {}
    /\ target = "none" /\ sidecar = NoSidecar /\ nextjs = FALSE /\ shown = {}
    /\ request = [r \in Requests |-> NoRequest(CHOOSE k \in Keys : TRUE)]
    /\ recreate = [r \in Requests |-> [at |-> "none", snap |-> Empty]]
    /\ destroy = "none" /\ overlap = {} /\ faults = [f \in Faults |-> 0]

-----------------------------------------------------------------------------

Fault(f) ==
    /\ faults[f] < MaxFaults[f]
    /\ MapThenSumSet(LAMBDA g : faults[g], Faults) < MaxTotal
    /\ faults' = [faults EXCEPT ![f] = @ + 1]

InFlight(r) == request[r].at \notin {"none", "over"}
Recreating(r) == recreate[r].at # "none"
Busy == destroy # "none" \/ \E r \in Requests : InFlight(r)

\* What starts beside something else is counted.
Beside ==
    IF Busy THEN Fault("beside")
    ELSE IF \E r \in Requests : Recreating(r) THEN Fault("racing")
    ELSE UNCHANGED faults

Goto(r, step) == request' = [request EXCEPT ![r].at = step]
Answer(r, a) == request' = [request EXCEPT ![r].at = "over", ![r].answer = a]

\* list_env: every value, the protected ones included.
Plain == [k \in Keys |-> env[k].by]

-----------------------------------------------------------------------------
(* The handlers start: require_owned_instance.  A deploy is admitted alone. *)

FirstStep(kind) ==
    CASE kind = "set"    -> "upsert"
      [] kind = "apply"  -> "read"
      [] kind = "deploy" -> "image"
      [] OTHER           -> kind

Start(r) ==
    /\ request[r].at = "none"
    /\ live
    /\ Beside
    /\ \E kind \in Kinds, k \in Keys, p \in BOOLEAN :
        /\ kind \notin {"set", "delete"} => k = request[r].key
        /\ kind # "set" => ~p
        /\ kind = "deploy" => \A s \in Requests : InFlight(s) => request[s].kind # "deploy"
        /\ request' = [request EXCEPT ![r] = [@ EXCEPT !.at = FirstStep(kind), !.kind = kind,
                                                       !.key = k, !.protected = p]]
    /\ overlap' = IF destroy = "none" THEN overlap ELSE overlap \cup {r}
    /\ UNCHANGED <<live, env, dir, cached, allow_list, side, shown, recreate, destroy>>

\* Mutated form: the values of protected rows are shown, too.
ListedAll == {k \in Keys : env[k].by # "none"}

\* Values of protected rows are left out.
Listed == {k \in Keys : env[k].by # "none" /\ ~env[k].protected}

List(r) ==
    /\ request[r].at = "list"
    /\ shown' = shown \cup {env[k].by : k \in Listed}
    /\ Answer(r, "ok")
    /\ UNCHANGED <<live, env, dir, cached, allow_list, side, recreate, destroying, faults>>

-----------------------------------------------------------------------------
(* set_env_handler and delete_env_handler: the row. *)

\* One statement under the connection's mutex, of a destroyed instance, too.
Upsert(r) ==
    /\ request[r].at = "upsert"
    /\ LET k == request[r].key
       IN \/ /\ env[k].protected /\ ~request[r].protected
             /\ Answer(r, "refused")
             /\ UNCHANGED env
          \/ /\ env[k].protected => request[r].protected
             /\ env' = [env EXCEPT ![k] = [by |-> r, protected |-> request[r].protected]]
             /\ Goto(r, "read")
    /\ UNCHANGED <<live, dir, cached, allow_list, side, shown, recreate, destroying, faults>>

Deleted(r) == Goto(r, "read")

DeleteEnv(r) ==
    /\ request[r].at = "delete"
    /\ LET k == request[r].key
       IN \/ /\ env[k] # NoRow
             /\ env' = [env EXCEPT ![k] = NoRow]
             /\ Deleted(r)
          \/ /\ env[k] = NoRow
             /\ Answer(r, "refused")
             /\ UNCHANGED env
    /\ UNCHANGED <<live, dir, cached, allow_list, side, shown, recreate, destroying, faults>>

-----------------------------------------------------------------------------
(* apply_env_to_functions. *)

\* set_env tries twice; a protected variable that is not applied is a failure.
SetNotApplied(r) ==
    IF ~request[r].again
        THEN request' = [request EXCEPT ![r].at = "read", ![r].again = TRUE]
        ELSE Answer(r, IF request[r].protected THEN "failed" ELSE "not_applied")

DeleteNotApplied(r) == Answer(r, "not_applied")
ApplyNotApplied(r) == Answer(r, "failed")

\* What the handler makes of an error.
ApplyFails(r) ==
    \/ request[r].kind = "set" /\ SetNotApplied(r)
    \/ request[r].kind = "delete" /\ DeleteNotApplied(r)
    \/ request[r].kind = "apply" /\ ApplyNotApplied(r)

\* The row, and create_dir_all: a directory that was removed is made again.
ReadInstance(r) ==
    /\ request[r].at = "read"
    /\ \/ /\ live
          /\ dir' = IF dir = "none" THEN "bare" ELSE dir
          /\ Goto(r, "list_env")
          /\ UNCHANGED faults
       \/ /\ IF live THEN Fault("disk") ELSE UNCHANGED faults
          /\ ApplyFails(r)
          /\ UNCHANGED dir
    /\ UNCHANGED <<live, env, cached, allow_list, side, shown, recreate, destroying>>

ListEnv(r) ==
    /\ request[r].at = "list_env"
    /\ request' = [request EXCEPT ![r].at = "write", ![r].snap = Plain]
    /\ UNCHANGED <<live, env, dir, cached, allow_list, side, shown, recreate, destroying, faults>>

\* The write is awaited, and truncates the file first; then the task is spawned
\* and the caller answered.
WriteEnvFile(r) ==
    /\ request[r].at = "write"
    /\ \/ /\ dir # "none"
          /\ env_file' = request[r].snap
          /\ recreate' = [recreate EXCEPT ![r].at = "queued"]
          /\ Answer(r, "applied")
          /\ UNCHANGED faults
       \/ /\ \/ dir = "none" /\ UNCHANGED <<env_file, faults>>
             \/ dir # "none" /\ Fault("disk") /\ env_file' \in {env_file, Empty}
          /\ ApplyFails(r)
          /\ UNCHANGED recreate
    /\ UNCHANGED <<live, env, dir, stack, allow_list, side, shown, destroying>>

\* Mutated form: `docker compose restart`, which keeps the container's variables.
Restarted == IF functions = Gone THEN env_file ELSE functions

ReadByCompose == env_file

\* `up -d --force-recreate`: compose reads env_file, then the container goes
\* and comes back.  An error is only logged.
RecreateReads(r) ==
    /\ recreate[r].at = "queued"
    /\ \/ /\ dir = "whole"
          /\ recreate' = [recreate EXCEPT ![r] = [at |-> "up", snap |-> ReadByCompose]]
          /\ UNCHANGED faults
       \/ /\ IF dir = "whole" THEN Fault("docker") ELSE UNCHANGED faults
          /\ recreate' = [recreate EXCEPT ![r].at = "none"]
    /\ UNCHANGED <<live, env, dir, cached, allow_list, side, shown, request, destroying>>

RecreateRuns(r) ==
    /\ recreate[r].at = "up"
    /\ \/ functions' = recreate[r].snap /\ network' = TRUE /\ UNCHANGED faults
       \/ Fault("docker") /\ functions' \in {functions, Gone} /\ UNCHANGED network
    /\ recreate' = [recreate EXCEPT ![r].at = "none"]
    /\ UNCHANGED <<live, env, dir, env_file, allow_list, side, shown, request, destroying>>

-----------------------------------------------------------------------------
(* append_redirect_urls: .env is read, and written, without a lock. *)

ReadAllowList(r) ==
    /\ request[r].at = "redirect"
    /\ \/ /\ live /\ dir = "whole"
          /\ request' = [request EXCEPT ![r].at = "rewrite", ![r].urls = allow_list]
       \/ /\ ~(live /\ dir = "whole")
          /\ Answer(r, "failed")
    /\ UNCHANGED <<live, env, dir, cached, allow_list, side, shown, recreate, destroying, faults>>

Merged(r) == request[r].urls \cup {r}

WriteAllowList(r) ==
    /\ request[r].at = "rewrite"
    /\ \/ /\ dir = "whole"
          /\ allow_list' = Merged(r)
          /\ Goto(r, "restart")
          /\ UNCHANGED faults
       \/ /\ IF dir = "whole" THEN Fault("disk") ELSE UNCHANGED faults
          /\ Answer(r, "failed")
          /\ UNCHANGED allow_list
    /\ UNCHANGED <<live, env, dir, cached, side, shown, recreate, destroying>>

\* A container that is not found is not an error.
RestartAuth(r) ==
    /\ request[r].at = "restart"
    /\ \/ Answer(r, "ok") /\ UNCHANGED faults
       \/ Answer(r, "failed") /\ Fault("docker")
    /\ UNCHANGED <<live, env, dir, cached, allow_list, side, shown, recreate, destroying>>

-----------------------------------------------------------------------------
(* NextjsService::deploy. *)

EnsureImage(r) ==
    /\ request[r].at = "image"
    /\ \/ Goto(r, "stage") /\ UNCHANGED faults
       \/ Answer(r, "failed") /\ Fault("docker")
    /\ UNCHANGED <<live, env, dir, cached, allow_list, side, shown, recreate, destroying>>

\* The bundle is unpacked beside nextjs/, which is removed and replaced.
StageAndSwap(r) ==
    /\ request[r].at = "stage"
    /\ dir' = IF dir = "none" THEN "bare" ELSE dir
    /\ \/ target' = r /\ Goto(r, "stop") /\ UNCHANGED faults
       \/ target' \in {target, "none"} /\ Answer(r, "failed") /\ Fault("disk")
    /\ UNCHANGED <<live, env, cached, allow_list, sidecar, nextjs, shown, recreate, destroying>>

\* Mutated form: the container of the deploy before is not looked for.
OldKept == sidecar

WithoutOld == NoSidecar

\* Best effort: either of the two calls may fail.
StopAndRemove(r) ==
    /\ request[r].at = "stop"
    /\ \/ sidecar' = WithoutOld /\ UNCHANGED faults
       \/ Fault("docker") /\ sidecar' \in {WithoutOld, [sidecar EXCEPT !.up = FALSE], sidecar}
    /\ Goto(r, "merge")
    /\ UNCHANGED <<live, env, dir, cached, allow_list, target, nextjs, shown, recreate, destroying>>

MergeEnv(r) ==
    /\ request[r].at = "merge"
    /\ request' = [request EXCEPT ![r].at = "create", ![r].snap = Plain]
    /\ UNCHANGED <<live, env, dir, cached, allow_list, side, shown, recreate, destroying, faults>>

Created(r) == [by |-> r, env |-> request[r].snap, up |-> FALSE]

\* The name may be taken.
CreateSidecar(r) ==
    /\ request[r].at = "create"
    /\ \/ /\ sidecar = NoSidecar
          /\ sidecar' = Created(r)
          /\ Goto(r, "start")
          /\ UNCHANGED faults
       \/ /\ IF sidecar = NoSidecar THEN Fault("docker") ELSE UNCHANGED faults
          /\ Answer(r, "failed")
          /\ UNCHANGED sidecar
    /\ UNCHANGED <<live, env, dir, cached, allow_list, target, nextjs, shown, recreate, destroying>>

\* It joins the network of the compose project.
StartSidecar(r) ==
    /\ request[r].at = "start"
    /\ \/ /\ network
          /\ sidecar' = [sidecar EXCEPT !.up = TRUE]
          /\ Goto(r, "record")
          /\ UNCHANGED faults
       \/ /\ IF network THEN Fault("docker") ELSE UNCHANGED faults
          /\ Answer(r, "failed")
          /\ UNCHANGED sidecar
    /\ UNCHANGED <<live, env, dir, cached, allow_list, target, nextjs, shown, recreate, destroying>>

SetNextjsService(r) ==
    /\ request[r].at = "record"
    /\ nextjs' = TRUE
    /\ Answer(r, "ok")
    /\ UNCHANGED <<live, env, dir, cached, allow_list, target, sidecar, shown, recreate, destroying,
                   faults>>

-----------------------------------------------------------------------------
(* destroy, clients that leave, and the end of the process. *)

Destroy ==
    /\ destroy = "none"
    /\ live
    /\ Beside
    /\ destroy' = "down"
    /\ overlap' = {r \in Requests : InFlight(r) \/ Recreating(r)}
    /\ UNCHANGED <<live, env, dir, cached, allow_list, side, shown, request, recreate>>

\* The network stays while a running sidecar is on it.
NetworkAfterDown == network /\ sidecar.up

\* docker compose down in the instance's directory, without which it cannot be
\* started and destroy ends; a failure of its own is only logged.
ComposeDown ==
    /\ destroy = "down"
    /\ \/ /\ dir # "none" /\ destroy' = "rm"
          /\ \/ functions' = Gone /\ network' = NetworkAfterDown /\ UNCHANGED faults
             \/ functions' \in {functions, Gone} /\ UNCHANGED network /\ Fault("docker")
       \/ /\ dir # "none" /\ destroy' = "none" /\ Fault("leave")
          /\ functions' \in {functions, Gone} /\ network' \in {network, NetworkAfterDown}
       \/ /\ destroy' = "none" /\ UNCHANGED stack
          /\ IF dir = "none" THEN UNCHANGED faults ELSE Fault("docker")
    /\ UNCHANGED <<live, env, dir, env_file, allow_list, side, shown, request, recreate, overlap>>

RemoveDir ==
    /\ destroy = "rm"
    /\ destroy' = "env"
    /\ \/ dir' = "none" /\ UNCHANGED faults
       \/ dir # "none" /\ Fault("disk") /\ UNCHANGED dir
    /\ UNCHANGED <<live, env, cached, allow_list, side, shown, request, recreate, overlap>>

\* Mutated form: the cascade of the foreign key is relied on.
RowsKept == env

RowsCleared == [k \in Keys |-> NoRow]

DeleteAllEnv ==
    /\ destroy = "env"
    /\ destroy' = "mark"
    /\ env' = RowsCleared
    /\ UNCHANGED <<live, dir, cached, allow_list, side, shown, request, recreate, overlap, faults>>

MarkDestroyed ==
    /\ destroy = "mark"
    /\ destroy' = "none"
    /\ live' = FALSE
    /\ UNCHANGED <<env, dir, cached, allow_list, side, shown, request, recreate, overlap, faults>>

\* What a file or docker operation that a handler no longer waits for leaves.
FileLeft(r) ==
    IF request[r].at = "write" /\ dir # "none" THEN {env_file, Empty, request[r].snap}
    ELSE {env_file}

SidecarLeft(r) ==
    {sidecar}
        \cup (IF request[r].at = "stop" THEN {WithoutOld, [sidecar EXCEPT !.up = FALSE]} ELSE {})
        \cup (IF request[r].at = "create" /\ sidecar = NoSidecar THEN {Created(r)} ELSE {})
        \cup (IF request[r].at = "start" /\ network THEN {[sidecar EXCEPT !.up = TRUE]} ELSE {})

ClientLeaves(r) ==
    /\ \/ request[r].at \in {"write", "restart", "image", "stop", "create", "start"}
       \/ request[r].at = "read" /\ request[r].again
    /\ Fault("leave")
    /\ Goto(r, "over")
    /\ env_file' \in FileLeft(r)
    /\ sidecar' \in SidecarLeft(r)
    /\ UNCHANGED <<live, env, dir, stack, allow_list, target, nextjs, shown, recreate, destroying>>

Restart ==
    /\ Fault("crash")
    /\ env_file' \in {env_file} \cup UNION {FileLeft(r) : r \in Requests}
    /\ sidecar' \in {sidecar} \cup UNION {SidecarLeft(r) : r \in Requests}
    /\ LET under_way == {r \in Requests : recreate[r].at = "up"}
       IN functions' \in {functions} \cup {recreate[r].snap : r \in under_way}
                            \cup (IF destroy = "down" \/ under_way # {} THEN {Gone} ELSE {})
    /\ network' \in {network} \cup (IF destroy = "down" THEN {NetworkAfterDown} ELSE {})
    /\ request' = [r \in Requests |->
                      IF InFlight(r) THEN [request[r] EXCEPT !.at = "over"] ELSE request[r]]
    /\ recreate' = [r \in Requests |-> [recreate[r] EXCEPT !.at = "none"]]
    /\ destroy' = "none"
    /\ UNCHANGED <<live, env, dir, allow_list, target, nextjs, shown, overlap>>

-----------------------------------------------------------------------------

Handle(r) ==
    \/ List(r) \/ Upsert(r) \/ DeleteEnv(r)
    \/ ReadInstance(r) \/ ListEnv(r) \/ WriteEnvFile(r)
    \/ ReadAllowList(r) \/ WriteAllowList(r) \/ RestartAuth(r)
    \/ EnsureImage(r) \/ StageAndSwap(r) \/ StopAndRemove(r) \/ MergeEnv(r)
    \/ CreateSidecar(r) \/ StartSidecar(r) \/ SetNextjsService(r)

Recreate(r) == RecreateReads(r) \/ RecreateRuns(r)

DestroyStep == ComposeDown \/ RemoveDir \/ DeleteAllEnv \/ MarkDestroyed

Next ==
    \/ \E r \in Requests : Start(r) \/ Handle(r) \/ Recreate(r) \/ ClientLeaves(r)
    \/ Destroy \/ DestroyStep
    \/ Restart

Spec == Init /\ [][Next]_vars

\* Handlers and tasks run on.
FairSpec ==
    /\ Spec
    /\ \A r \in Requests : WF_vars(Handle(r)) /\ WF_vars(Recreate(r))
    /\ WF_vars(DestroyStep)

-----------------------------------------------------------------------------
(* Properties. *)

Never(fs) == \A f \in fs : faults[f] = 0

\* A value that was set as protected is handed out by no GET /env, in whatever
\* order it was set, overwritten, deleted and set again.
SecretsUnseen == \A r \in shown : ~request[r].protected

\* What a caller was told is applied gets to the functions container: when it
\* was created again it runs with what the table says, unless docker or a write
\* fails, handlers overlap, or one recreate ends after the next one.
AppliedReaches ==
    \A r \in Requests :
        request[r].answer = "applied"
            ~> \/ functions = Plain
               \/ ~live \/ ~Never({"disk", "docker", "crash", "leave", "beside", "racing"})

\* What is left of a destroyed instance is younger than its destroy: a value in
\* the table was set, and the directory or the functions container made again, by
\* a request that was under way beside it, unless docker or the removal of the
\* directory failed.  (The sidecar is not torn down at all.)
LeftoversAreLate ==
    ~live =>
        /\ \A k \in Keys : env[k].by \in overlap \cup {"none"}
        /\ dir # "none" =>
               faults["disk"] > 0 \/ \E r \in overlap : request[r].kind \in Applying \cup {"deploy"}
        /\ functions # Gone =>
               faults["docker"] > 0 \/ \E r \in overlap : request[r].kind \in Applying

\* The sidecar that the row calls 'running' runs the bundle and was given the
\* container's name, whatever was deployed before; a failed or dropped deploy
\* leaves the row and no container, or an older one.
SidecarServesTarget ==
    live /\ destroy = "none" /\ nextjs /\ (\A r \in Requests : request[r].at \notin DeploySteps)
        /\ Never({"disk", "docker", "leave", "crash"}) =>
            sidecar.up /\ sidecar.by = target

===============================================================================
