---------------------------- MODULE NodeJobsProofs ----------------------------
(***************************************************************************)
(* The safety properties of NodeJobs, for any jobs, wallets and instances. *)
(* JobInv adds to them what each place in a handler implies of its own     *)
(* job (LocalInv), and that while Docker answers and the node stays up a   *)
(* build's container runs only while its task waits for it (RunsWaited).   *)
(***************************************************************************)
EXTENDS NodeJobs, TLAPS

Untouched(j) ==
    /\ job[j].at = "idle" => job[j].handler = "none"
    /\ job[j].at \in {"idle", "admitted"} => builds[j].status = "none"
    /\ job[j].at \in {"idle", "admitted", "task"}
       => container[j] = "none" /\ exit_code[j] = "none"

PlaceFits(j) ==
    /\ Live(j) => job[j].handler \in AllHandlers
    /\ job[j].at = "task" => job[j].handler = "build"
    /\ job[j].at = "running" => job[j].handler # "deploy"
    /\ job[j].at = "publishing" => job[j].handler \in {"build", "deploy"}

RowFits(j) ==
    (builds[j].status = "running")
    <=> /\ job[j].handler = "build"
        /\ job[j].at \in {"task", "running", "publishing"}

ExitFits(j) ==
    /\ container[j] = "running" => exit_code[j] = "none"
    /\ j \notin unanswered =>
           /\ job[j].handler = "build" /\ job[j].at = "publishing" => exit_code[j] = "zero"
           /\ builds[j].status = "succeeded" => exit_code[j] = "zero"
           /\ job[j].handler = "bulk" /\ job[j].reported = "done" => exit_code[j] = "zero"

LocalInv(j) == Untouched(j) /\ PlaceFits(j) /\ RowFits(j) /\ ExitFits(j)

NodeUp == faults["docker"] = 0 /\ \A j \in Jobs : job[j].at # "lost"

RunsWaited ==
    NodeUp => \A j \in Jobs : job[j].handler = "build" /\ container[j] = "running"
                              => job[j].at = "running"

JobInv ==
    /\ TypeOK
    /\ \A j \in Jobs : LocalInv(j)
    /\ AdmissionLimits
    /\ SlotsAreHeld
    /\ RunsWaited

-----------------------------------------------------------------------------
(* Every step, by its effect on the jobs. *)

\* The actions of Next, one by one.
LEMMA Steps ==
    ASSUME [Next]_vars
    PROVE  \/ UNCHANGED vars
           \/ \E j \in Jobs, handler \in Handlers, i \in Instances, output \in Outputs :
                Request(j, handler, i, output)
           \/ \E j \in Jobs : Reject(j) \/ EndJob(j) \/ ClientLeaves(j)
           \/ \E j \in Jobs : StartBuild(j) \/ BeginDeploy(j) \/ StartContainer(j)
           \/ \E j \in Jobs : StartFails(j) \/ WaitFails(j) \/ TimeOut(j)
           \/ \E j \in Jobs : WaitEnds(j) \/ Publish(j) \/ PublishFails(j)
           \/ \E j \in Jobs : Reap(j) \/ \E code \in {"zero", "nonzero"} : ContainerExits(j, code)
           \/ NodeEnds /\ (Crash \/ UNCHANGED faults)
           \/ Tick
<1> QED
  BY SMTT(30) DEF Next, Advance, CancelMigration, Crash, TailCut, CapCut

\* A fault is counted, and the counts are numbers.
LEMMA FaultCounted ==
    ASSUME TypeOK, NEW f \in {"leave", "docker", "crash"}, Fault(f)
    PROVE  /\ faults' \in [DOMAIN MaxFaults -> Nat]
           /\ faults'["docker"] >= faults["docker"]
           /\ f = "docker" => faults'["docker"] > 0
<1>1. faults \in [{"leave", "docker", "crash"} -> Nat] /\ faults' = [faults EXCEPT ![f] = @ + 1]
  BY JobsAssumption DEF TypeOK, Fault
<1>2. faults' \in [{"leave", "docker", "crash"} -> Nat]
  BY <1>1
<1>3. faults["docker"] \in Nat /\ faults'["docker"] = IF f = "docker" THEN faults["docker"] + 1
                                                      ELSE faults["docker"]
  BY <1>1
<1> QED
  BY <1>2, <1>3, JobsAssumption

\* Report gives back a job and a row of the right types.
LEMMA ReportTypes ==
    ASSUME TypeOK, NEW j \in Jobs, NEW good \in BOOLEAN, Report(j, good)
    PROVE  job' \in [Jobs -> Job] /\ builds' \in [Jobs -> BuildState]
<1>1. CASE job[j].handler = "build"
  <2>1. \A s \in Status : [status |-> s, finished_at |-> now] \in BuildState
    BY DEF TypeOK, BuildState
  <2>2. builds' \in [Jobs -> BuildState]
    BY <1>1, <2>1 DEF TypeOK, Report, Complete, Respond, Status
  <2> QED
    BY <1>1, <2>2 DEF TypeOK, Report, Complete, Respond, Job, Places
<1>2. CASE job[j].handler # "build"
  BY <1>2 DEF TypeOK, Report, Complete, Respond, Job, Places
<1> QED
  BY <1>1, <1>2

\* After the wait a job reports, but for a good build, which goes on to publish.
LEMMA AfterWaitEffect ==
    ASSUME NEW j \in Jobs, NEW good \in BOOLEAN, AfterWait(j, good)
    PROVE  \/ /\ job[j].handler = "build" /\ good
              /\ job' = [job EXCEPT ![j].at = "publishing"] /\ UNCHANGED builds
           \/ /\ (job[j].handler = "build" => ~good)
              /\ Report(j, good)
<1> QED
  BY Zenon DEF AfterWait

\* The two ways a wait can end, by what follows.
LEMMA WaitEffect ==
    ASSUME NEW j \in Jobs, WaitEnds(j) \/ WaitFails(j)
    PROVE  \E good \in BOOLEAN :
             /\ AfterWait(j, good)
             /\ good /\ job[j].handler \in {"build", "bulk"}
                => exit_code[j] = "zero" \/ j \in unanswered'
<1>1. CASE WaitFails(j)
  <2>1. AfterWait(j, FALSE) \/ (AfterWait(j, TRUE) /\ unanswered' = unanswered \cup {j})
    BY <1>1, Zenon DEF WaitFails
  <2> QED
    BY <2>1, Zenon
<1>2. CASE WaitEnds(j)
  <2>1. (SeenExit(j) = "zero") \in BOOLEAN
    OBVIOUS
  <2>2. SeenExit(j) = "zero" /\ job[j].handler \in {"build", "bulk"} => exit_code[j] = "zero"
    BY DEF SeenExit
  <2> QED
    BY <1>2, <2>1, <2>2, Zenon DEF WaitEnds
<1> QED
  BY <1>1, <1>2

\* AfterWait gives back a job, a row and a cleanup of the right types.
LEMMA AfterWaitTypes ==
    ASSUME TypeOK, NEW j \in Jobs, NEW good \in BOOLEAN, AfterWait(j, good)
    PROVE  job' \in [Jobs -> Job] /\ builds' \in [Jobs -> BuildState] /\ reaping' \subseteq Jobs
<1>1. reaping' \subseteq Jobs
  BY DEF TypeOK, AfterWait
<1>2. CASE job' = [job EXCEPT ![j].at = "publishing"] /\ UNCHANGED builds
  BY <1>1, <1>2 DEF TypeOK, Job, Places
<1> QED
  BY <1>1, <1>2, AfterWaitEffect, ReportTypes

\* A guard gives back slots of the right types.
LEMMA DropTypes ==
    ASSUME TypeOK, NEW j \in Jobs, DropGuard(j)
    PROVE  /\ by_wallet' \subseteq {"build", "migration"} \X Wallets
           /\ by_instance' \subseteq {"build", "migration"} \X Instances
<1> QED
  BY DEF TypeOK, DropGuard, slots

LEMMA TypeStep ==
    ASSUME TypeOK, [Next]_vars
    PROVE  TypeOK'
<1>1. CASE UNCHANGED vars
  BY <1>1 DEF TypeOK, vars
<1>2. ASSUME NEW j \in Jobs, NEW handler \in Handlers, NEW i \in Instances,
             NEW output \in Outputs, Request(j, handler, i, output)
      PROVE  TypeOK'
  <2>1. handler \in AllHandlers /\ output \in AllOutputs /\ Owner[i] \in Wallets
    BY JobsAssumption
  <2>2. job' \in [Jobs -> Job]
    BY <1>2, <2>1 DEF TypeOK, Request, Job, Places
  <2>3. /\ by_wallet' \subseteq {"build", "migration"} \X Wallets
        /\ by_instance' \subseteq {"build", "migration"} \X Instances
    BY <1>2, <2>1 DEF TypeOK, Request, Kind, slots
  <2> QED
    BY <1>2, <2>2, <2>3 DEF TypeOK, Request, docker, ended
<1>3. ASSUME NEW j \in Jobs, Reject(j) \/ EndJob(j) \/ ClientLeaves(j)
      PROVE  TypeOK'
  <2>1. job' \in [Jobs -> Job]
    BY <1>3 DEF TypeOK, Reject, EndJob, ClientLeaves, Job, Places
  <2>2. faults' \in [DOMAIN MaxFaults -> Nat]
    BY <1>3, FaultCounted DEF TypeOK, Reject, EndJob, ClientLeaves
  <2>3. reaping' \subseteq Jobs
    BY <1>3 DEF TypeOK, Reject, EndJob, ClientLeaves, docker
  <2> QED
    BY <1>3, <2>1, <2>2, <2>3, DropTypes DEF TypeOK, Reject, EndJob, ClientLeaves, docker, ended
<1>4. ASSUME NEW j \in Jobs, StartBuild(j) \/ BeginDeploy(j) \/ StartContainer(j)
      PROVE  TypeOK'
  <2>1. \E place \in Places : job' = [job EXCEPT ![j].at = place]
    BY <1>4 DEF StartBuild, BeginDeploy, StartContainer, Places
  <2>2. job' \in [Jobs -> Job]
    BY <2>1 DEF TypeOK, Job
  <2>3. builds' \in [Jobs -> BuildState]
    BY <1>4 DEF TypeOK, StartBuild, BeginDeploy, StartContainer, BuildState, Status, NoBuild
  <2> QED
    BY <1>4, <2>2, <2>3 DEF TypeOK, StartBuild, BeginDeploy, StartContainer, docker, ended, slots
<1>5. ASSUME NEW j \in Jobs, StartFails(j) \/ WaitFails(j) \/ TimeOut(j)
      PROVE  TypeOK'
  <2>1. /\ job' \in [Jobs -> Job] /\ builds' \in [Jobs -> BuildState]
        /\ reaping' \subseteq Jobs
    <3>1. CASE WaitFails(j)
      BY <3>1, WaitEffect, AfterWaitTypes
    <3>2. CASE StartFails(j) \/ TimeOut(j)
      BY <3>2, ReportTypes DEF TypeOK, StartFails, TimeOut, docker
    <3> QED
      BY <1>5, <3>1, <3>2
  <2>2. faults' \in [DOMAIN MaxFaults -> Nat]
    BY <1>5, FaultCounted DEF TypeOK, StartFails, WaitFails, TimeOut
  <2>3. /\ container' \in [Jobs -> {"none", "running", "exited"}]
        /\ exit_code' \in [Jobs -> {"none", "zero", "nonzero"}]
        /\ unanswered' \subseteq Jobs
    BY <1>5 DEF TypeOK, StartFails, WaitFails, TimeOut, Kill, docker, ended
  <2> QED
    BY <1>5, <2>1, <2>2, <2>3 DEF TypeOK, StartFails, WaitFails, TimeOut, slots
<1>6. ASSUME NEW j \in Jobs, WaitEnds(j) \/ Publish(j) \/ PublishFails(j)
      PROVE  TypeOK'
  <2>1. /\ job' \in [Jobs -> Job] /\ builds' \in [Jobs -> BuildState]
        /\ reaping' \subseteq Jobs
    <3>1. CASE WaitEnds(j)
      BY <3>1, WaitEffect, AfterWaitTypes
    <3>2. CASE Publish(j) \/ PublishFails(j)
      BY <3>2, ReportTypes DEF TypeOK, Publish, PublishFails, docker
    <3> QED
      BY <1>6, <3>1, <3>2
  <2>2. faults' \in [DOMAIN MaxFaults -> Nat]
    BY <1>6, FaultCounted DEF TypeOK, WaitEnds, Publish, PublishFails
  <2> QED
    BY <1>6, <2>1, <2>2 DEF TypeOK, WaitEnds, Publish, PublishFails, slots, docker, ended
<1>7. ASSUME NEW j \in Jobs, Reap(j) \/ \E code \in {"zero", "nonzero"} : ContainerExits(j, code)
      PROVE  TypeOK'
  <2>1. faults' \in [DOMAIN MaxFaults -> Nat]
    BY <1>7, FaultCounted DEF TypeOK, Reap, ContainerExits
  <2> QED
    BY <1>7, <2>1 DEF TypeOK, Reap, ContainerExits, ended, slots
<1>8. CASE NodeEnds /\ (Crash \/ UNCHANGED faults)
  <2>1. job' \in [Jobs -> Job]
    BY <1>8 DEF TypeOK, NodeEnds, Job, Places
  <2>2. faults' \in [DOMAIN MaxFaults -> Nat]
    BY <1>8, FaultCounted DEF TypeOK, Crash
  <2>3. NoBuild \in BuildState
    BY DEF NoBuild, BuildState, Status
  <2> QED
    BY <1>8, <2>1, <2>2, <2>3 DEF TypeOK, NodeEnds, ended
<1>9. CASE Tick
  BY <1>9 DEF TypeOK, Tick, slots, docker, ended
<1> QED
  BY <1>1, <1>2, <1>3, <1>4, <1>5, <1>6, <1>7, <1>8, <1>9, Steps

-----------------------------------------------------------------------------
(* What a place says of its own job. *)

LEMMA LocalStep ==
    ASSUME TypeOK, [Next]_vars, NEW k \in Jobs, LocalInv(k)
    PROVE  LocalInv(k)'
<1> USE DEF LocalInv, Untouched, PlaceFits, RowFits, ExitFits, Live, ended
<1>1. CASE UNCHANGED vars
  BY <1>1 DEF vars
<1>2. ASSUME NEW j \in Jobs, NEW handler \in Handlers, NEW i \in Instances,
             NEW output \in Outputs, Request(j, handler, i, output)
      PROVE  LocalInv(k)'
  BY <1>2, JobsAssumption DEF TypeOK, Job, Request, docker, AllHandlers
<1>3. ASSUME NEW j \in Jobs, Reject(j) \/ EndJob(j) \/ ClientLeaves(j)
      PROVE  LocalInv(k)'
  BY <1>3 DEF TypeOK, Job, Reject, EndJob, ClientLeaves, docker
<1>4. ASSUME NEW j \in Jobs, StartBuild(j) \/ BeginDeploy(j) \/ StartContainer(j)
      PROVE  LocalInv(k)'
  <2>1. CASE StartBuild(j)
    BY <2>1 DEF TypeOK, Job, BuildState, StartBuild, Stale, NoBuild, docker
  <2>2. CASE BeginDeploy(j)
    BY <2>2 DEF TypeOK, Job, BeginDeploy, docker
  <2>3. CASE StartContainer(j)
    BY <2>3 DEF TypeOK, Job, StartContainer, AtContainer
  <2> QED
    BY <1>4, <2>1, <2>2, <2>3
<1>5. ASSUME NEW j \in Jobs, StartFails(j) \/ TimeOut(j)
      PROVE  LocalInv(k)'
  <2>1. CASE StartFails(j)
    BY <2>1 DEF TypeOK, Job, BuildState, StartFails, AtContainer, Report, Complete, Respond, docker
  <2>2. CASE TimeOut(j)
    BY <2>2 DEF TypeOK, Job, BuildState, TimeOut, IsLate, Kill, Report, Complete, Respond
  <2> QED
    BY <1>5, <2>1, <2>2
<1>6. ASSUME NEW j \in Jobs, WaitEnds(j) \/ WaitFails(j)
      PROVE  LocalInv(k)'
  <2>1. PICK good \in BOOLEAN :
          /\ AfterWait(j, good)
          /\ good /\ job[j].handler \in {"build", "bulk"}
             => exit_code[j] = "zero" \/ j \in unanswered'
    BY <1>6, WaitEffect
  <2>2. /\ job[j].at = "running" /\ UNCHANGED <<container, exit_code>>
        /\ unanswered \subseteq unanswered'
    BY <1>6 DEF WaitEnds, WaitFails
  <2>3. CASE k # j
    <3>1. job'[k] = job[k] /\ builds'[k] = builds[k]
      BY <2>1, <2>3, AfterWaitEffect DEF TypeOK, Report, Complete, Respond
    <3> QED
      BY <2>2, <3>1
  <2>4. CASE k = j /\ job[j].handler = "build"
    <3>1. CASE good
      <4>1. job' = [job EXCEPT ![j].at = "publishing"] /\ UNCHANGED builds
        BY <2>1, <2>4, <3>1, AfterWaitEffect
      <4> QED
        BY <2>1, <2>2, <2>4, <3>1, <4>1 DEF TypeOK, Job
    <3>2. CASE ~good
      <4>1. /\ job' = [job EXCEPT ![j].at = "ending"]
            /\ builds' = [builds EXCEPT ![j] = [status |-> "failed", finished_at |-> now]]
        BY <2>1, <2>4, <3>2, AfterWaitEffect DEF Report, Complete, Respond
      <4> QED
        BY <2>2, <2>4, <4>1 DEF TypeOK, Job, BuildState
    <3> QED
      BY <3>1, <3>2
  <2>5. CASE k = j /\ job[j].handler # "build"
    <3>1. /\ job' = [job EXCEPT ![j].at = "ending",
                                ![j].reported = IF good THEN "done" ELSE "failed"]
          /\ UNCHANGED builds
      BY <2>1, <2>5, AfterWaitEffect DEF Report, Complete, Respond
    <3>2. /\ job'[j].at = "ending" /\ job'[j].handler = job[j].handler
          /\ job'[j].reported = "done" => good
      BY <3>1 DEF TypeOK, Job
    <3> QED
      BY <2>1, <2>2, <2>5, <3>1, <3>2
  <2> QED
    BY <2>3, <2>4, <2>5
<1>10. ASSUME NEW j \in Jobs, Publish(j) \/ PublishFails(j)
       PROVE  LocalInv(k)'
  <2>1. /\ job[j].at = "publishing" /\ UNCHANGED <<container, exit_code, unanswered>>
        /\ \E good \in BOOLEAN : Report(j, good)
    BY <1>10, Zenon DEF Publish, PublishFails, docker
  <2>2. CASE job[j].handler = "build"
    <3>1. /\ job' = [job EXCEPT ![j].at = "ending"]
          /\ \E s \in {"succeeded", "failed"} :
               builds' = [builds EXCEPT ![j] = [status |-> s, finished_at |-> now]]
      BY <2>1, <2>2 DEF Report, Complete, Respond
    <3> QED
      BY <2>1, <2>2, <3>1 DEF TypeOK, Job, BuildState
  <2>3. CASE job[j].handler # "build"
    <3>1. /\ \E r \in {"done", "failed"} :
               job' = [job EXCEPT ![j].at = "ending", ![j].reported = r]
          /\ UNCHANGED builds
      BY <2>1, <2>3 DEF Report, Complete, Respond
    <3> QED
      BY <2>1, <2>3, <3>1 DEF TypeOK, Job
  <2> QED
    BY <2>2, <2>3
<1>7. ASSUME NEW j \in Jobs, Reap(j) \/ \E code \in {"zero", "nonzero"} : ContainerExits(j, code)
      PROVE  LocalInv(k)'
  BY <1>7 DEF TypeOK, Job, Reap, ContainerExits
<1>8. CASE NodeEnds /\ (Crash \/ UNCHANGED faults)
  BY <1>8 DEF TypeOK, Job, NodeEnds, NoBuild
<1>9. CASE Tick
  BY <1>9 DEF Tick, docker
<1> QED
  BY <1>1, <1>2, <1>3, <1>4, <1>5, <1>6, <1>7, <1>8, <1>9, <1>10, Steps

-----------------------------------------------------------------------------
(* The slots. *)

\* The two properties of the slots, of the jobs that hold a guard.
SlotsInv == AdmissionLimits /\ SlotsAreHeld

\* A step that changes no slot, no holder and no key keeps them.
LEMMA SlotsUntouched ==
    ASSUME SlotsInv, UNCHANGED slots,
           \A k \in Jobs : /\ HoldsGuard(k)' = HoldsGuard(k)
                          /\ job'[k].handler = job[k].handler
                          /\ job'[k].instance = job[k].instance
    PROVE  SlotsInv'
<1>1. \A k \in Jobs : WalletKey(k)' = WalletKey(k) /\ InstanceKey(k)' = InstanceKey(k)
  BY DEF WalletKey, InstanceKey
<1>2. {k \in Jobs : HoldsGuard(k)}' = {k \in Jobs : HoldsGuard(k)}
  OBVIOUS
<1>3. {InstanceKey(k) : k \in {m \in Jobs : HoldsGuard(m)}}'
      = {InstanceKey(k) : k \in {m \in Jobs : HoldsGuard(m)}}
  BY <1>1, <1>2
<1>4. AdmissionLimits'
  BY <1>1 DEF SlotsInv, AdmissionLimits
<1> QED
  BY <1>1, <1>3, <1>4 DEF SlotsInv, SlotsAreHeld, slots

\* A guard's drop takes its own keys and nobody else's.
LEMMA SlotsDropped ==
    ASSUME TypeOK, SlotsInv, NEW j \in Jobs, DropGuard(j), Live(j),
           job' = [job EXCEPT ![j].at = "over"]
    PROVE  SlotsInv'
<1>1. \A k \in Jobs : /\ job'[k].handler = job[k].handler
                      /\ job'[k].instance = job[k].instance
                      /\ k # j => HoldsGuard(k)' = HoldsGuard(k)
  BY DEF TypeOK, Job, HoldsGuard, Live
<1>2. \A k \in Jobs : WalletKey(k)' = WalletKey(k) /\ InstanceKey(k)' = InstanceKey(k)
  BY <1>1 DEF WalletKey, InstanceKey
<1>3. ~HoldsGuard(j)'
  BY DEF TypeOK, HoldsGuard, Live
<1>4. CASE HoldsGuard(j)
  <2>1. AdmissionLimits'
    BY <1>1, <1>2, <1>3 DEF SlotsInv, AdmissionLimits
  <2>2. \A k \in Jobs : HoldsGuard(k)' <=> HoldsGuard(k) /\ k # j
    BY <1>1, <1>3
  <2>3. by_instance' = {InstanceKey(k) : k \in {m \in Jobs : HoldsGuard(m)}}'
    <3>1. by_instance' = by_instance \ {InstanceKey(j)}
      BY <1>4 DEF DropGuard
    <3>2. \A x : x \in by_instance <=> \E k \in Jobs : HoldsGuard(k) /\ x = InstanceKey(k)
      BY DEF SlotsInv, SlotsAreHeld
    <3>3. \A k \in Jobs : HoldsGuard(k) /\ k # j => InstanceKey(k) # InstanceKey(j)
      BY <1>4 DEF SlotsInv, AdmissionLimits
    <3>4. \A x : x \in by_instance' <=> \E k \in Jobs : HoldsGuard(k)' /\ x = InstanceKey(k)'
      BY <1>2, <2>2, <3>1, <3>2, <3>3
    <3> QED
      BY <3>4
  <2>4. \A w \in Wallets : <<"build", w>> \in by_wallet'
                           <=> \E k \in Jobs : HoldsGuard(k)' /\ WalletKey(k)' = <<"build", w>>
    <3>1. by_wallet' = by_wallet \ {WalletKey(j)}
      BY <1>4 DEF DropGuard
    <3>2. \A k \in Jobs : HoldsGuard(k) /\ k # j /\ Kind(job[k].handler) = "build"
                          => WalletKey(k) # WalletKey(j)
      BY <1>4 DEF SlotsInv, AdmissionLimits
    <3>3. \A k \in Jobs, w \in Wallets : WalletKey(k) = <<"build", w>>
                                          => Kind(job[k].handler) = "build"
      BY DEF WalletKey
    <3> QED
      BY <1>2, <2>2, <3>1, <3>2, <3>3 DEF SlotsInv, SlotsAreHeld
  <2> QED
    BY <2>1, <2>3, <2>4 DEF SlotsInv, SlotsAreHeld
<1>5. CASE ~HoldsGuard(j)
  <2>1. UNCHANGED slots
    BY <1>5 DEF DropGuard
  <2>2. \A k \in Jobs : HoldsGuard(k)' = HoldsGuard(k)
    BY <1>1, <1>3, <1>5 DEF HoldsGuard
  <2> QED
    BY <1>1, <2>1, <2>2, SlotsUntouched
<1> QED
  BY <1>4, <1>5

\* A request is admitted beside no holder of its keys.
LEMMA SlotsTaken ==
    ASSUME TypeOK, SlotsInv, NEW j \in Jobs, NEW handler \in Handlers, NEW i \in Instances,
           NEW output \in Outputs, Request(j, handler, i, output)
    PROVE  SlotsInv'
<1>1. \A k \in Jobs \ {j} : job'[k] = job[k]
  BY DEF TypeOK, Request
<1>2. job'[j].at = "admitted" /\ job'[j].handler = handler /\ job'[j].instance = i
  BY DEF TypeOK, Request
<1>3. ~HoldsGuard(j) /\ (HoldsGuard(j)' <=> handler # "cutover")
  BY <1>2 DEF Request, HoldsGuard, Live
<1>4. \A k \in Jobs \ {j} : /\ HoldsGuard(k)' = HoldsGuard(k)
                            /\ WalletKey(k)' = WalletKey(k)
                            /\ InstanceKey(k)' = InstanceKey(k)
                            /\ Kind(job'[k].handler) = Kind(job[k].handler)
  BY <1>1 DEF HoldsGuard, Live, WalletKey, InstanceKey
<1>5. WalletKey(j)' = <<Kind(handler), Owner[i]>> /\ InstanceKey(j)' = <<Kind(handler), i>>
  BY <1>2 DEF WalletKey, InstanceKey
<1>6. \A x : x \in by_instance <=> \E k \in Jobs \ {j} : HoldsGuard(k) /\ x = InstanceKey(k)
  BY <1>3 DEF SlotsInv, SlotsAreHeld
<1>7. \A w \in Wallets : <<"build", w>> \in by_wallet
                        <=> \E k \in Jobs \ {j} : HoldsGuard(k) /\ WalletKey(k) = <<"build", w>>
  BY <1>3 DEF SlotsInv, SlotsAreHeld
<1>8. CASE handler = "cutover"
  <2>1. UNCHANGED slots
    BY <1>8 DEF Request
  <2>2. \A x : x \in by_instance' <=> \E k \in Jobs : HoldsGuard(k)' /\ x = InstanceKey(k)'
    BY <1>3, <1>4, <1>6, <1>8, <2>1 DEF slots
  <2>3. \A w \in Wallets : <<"build", w>> \in by_wallet'
                          <=> \E k \in Jobs : HoldsGuard(k)' /\ WalletKey(k)' = <<"build", w>>
    BY <1>3, <1>4, <1>7, <1>8, <2>1 DEF slots
  <2>4. AdmissionLimits'
    BY <1>3, <1>4, <1>8 DEF SlotsInv, AdmissionLimits
  <2> QED
    BY <2>2, <2>3, <2>4 DEF SlotsInv, SlotsAreHeld
<1>9. CASE handler # "cutover"
  <2>1. /\ Admitted(Kind(handler), i)
        /\ by_wallet' = by_wallet \cup {<<Kind(handler), Owner[i]>>}
        /\ by_instance' = by_instance \cup {<<Kind(handler), i>>}
    BY <1>9 DEF Request
  <2>2. \A x : x \in by_instance' <=> \E k \in Jobs : HoldsGuard(k)' /\ x = InstanceKey(k)'
    BY <1>3, <1>4, <1>5, <1>6, <1>9, <2>1
  <2>3. \A w \in Wallets : <<"build", w>> \in by_wallet'
                          <=> \E k \in Jobs : HoldsGuard(k)' /\ WalletKey(k)' = <<"build", w>>
    BY <1>3, <1>4, <1>5, <1>7, <1>9, <2>1
  <2>4. \A k \in Jobs \ {j} : HoldsGuard(k) => InstanceKey(k) # <<Kind(handler), i>>
    BY <1>6, <2>1 DEF Admitted
  <2>5. \A k \in Jobs \ {j} : HoldsGuard(k) /\ Kind(handler) = "build"
                              => WalletKey(k) # <<Kind(handler), Owner[i]>>
    BY <1>7, <2>1, JobsAssumption DEF Admitted
  <2>6. \A k \in Jobs \ {j} : Kind(job[k].handler) # Kind(handler)
                              => WalletKey(k) # <<Kind(handler), Owner[i]>>
    BY DEF WalletKey
  <2>7. AdmissionLimits'
    <3> SUFFICES ASSUME NEW k \in Jobs, NEW m \in Jobs,
                        HoldsGuard(k)', HoldsGuard(m)', k # m
                 PROVE  /\ InstanceKey(k)' # InstanceKey(m)'
                        /\ Kind(job'[k].handler) = "build" => WalletKey(k)' # WalletKey(m)'
      BY DEF AdmissionLimits
    <3>1. CASE k # j /\ m # j
      BY <1>4, <3>1 DEF SlotsInv, AdmissionLimits
    <3>2. CASE k = j
      BY <1>2, <1>4, <1>5, <2>4, <2>5, <3>2
    <3>3. CASE m = j
      BY <1>4, <1>5, <2>4, <2>5, <2>6, <3>3
    <3> QED
      BY <3>1, <3>2, <3>3
  <2> QED
    BY <2>2, <2>3, <2>7 DEF SlotsInv, SlotsAreHeld
<1> QED
  BY <1>8, <1>9

LEMMA SlotsStep ==
    ASSUME TypeOK, SlotsInv, \A k \in Jobs : LocalInv(k), [Next]_vars
    PROVE  SlotsInv'
<1> DEFINE SameHolders == \A k \in Jobs : /\ HoldsGuard(k)' = HoldsGuard(k)
                                          /\ job'[k].handler = job[k].handler
                                          /\ job'[k].instance = job[k].instance
<1>1. CASE UNCHANGED vars
  BY <1>1, SlotsUntouched DEF vars, slots, HoldsGuard, Live
<1>2. ASSUME NEW j \in Jobs, NEW handler \in Handlers, NEW i \in Instances,
             NEW output \in Outputs, Request(j, handler, i, output)
      PROVE  SlotsInv'
  BY <1>2, SlotsTaken
<1>3. ASSUME NEW j \in Jobs, Reject(j) \/ EndJob(j) \/ ClientLeaves(j)
      PROVE  SlotsInv'
  <2>1. Live(j) /\ DropGuard(j) /\ job' = [job EXCEPT ![j].at = "over"]
    BY <1>3 DEF Reject, EndJob, ClientLeaves, Live
  <2> QED
    BY <2>1, SlotsDropped
<1>4. ASSUME NEW j \in Jobs, StartBuild(j) \/ BeginDeploy(j) \/ StartContainer(j)
      PROVE  SlotsInv'
  <2>1. /\ Live(j) /\ UNCHANGED slots
        /\ \E place \in {"task", "publishing", "running"} : job' = [job EXCEPT ![j].at = place]
    BY <1>4 DEF StartBuild, BeginDeploy, StartContainer, AtContainer, Live
  <2>2. SameHolders
    BY <2>1 DEF TypeOK, Job, HoldsGuard, Live
  <2> QED
    BY <2>1, <2>2, SlotsUntouched
<1>5. ASSUME NEW j \in Jobs, NEW good \in BOOLEAN, Live(j), UNCHANGED slots, Report(j, good)
      PROVE  SlotsInv'
  <2>1. SameHolders
    BY <1>5 DEF TypeOK, Job, HoldsGuard, Live, Report, Complete, Respond
  <2> QED
    BY <1>5, <2>1, SlotsUntouched
<1>6. ASSUME NEW j \in Jobs, StartFails(j) \/ TimeOut(j) \/ Publish(j) \/ PublishFails(j)
      PROVE  SlotsInv'
  <2>1. Live(j) /\ UNCHANGED slots
    BY <1>6 DEF StartFails, TimeOut, Publish, PublishFails, AtContainer, IsLate, Live, slots
  <2>2. \E good \in BOOLEAN : Report(j, good)
    BY <1>6, Zenon DEF StartFails, TimeOut, Publish, PublishFails
  <2> QED
    BY <1>5, <2>1, <2>2
<1>7. ASSUME NEW j \in Jobs, WaitEnds(j) \/ WaitFails(j)
      PROVE  SlotsInv'
  <2>1. Live(j) /\ UNCHANGED slots
    BY <1>7 DEF WaitEnds, WaitFails, Live, slots
  <2>2. \/ \E good \in BOOLEAN : Report(j, good)
        \/ job' = [job EXCEPT ![j].at = "publishing"]
    BY <1>7, WaitEffect, AfterWaitEffect
  <2>3. CASE job' = [job EXCEPT ![j].at = "publishing"]
    <3>1. SameHolders
      BY <2>1, <2>3 DEF TypeOK, Job, HoldsGuard, Live
    <3> QED
      BY <2>1, <3>1, SlotsUntouched
  <2> QED
    BY <1>5, <2>1, <2>2, <2>3
<1>8. ASSUME UNCHANGED <<slots, job>>
      PROVE  SlotsInv'
  BY <1>8, SlotsUntouched DEF HoldsGuard, Live
<1>9. CASE NodeEnds /\ (Crash \/ UNCHANGED faults)
  <2>1. \A k \in Jobs : ~HoldsGuard(k)'
    BY <1>9 DEF TypeOK, NodeEnds, HoldsGuard, Live
  <2> QED
    BY <1>9, <2>1 DEF NodeEnds, SlotsInv, AdmissionLimits, SlotsAreHeld
<1> QED
  BY <1>1, <1>2, <1>3, <1>4, <1>6, <1>7, <1>8, <1>9, Steps
     DEF Reap, ContainerExits, Tick, slots

-----------------------------------------------------------------------------
(* One container for each wallet's builds. *)

LEMMA WaitedStep ==
    ASSUME TypeOK, RunsWaited, \A k \in Jobs : LocalInv(k), [Next]_vars
    PROVE  RunsWaited'
<1> USE DEF RunsWaited, NodeUp
<1>1. CASE UNCHANGED vars
  BY <1>1 DEF vars
<1>2. ASSUME NEW j \in Jobs, NEW handler \in Handlers, NEW i \in Instances,
             NEW output \in Outputs, Request(j, handler, i, output)
      PROVE  RunsWaited'
  BY <1>2 DEF TypeOK, Request, docker, LocalInv, Untouched
<1>3. ASSUME NEW j \in Jobs, Reject(j) \/ EndJob(j) \/ ClientLeaves(j)
      PROVE  RunsWaited'
  <2>1. /\ job' = [job EXCEPT ![j].at = "over"] /\ UNCHANGED container
        /\ job[j].handler = "build" => job[j].at # "running"
        /\ job[j].at # "lost"
    BY <1>3 DEF Reject, EndJob, ClientLeaves, docker
  <2>2. faults'["docker"] = 0 => faults["docker"] = 0
    BY <1>3, FaultCounted, JobsAssumption DEF TypeOK, Reject, EndJob, ClientLeaves
  <2> QED
    BY <2>1, <2>2 DEF TypeOK, Job
<1>4. ASSUME NEW j \in Jobs, StartBuild(j) \/ BeginDeploy(j) \/ StartContainer(j)
      PROVE  RunsWaited'
  <2>1. CASE StartContainer(j)
    BY <2>1 DEF TypeOK, Job, StartContainer, AtContainer
  <2>2. CASE StartBuild(j) \/ BeginDeploy(j)
    <3>1. /\ \E place \in {"task", "publishing"} : job' = [job EXCEPT ![j].at = place]
          /\ UNCHANGED <<container, faults>> /\ job[j].at = "admitted"
      BY <2>2 DEF StartBuild, BeginDeploy, docker
    <3> QED
      BY <3>1 DEF TypeOK, Job
  <2> QED
    BY <1>4, <2>1, <2>2
<1>5. ASSUME NEW j \in Jobs, StartFails(j) \/ WaitFails(j) \/ PublishFails(j)
      PROVE  RunsWaited'
  <2>1. faults'["docker"] > 0
    BY <1>5, FaultCounted DEF StartFails, WaitFails, PublishFails
  <2> QED
    BY <2>1
<1>6. ASSUME NEW j \in Jobs, TimeOut(j)
      PROVE  RunsWaited'
  <2>1. CASE Fault("docker")
    BY <2>1, FaultCounted
  <2>2. CASE Kill(j) /\ UNCHANGED faults
    <3>1. \A k \in Jobs : /\ job'[k].handler = job[k].handler
                          /\ k # j => job'[k].at = job[k].at
                          /\ job[k].at = "lost" => job'[k].at = "lost"
      BY <1>6 DEF TypeOK, Job, TimeOut, IsLate, Report, Complete, Respond
    <3>2. \A k \in Jobs : container'[k] = IF k = j THEN "exited" ELSE container[k]
      BY <2>2 DEF TypeOK, Kill
    <3> QED
      BY <2>2, <3>1, <3>2
  <2> QED
    BY <1>6, <2>1, <2>2 DEF TimeOut
<1>7. ASSUME NEW j \in Jobs, WaitEnds(j) \/ Publish(j)
      PROVE  RunsWaited'
  <2>1. /\ \A m \in Jobs : /\ job'[m].handler = job[m].handler
                           /\ m # j => job'[m].at = job[m].at
        /\ job[j].at # "lost"
    <3>1. CASE Publish(j)
      BY <3>1 DEF TypeOK, Job, Publish, Report, Complete, Respond
    <3>2. CASE WaitEnds(j)
      <4>1. job[j].at = "running"
        BY <3>2 DEF WaitEnds
      <4>2. \/ job' = [job EXCEPT ![j].at = "publishing"]
            \/ \E good \in BOOLEAN : Report(j, good)
        BY <3>2, WaitEffect, AfterWaitEffect
      <4> QED
        BY <4>1, <4>2 DEF TypeOK, Job, Report, Complete, Respond
    <3> QED
      BY <1>7, <3>1, <3>2
  <2>2. UNCHANGED <<container, faults>> /\ (job[j].at = "running" => container[j] = "exited")
    BY <1>7 DEF WaitEnds, Publish, docker
  <2> QED
    BY <2>1, <2>2
<1>8. ASSUME NEW j \in Jobs, Reap(j) \/ \E code \in {"zero", "nonzero"} : ContainerExits(j, code)
      PROVE  RunsWaited'
  BY <1>8, FaultCounted DEF TypeOK, Reap, ContainerExits
<1>9. CASE NodeEnds /\ (Crash \/ UNCHANGED faults)
  <2>1. /\ UNCHANGED container
        /\ \A k \in Jobs : job'[k] = IF Live(k) THEN [job[k] EXCEPT !.at = "lost"] ELSE job[k]
    BY <1>9 DEF NodeEnds
  <2>2. faults'["docker"] = 0 => faults["docker"] = 0
    BY <1>9, FaultCounted, JobsAssumption DEF TypeOK, Crash
  <2>3. \A k \in Jobs : job'[k].at # "lost" => job'[k] = job[k]
    BY <2>1 DEF TypeOK, Job
  <2> QED
    BY <2>1, <2>2, <2>3
<1>10. CASE Tick
  BY <1>10 DEF Tick, docker
<1> QED
  BY <1>1, <1>2, <1>3, <1>4, <1>5, <1>6, <1>7, <1>8, <1>9, <1>10, Steps

-----------------------------------------------------------------------------
(* The theorems. *)

\* JobInv holds in every reachable state.
THEOREM JobInvariant == Spec => []JobInv
<1>1. Init => JobInv
  <2> SUFFICES ASSUME Init
               PROVE  JobInv
    OBVIOUS
  <2>1. NotRequested \in Job /\ NoBuild \in BuildState
    BY JobsAssumption DEF NotRequested, Job, Places, AllOutputs, NoBuild, BuildState, Status
  <2>2. TypeOK
    BY <2>1 DEF Init, TypeOK
  <2>3. \A j \in Jobs : job[j].at = "idle" /\ job[j].handler = "none" /\ job[j].reported = "none"
    BY DEF Init, NotRequested
  <2>4. \A j \in Jobs : LocalInv(j)
    BY <2>3 DEF Init, NoBuild, LocalInv, Untouched, PlaceFits, RowFits, ExitFits, Live
  <2>5. \A j \in Jobs : ~HoldsGuard(j)
    BY <2>3 DEF HoldsGuard, Live
  <2>6. AdmissionLimits /\ SlotsAreHeld
    BY <2>5 DEF Init, AdmissionLimits, SlotsAreHeld
  <2>7. RunsWaited
    BY DEF Init, RunsWaited
  <2> QED
    BY <2>2, <2>4, <2>6, <2>7 DEF JobInv
<1>2. JobInv /\ [Next]_vars => JobInv'
  BY TypeStep, LocalStep, SlotsStep, WaitedStep DEF JobInv, SlotsInv
<1> QED
  BY <1>1, <1>2, PTL DEF Spec

\* The types of the admission state, the jobs, the containers and the rows.
THEOREM JobsTypeCorrect == Spec => []TypeOK
<1>1. JobInv => TypeOK
  BY DEF JobInv
<1> QED
  BY <1>1, JobInvariant, PTL

\* Two live guards never share an instance, nor two builds' guards a wallet.
THEOREM LimitsAreKept == Spec => []AdmissionLimits
<1>1. JobInv => AdmissionLimits
  BY DEF JobInv
<1> QED
  BY <1>1, JobInvariant, PTL

\* No path through the handlers leaks a slot or frees one that is held.
THEOREM SlotsHaveHolders == Spec => []SlotsAreHeld
<1>1. JobInv => SlotsAreHeld
  BY DEF JobInv
<1> QED
  BY <1>1, JobInvariant, PTL

\* A build that polls as running still has its task.
THEOREM RunningRowsHaveTasks == Spec => []RunningRowHasTask
<1>1. JobInv => RunningRowHasTask
  BY DEF JobInv, LocalInv, RowFits, RunningRowHasTask
<1> QED
  BY <1>1, JobInvariant, PTL

\* A reported success of a build or a bulk migration is its container's.
THEOREM SuccessIsTrue == Spec => []SuccessIsEarned
<1>1. JobInv => SuccessIsEarned
  BY DEF JobInv, LocalInv, ExitFits, SuccessIsEarned
<1> QED
  BY <1>1, JobInvariant, PTL

\* While Docker answers and the node stays up, a wallet's builds do not overlap.
THEOREM BuildsDoNotOverlap == Spec => []OneBuildRuns
<1>1. JobInv => OneBuildRuns
  <2> SUFFICES ASSUME JobInv, NodeUp, NEW j \in Jobs, NEW k \in Jobs, j # k,
                      job[j].handler = "build", container[j] = "running",
                      job[k].handler = "build", container[k] = "running"
               PROVE  Owner[job[j].instance] # Owner[job[k].instance]
    BY DEF OneBuildRuns, NodeUp
  <2>1. HoldsGuard(j) /\ HoldsGuard(k)
    BY DEF JobInv, RunsWaited, HoldsGuard, Live
  <2>2. WalletKey(j) # WalletKey(k)
    BY <2>1 DEF JobInv, AdmissionLimits, Kind
  <2> QED
    BY <2>2 DEF WalletKey, Kind
<1> QED
  BY <1>1, JobInvariant, PTL

\* The outcome a client polls is the first one, until it is stale.
THEOREM OutcomeIsKept == Spec => OutcomeKept
<1> DEFINE Keeps == \A j \in Jobs :
                      /\ builds[j].status \in {"succeeded", "failed"}
                      /\ now - builds[j].finished_at <= KeepFor
                      => builds'[j] = builds[j] \/ NodeEnds
<1>1. JobInv /\ [Next]_vars => Keeps
  <2> SUFFICES ASSUME JobInv, [Next]_vars, NEW k \in Jobs,
                      builds[k].status \in {"succeeded", "failed"},
                      now - builds[k].finished_at <= KeepFor, ~NodeEnds
               PROVE  builds'[k] = builds[k]
    BY Zenon
  <2>1. TypeOK /\ LocalInv(k)
    BY DEF JobInv
  <2>2. /\ job[k].at \notin {"idle", "admitted"}
        /\ job[k].handler = "build" => job[k].at \notin {"task", "running", "publishing"}
    BY <2>1 DEF LocalInv, Untouched, RowFits
  <2>3. ~Stale(builds[k])
    BY <2>1, JobsAssumption DEF TypeOK, BuildState, Stale
  <2>4. ASSUME NEW j \in Jobs, NEW good \in BOOLEAN, Report(j, good),
               job[j].at \in {"admitted", "task", "running", "publishing"}
        PROVE  builds'[k] = builds[k]
    BY <2>1, <2>2, <2>4 DEF TypeOK, Report, Complete, Respond
  <2>5. ASSUME NEW j \in Jobs, StartBuild(j) \/ BeginDeploy(j) \/ StartContainer(j)
        PROVE  builds'[k] = builds[k]
    BY <2>2, <2>3, <2>5 DEF StartBuild, BeginDeploy, StartContainer
  <2>6. ASSUME NEW j \in Jobs, StartFails(j) \/ TimeOut(j) \/ Publish(j) \/ PublishFails(j)
        PROVE  builds'[k] = builds[k]
    <3>1. job[j].at \in {"admitted", "task", "running", "publishing"}
      BY <2>6 DEF StartFails, TimeOut, Publish, PublishFails, AtContainer, IsLate
    <3>2. \E good \in BOOLEAN : Report(j, good)
      BY <2>6, Zenon DEF StartFails, TimeOut, Publish, PublishFails
    <3> QED
      BY <2>4, <3>1, <3>2
  <2>7. ASSUME NEW j \in Jobs, WaitEnds(j) \/ WaitFails(j)
        PROVE  builds'[k] = builds[k]
    <3>1. job[j].at = "running"
      BY <2>7 DEF WaitEnds, WaitFails
    <3>2. UNCHANGED builds \/ \E good \in BOOLEAN : Report(j, good)
      BY <2>7, WaitEffect, AfterWaitEffect
    <3> QED
      BY <2>4, <3>1, <3>2
  <2>8. ASSUME UNCHANGED builds
        PROVE  builds'[k] = builds[k]
    BY <2>8
  <2> QED
    BY <2>5, <2>6, <2>7, <2>8, Steps
       DEF vars, Request, Reject, EndJob, ClientLeaves, Reap, ContainerExits, Tick
<1>2. Spec => [][JobInv /\ [Next]_vars]_vars
  BY JobInvariant, PTL DEF Spec
<1> QED
  BY <1>1, <1>2, PTL DEF Keeps, OutcomeKept

=============================================================================
