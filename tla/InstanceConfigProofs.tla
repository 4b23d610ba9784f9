------------------------- MODULE InstanceConfigProofs -------------------------
(***************************************************************************)
(* The safety properties of InstanceConfig, for any requests, variables    *)
(* and faults.  SecretInv says whose the values in the table are, DeployInv*)
(* how far a deploy has brought the sidecar, and OverlapInv, step by step  *)
(* of a destroy, that what is left is of requests under way beside it;     *)
(* KindInv and DirInv are what the two need of a request's place and of    *)
(* the directory.                                                          *)
(***************************************************************************)
EXTENDS InstanceConfig, TLAPS

\* A row that is not protected holds the value of a request that was not.
SecretInv ==
    /\ \A r \in shown : request[r].at # "none" /\ ~request[r].protected
    /\ \A k \in Keys :
        env[k].by # "none" /\ ~env[k].protected =>
            request[env[k].by].at # "none" /\ ~request[env[k].by].protected

DeployAlone ==
    /\ \A r \in Requests : request[r].at \in DeploySteps => request[r].kind = "deploy"
    /\ \A r, s \in Requests :
        request[r].at \in DeploySteps /\ request[s].at \in DeploySteps => r = s

Undisturbed ==
    live /\ destroy = "none" /\ Never({"disk", "docker", "leave", "crash"})

Serving == nextjs => sidecar.up /\ sidecar.by = target

\* The sidecar after each step of a deploy.
Deploying(r) ==
    /\ request[r].at \in {"image", "stage"} => Serving
    /\ request[r].at \in {"stop", "merge", "create", "start", "record"} => target = r
    /\ request[r].at \in {"merge", "create"} => sidecar = NoSidecar
    /\ request[r].at \in {"start", "record"} => sidecar.by = r
    /\ request[r].at = "record" => sidecar.up

DeployInv ==
    /\ DeployAlone
    /\ Undisturbed =>
        /\ network
        /\ \A r \in Requests : Deploying(r)
        /\ (\A r \in Requests : request[r].at \notin DeploySteps) => Serving

EnvSteps == {"upsert", "delete"} \cup ApplySteps

\* Only set, delete and apply come to write the file and to recreate functions.
KindInv ==
    /\ \A r \in Requests : request[r].at \in EnvSteps => request[r].kind \in Applying
    /\ \A r \in Requests :
        Recreating(r) => request[r].at # "none" /\ request[r].kind \in Applying

\* Only a crash leaves an instance without its directory to the next destroy.
DirInv ==
    live /\ faults["crash"] = 0 /\ destroy \in {"none", "down", "rm"} => dir # "none"

UnderWay(r) == InFlight(r) \/ Recreating(r)

EnvLate == \A k \in Keys : env[k].by \in overlap \cup {"none"}
DirLate ==
    dir # "none" =>
        faults["disk"] > 0 \/ \E r \in overlap : request[r].kind \in Applying \cup {"deploy"}
FunctionsLate ==
    functions # Gone =>
        faults["docker"] > 0 \/ \E r \in overlap : request[r].kind \in Applying

OverlapInv ==
    /\ destroy # "none" => live
    /\ \A r \in overlap : request[r].at # "none"
    /\ destroy # "none" \/ ~live => \A r \in Requests : UnderWay(r) => r \in overlap
    /\ destroy \in {"rm", "env", "mark"} \/ ~live => FunctionsLate
    /\ destroy \in {"env", "mark"} \/ ~live => DirLate
    /\ destroy = "mark" \/ ~live => EnvLate

ConfigInv == TypeOK /\ SecretInv /\ DeployInv /\ KindInv /\ DirInv /\ OverlapInv

-----------------------------------------------------------------------------
(* Faults, and every step, one by one. *)

\* No fault is forgotten.
Remembered ==
    /\ faults' \in [Faults -> Nat]
    /\ \A g \in Faults : faults'[g] >= faults[g]

LEMMA FaultCounted ==
    ASSUME TypeOK, NEW f \in Faults, Fault(f)
    PROVE  faults'[f] > 0 /\ Remembered
<1>1. faults \in [Faults -> Nat] /\ faults' = [faults EXCEPT ![f] = @ + 1]
  BY DEF TypeOK, Fault
<1> QED
  BY <1>1 DEF Remembered

\* What starts beside something else is counted.
LEMMA BesideCounted ==
    ASSUME TypeOK, Beside
    PROVE  Remembered
<1>1. {"beside", "racing"} \subseteq Faults
  BY DEF Faults
<1>2. UNCHANGED faults => Remembered
  BY DEF Remembered, TypeOK
<1> QED
  BY <1>1, <1>2, FaultCounted DEF Beside

EnvStep(r) ==
    \/ List(r) \/ Upsert(r) \/ DeleteEnv(r) \/ ReadInstance(r) \/ ListEnv(r) \/ WriteEnvFile(r)
    \/ ReadAllowList(r) \/ WriteAllowList(r) \/ RestartAuth(r)

DeployStep(r) ==
    \/ EnsureImage(r) \/ StageAndSwap(r) \/ StopAndRemove(r) \/ MergeEnv(r)
    \/ CreateSidecar(r) \/ StartSidecar(r) \/ SetNextjsService(r)

\* The actions of Next.
LEMMA EachStep ==
    ASSUME [Next]_vars
    PROVE  \/ \E r \in Requests : Start(r)
           \/ \E r \in Requests : EnvStep(r)
           \/ \E r \in Requests : DeployStep(r)
           \/ \E r \in Requests : RecreateReads(r) \/ RecreateRuns(r)
           \/ \E r \in Requests : ClientLeaves(r)
           \/ Destroy \/ ComposeDown \/ RemoveDir \/ DeleteAllEnv \/ MarkDestroyed
           \/ Restart
           \/ UNCHANGED vars
<1> QED
  BY DEF Next, Handle, Recreate, DestroyStep, EnvStep, DeployStep

LEMMA EachRemembers ==
    ASSUME TypeOK, [Next]_vars
    PROVE  Remembered
<1>1. {"disk", "docker", "leave", "crash"} \subseteq Faults
  BY DEF Faults
<1>2. ASSUME NEW r \in Requests, EnvStep(r)
      PROVE  UNCHANGED faults \/ \E f \in Faults : Fault(f)
  BY <1>1, <1>2 DEF EnvStep, List, Upsert, DeleteEnv, ReadInstance, ListEnv, WriteEnvFile,
                    ReadAllowList, WriteAllowList, RestartAuth
<1>3. ASSUME NEW r \in Requests, DeployStep(r)
      PROVE  UNCHANGED faults \/ \E f \in Faults : Fault(f)
  BY <1>1, <1>3 DEF DeployStep, EnsureImage, StageAndSwap, StopAndRemove, MergeEnv,
                    CreateSidecar, StartSidecar, SetNextjsService
<1>4. ASSUME NEW r \in Requests, RecreateReads(r) \/ RecreateRuns(r) \/ ClientLeaves(r)
      PROVE  UNCHANGED faults \/ \E f \in Faults : Fault(f)
  BY <1>1, <1>4 DEF RecreateReads, RecreateRuns, ClientLeaves
<1>5. ASSUME \/ ComposeDown \/ RemoveDir \/ DeleteAllEnv \/ MarkDestroyed \/ Restart
             \/ UNCHANGED vars
      PROVE  UNCHANGED faults \/ \E f \in Faults : Fault(f)
  BY <1>1, <1>5 DEF ComposeDown, RemoveDir, DeleteAllEnv, MarkDestroyed, Restart, vars
<1>6. ASSUME Destroy \/ \E r \in Requests : Start(r)
      PROVE  Beside
  BY <1>6 DEF Destroy, Start
<1>7. UNCHANGED faults => Remembered
  BY DEF TypeOK, Remembered
<1> QED
  BY <1>2, <1>3, <1>4, <1>5, <1>6, <1>7, EachStep, FaultCounted, BesideCounted

-----------------------------------------------------------------------------
(* Types. *)

Entry == [at : Steps, kind : AllKinds, key : Keys, protected : BOOLEAN, again : BOOLEAN,
          snap : Contents, urls : SUBSET Requests, answer : Answers]

LEMMA EntryKept ==
    ASSUME TypeOK, NEW r \in Requests,
           \/ \E step \in Steps : Goto(r, step)
           \/ \E a \in Answers : Answer(r, a)
    PROVE  request' \in [Requests -> Entry]
<1>1. request \in [Requests -> Entry]
  BY DEF TypeOK, Entry
<1>2. request[r] \in Entry
  BY <1>1
<1>3. ASSUME NEW step \in Steps, Goto(r, step)
      PROVE  request' \in [Requests -> Entry]
  <2>1. [request[r] EXCEPT !.at = step] \in Entry
    BY <1>2 DEF Entry
  <2> QED
    BY <1>1, <1>3, <2>1 DEF Goto
<1>4. ASSUME NEW a \in Answers, Answer(r, a)
      PROVE  request' \in [Requests -> Entry]
  <2>1. "over" \in Steps
    BY DEF Steps
  <2>2. [request[r] EXCEPT !.at = "over", !.answer = a] \in Entry
    BY <1>2, <2>1 DEF Entry
  <2>3. request' = [request EXCEPT ![r] = [request[r] EXCEPT !.at = "over", !.answer = a]]
    BY <1>4 DEF Answer
  <2> QED
    BY <1>1, <2>2, <2>3
<1> QED
  BY <1>3, <1>4

LEMMA SnapKept ==
    ASSUME TypeOK, NEW r \in Requests, NEW step \in Steps, NEW c \in Contents,
           request' = [request EXCEPT ![r].at = step, ![r].snap = c]
    PROVE  request' \in [Requests -> Entry]
<1>1. request \in [Requests -> Entry] /\ request[r] \in Entry
  BY DEF TypeOK, Entry
<1>2. [request[r] EXCEPT !.at = step, !.snap = c] \in Entry
  BY <1>1 DEF Entry
<1>3. request' = [request EXCEPT ![r] = [request[r] EXCEPT !.at = step, !.snap = c]]
  OBVIOUS
<1> QED
  BY <1>1, <1>2, <1>3

LEMMA PlainTyped ==
    ASSUME TypeOK
    PROVE  Plain \in Contents /\ Empty \in Contents
<1> QED
  BY DEF TypeOK, Plain, Empty, Contents, Rows, NoRow

\* What a dropped handler, or the end of the process, leaves behind is of the
\* right type.
LEMMA LeftTyped ==
    ASSUME TypeOK
    PROVE  /\ NetworkAfterDown \in BOOLEAN
           /\ \A r \in Requests : FileLeft(r) \subseteq Contents
           /\ \A r \in Requests :
                SidecarLeft(r) \subseteq [by : Requests \cup {"none"}, env : Contents, up : BOOLEAN]
<1>1. NetworkAfterDown \in BOOLEAN
  BY Zenon DEF NetworkAfterDown
<1>2. ASSUME NEW r \in Requests
      PROVE  FileLeft(r) \subseteq Contents
  BY PlainTyped DEF TypeOK, FileLeft
<1>3. ASSUME NEW r \in Requests
      PROVE  SidecarLeft(r) \subseteq [by : Requests \cup {"none"}, env : Contents, up : BOOLEAN]
  <2>1. /\ sidecar \in [by : Requests \cup {"none"}, env : Contents, up : BOOLEAN]
        /\ NoSidecar \in [by : Requests \cup {"none"}, env : Contents, up : BOOLEAN]
        /\ Created(r) \in [by : Requests \cup {"none"}, env : Contents, up : BOOLEAN]
    BY PlainTyped DEF TypeOK, NoSidecar, Created
  <2>2. \A b \in BOOLEAN : [sidecar EXCEPT !.up = b]
                           \in [by : Requests \cup {"none"}, env : Contents, up : BOOLEAN]
    BY <2>1
  <2> QED
    BY <2>1, <2>2 DEF SidecarLeft, WithoutOld
<1> QED
  BY <1>1, <1>2, <1>3

LEMMA DestroyTyped ==
    ASSUME TypeOK, [Next]_vars
    PROVE  overlap' \subseteq Requests /\ network' \in BOOLEAN
<1> USE DEF TypeOK, cached, stack, destroying
<1>1. ASSUME NEW r \in Requests, Start(r)
      PROVE  overlap' \subseteq Requests /\ UNCHANGED network
  BY <1>1 DEF Start
<1>2. ASSUME NEW r \in Requests, EnvStep(r)
      PROVE  UNCHANGED <<overlap, network>>
  BY <1>2 DEF EnvStep, List, Upsert, DeleteEnv, ReadInstance, ListEnv, WriteEnvFile,
              ReadAllowList, WriteAllowList, RestartAuth
<1>3. ASSUME NEW r \in Requests, DeployStep(r)
      PROVE  UNCHANGED <<overlap, network>>
  BY <1>3 DEF DeployStep, EnsureImage, StageAndSwap, StopAndRemove, MergeEnv, CreateSidecar,
              StartSidecar, SetNextjsService
<1>4. ASSUME NEW r \in Requests, RecreateReads(r) \/ RecreateRuns(r) \/ ClientLeaves(r)
      PROVE  UNCHANGED overlap /\ network' \in {network, TRUE}
  BY <1>4 DEF RecreateReads, RecreateRuns, ClientLeaves
<1>5. ASSUME Destroy \/ RemoveDir \/ DeleteAllEnv \/ MarkDestroyed \/ UNCHANGED vars
      PROVE  overlap' \subseteq Requests /\ UNCHANGED network
  BY <1>5 DEF Destroy, RemoveDir, DeleteAllEnv, MarkDestroyed, vars
<1>6. ASSUME ComposeDown \/ Restart
      PROVE  UNCHANGED overlap /\ network' \in {network, NetworkAfterDown}
  BY <1>6 DEF ComposeDown, Restart
<1>7. network \in BOOLEAN /\ NetworkAfterDown \in BOOLEAN
  BY LeftTyped
<1>8. \/ network' \in {network, TRUE, NetworkAfterDown} /\ overlap' \subseteq Requests
  BY <1>1, <1>2, <1>3, <1>4, <1>5, <1>6, EachStep
<1> QED
  BY <1>7, <1>8, Zenon

LEMMA TypeStep == TypeOK /\ [Next]_vars => TypeOK'
<1> SUFFICES ASSUME TypeOK, [Next]_vars
             PROVE  TypeOK'
  OBVIOUS
<1>0. /\ faults' \in [Faults -> Nat]
      /\ Plain \in Contents /\ Empty \in Contents
      /\ overlap' \subseteq Requests /\ network' \in BOOLEAN
  BY EachRemembers, PlainTyped, DestroyTyped DEF Remembered
<1>00. request \in [Requests -> Entry]
  BY DEF TypeOK, Entry
<1>000. request' \in [Requests -> Entry] <=>
        request' \in [Requests -> [at : Steps, kind : AllKinds, key : Keys, protected : BOOLEAN,
                                   again : BOOLEAN, snap : Contents, urls : SUBSET Requests,
                                   answer : Answers]]
  BY DEF Entry
<1>1. ASSUME NEW r \in Requests, Start(r)
      PROVE  TypeOK'
  <2>1. PICK kind \in Kinds, k \in Keys, p \in BOOLEAN :
          request' = [request EXCEPT ![r] = [@ EXCEPT !.at = FirstStep(kind), !.kind = kind,
                                                       !.key = k, !.protected = p]]
    BY <1>1 DEF Start
  <2>2. kind \in AllKinds
    BY ConfigAssumption
  <2>3. FirstStep(kind) \in Steps
    BY <2>2 DEF FirstStep, AllKinds, Applying, Steps, ApplySteps, DeploySteps
  <2>4. [request[r] EXCEPT !.at = FirstStep(kind), !.kind = kind, !.key = k, !.protected = p]
          \in Entry
    <3>1. request[r] \in Entry
      BY <1>00
    <3> QED
      BY <2>2, <2>3, <3>1 DEF Entry
  <2>5. request' \in [Requests -> Entry]
    BY <1>00, <2>1, <2>4
  <2> QED
    BY <1>0, <1>000, <1>1, <2>5 DEF Start, TypeOK, cached, stack, side, destroying
<1>2. ASSUME NEW r \in Requests, List(r) \/ Upsert(r) \/ DeleteEnv(r)
      PROVE  TypeOK'
  <2>1. shown' \subseteq Requests
    BY <1>2 DEF TypeOK, List, Upsert, DeleteEnv, Listed, Rows, NoRow
  <2>2. env' \in [Keys -> Rows]
    <3>1. request[r].protected \in BOOLEAN /\ NoRow \in Rows
      BY DEF TypeOK, Rows
    <3> QED
      BY <1>2, <3>1 DEF TypeOK, List, Upsert, DeleteEnv, Rows
  <2>3. \/ \E a \in {"ok", "refused", "applied"} : Answer(r, a)
        \/ Goto(r, "read")
    BY <1>2 DEF List, Upsert, DeleteEnv, Deleted
  <2>4. request' \in [Requests -> Entry]
    BY <2>3, EntryKept DEF Steps, ApplySteps, Answers
  <2> QED
    BY <1>0, <1>000, <1>2, <2>1, <2>2, <2>4
       DEF List, Upsert, DeleteEnv, TypeOK, cached, stack, side, destroying
<1>3. ASSUME NEW r \in Requests, ReadInstance(r) \/ WriteEnvFile(r)
      PROVE  TypeOK'
  <2>1. ASSUME ApplyFails(r)
        PROVE  request' \in [Requests -> Entry]
    <3>1. CASE request' = [request EXCEPT ![r].at = "read", ![r].again = TRUE]
      <4>0. request[r] \in Entry /\ "read" \in Steps
        BY <1>00 DEF Steps, ApplySteps
      <4>1. [request[r] EXCEPT !.at = "read", !.again = TRUE] \in Entry
        BY <4>0 DEF Entry
      <4>2. request' = [request EXCEPT ![r] = [request[r] EXCEPT !.at = "read", !.again = TRUE]]
        BY <3>1
      <4> QED
        BY <1>00, <4>1, <4>2
    <3>2. CASE \E a \in {"failed", "not_applied"} : Answer(r, a)
      BY <3>2, EntryKept DEF Answers
    <3> QED
      BY <2>1, <3>1, <3>2 DEF ApplyFails, SetNotApplied, DeleteNotApplied, ApplyNotApplied
  <2>2. request' \in [Requests -> Entry]
    <3>1. ApplyFails(r) \/ Goto(r, "list_env") \/ Answer(r, "applied")
      BY <1>3 DEF ReadInstance, WriteEnvFile
    <3> QED
      BY <2>1, <3>1, EntryKept DEF Steps, ApplySteps, Answers
  <2>3. recreate' \in [Requests -> [at : {"none", "queued", "up"}, snap : Contents]]
    <3>1. UNCHANGED recreate \/ recreate' = [recreate EXCEPT ![r].at = "queued"]
      BY <1>3 DEF ReadInstance, WriteEnvFile
    <3>2. /\ recreate[r] \in [at : {"none", "queued", "up"}, snap : Contents]
          /\ recreate \in [Requests -> [at : {"none", "queued", "up"}, snap : Contents]]
      BY DEF TypeOK
    <3>3. [recreate[r] EXCEPT !.at = "queued"] \in [at : {"none", "queued", "up"}, snap : Contents]
      BY <3>2
    <3>4. UNCHANGED recreate \/ recreate' = [recreate EXCEPT ![r] = [recreate[r] EXCEPT !.at = "queued"]]
      BY <3>1
    <3> QED
      BY <3>2, <3>3, <3>4
  <2>4. env_file' \in Contents
    <3>1. env_file' \in {env_file, Empty, request[r].snap}
      BY <1>3 DEF ReadInstance, WriteEnvFile, cached
    <3> QED
      BY <1>0, <3>1 DEF TypeOK
  <2> QED
    BY <1>0, <1>000, <1>3, <2>2, <2>3, <2>4
       DEF ReadInstance, WriteEnvFile, TypeOK, cached, stack, side, destroying
<1>4. ASSUME NEW r \in Requests, ListEnv(r) \/ MergeEnv(r)
      PROVE  TypeOK'
  <2>1. request' \in [Requests -> Entry]
    BY <1>0, <1>4, SnapKept DEF ListEnv, MergeEnv, Steps, ApplySteps, DeploySteps
  <2> QED
    BY <1>0, <1>000, <1>4, <2>1 DEF ListEnv, MergeEnv, TypeOK, cached, stack, side, destroying
<1>5. ASSUME NEW r \in Requests, ReadAllowList(r)
      PROVE  TypeOK'
  <2>1. Answer(r, "failed") => request' \in [Requests -> Entry]
    BY EntryKept DEF Answers
  <2>2. ASSUME request' = [request EXCEPT ![r].at = "rewrite", ![r].urls = allow_list]
        PROVE  request' \in [Requests -> Entry]
    <3>0. request[r] \in Entry /\ "rewrite" \in Steps /\ allow_list \in SUBSET Requests
      BY <1>00 DEF Steps, TypeOK
    <3>1. [request[r] EXCEPT !.at = "rewrite", !.urls = allow_list] \in Entry
      BY <3>0 DEF Entry
    <3>2. request' = [request EXCEPT ![r] = [request[r] EXCEPT !.at = "rewrite",
                                                               !.urls = allow_list]]
      BY <2>2
    <3> QED
      BY <1>00, <3>1, <3>2
  <2>3. request' \in [Requests -> Entry]
    BY <1>5, <2>1, <2>2 DEF ReadAllowList
  <2> QED
    BY <1>0, <1>000, <1>5, <2>3 DEF ReadAllowList, TypeOK, cached, stack, side, destroying
<1>6. ASSUME NEW r \in Requests, WriteAllowList(r) \/ RestartAuth(r)
      PROVE  TypeOK'
  <2>1. Goto(r, "restart") \/ \E a \in {"ok", "failed"} : Answer(r, a)
    BY <1>6 DEF WriteAllowList, RestartAuth
  <2>2. request' \in [Requests -> Entry]
    BY <2>1, EntryKept DEF Steps, Answers
  <2>3. allow_list' \subseteq Requests
    BY <1>6 DEF WriteAllowList, RestartAuth, Merged, TypeOK
  <2> QED
    BY <1>0, <1>000, <1>6, <2>2, <2>3
       DEF WriteAllowList, RestartAuth, TypeOK, cached, stack, side, destroying
<1>7. ASSUME NEW r \in Requests, DeployStep(r), ~MergeEnv(r)
      PROVE  TypeOK'
  <2>1. \/ \E a \in {"ok", "failed"} : Answer(r, a)
        \/ \E place \in DeploySteps : Goto(r, place)
    BY <1>7 DEF DeployStep, EnsureImage, StageAndSwap, StopAndRemove, CreateSidecar,
                StartSidecar, SetNextjsService, DeploySteps
  <2>2. request' \in [Requests -> Entry]
    BY <2>1, EntryKept DEF Steps, Answers
  <2>3. \/ UNCHANGED sidecar \/ sidecar' = NoSidecar
        \/ sidecar' = [by |-> r, env |-> request[r].snap, up |-> FALSE]
        \/ \E b \in BOOLEAN : sidecar' = [sidecar EXCEPT !.up = b]
    BY <1>7 DEF DeployStep, EnsureImage, StageAndSwap, StopAndRemove, CreateSidecar,
                StartSidecar, SetNextjsService, WithoutOld, Created, cached, side
  <2>4. sidecar' \in [by : Requests \cup {"none"}, env : Contents, up : BOOLEAN]
    <3>1. request[r].snap \in Contents
      BY DEF TypeOK
    <3>2. CASE UNCHANGED sidecar
      BY <3>2 DEF TypeOK
    <3>5. CASE sidecar' = NoSidecar
      BY <1>0, <3>5 DEF NoSidecar
    <3>3. CASE sidecar' = [by |-> r, env |-> request[r].snap, up |-> FALSE]
      BY <3>1, <3>3
    <3>4. CASE \E b \in BOOLEAN : sidecar' = [sidecar EXCEPT !.up = b]
      BY <3>4 DEF TypeOK
    <3> QED
      BY <2>3, <3>2, <3>3, <3>4, <3>5
  <2>5. /\ dir' \in {"whole", "bare", "none"} /\ target' \in Requests \cup {"none"}
        /\ nextjs' \in BOOLEAN
    BY <1>7 DEF DeployStep, EnsureImage, StageAndSwap, StopAndRemove, CreateSidecar,
                StartSidecar, SetNextjsService, TypeOK, side
  <2>6. UNCHANGED <<live, env, cached, allow_list, shown, recreate, destroy>>
    BY <1>7 DEF DeployStep, EnsureImage, StageAndSwap, StopAndRemove, CreateSidecar,
                StartSidecar, SetNextjsService, destroying
  <2> QED
    BY <1>0, <1>000, <2>2, <2>4, <2>5, <2>6 DEF TypeOK, cached, stack
<1>8. ASSUME NEW r \in Requests, RecreateReads(r) \/ RecreateRuns(r)
      PROVE  TypeOK'
  BY <1>0, <1>8
     DEF RecreateReads, RecreateRuns, ReadByCompose, TypeOK, cached, stack, side, destroying
<1>9. ASSUME NEW r \in Requests, ClientLeaves(r)
      PROVE  TypeOK'
  <2>1. request' \in [Requests -> Entry]
    BY <1>9, EntryKept DEF ClientLeaves, Steps
  <2>2. /\ env_file' \in Contents
        /\ sidecar' \in [by : Requests \cup {"none"}, env : Contents, up : BOOLEAN]
    BY <1>9, LeftTyped DEF ClientLeaves
  <2> QED
    BY <1>0, <1>000, <1>9, <2>1, <2>2 DEF ClientLeaves, TypeOK, stack, destroying
<1>10. CASE Destroy \/ ComposeDown \/ RemoveDir \/ DeleteAllEnv \/ MarkDestroyed
  BY <1>0, <1>10 DEF Destroy, ComposeDown, RemoveDir, DeleteAllEnv, MarkDestroyed, RowsCleared,
                     Rows, TypeOK, cached, stack, side, destroying
<1>11. CASE Restart
  <2>1. request' \in [Requests -> Entry]
    <3>1. \A r \in Requests : [request[r] EXCEPT !.at = "over"] \in Entry
      BY <1>00 DEF Entry, Steps
    <3> QED
      BY <1>00, <1>11, <3>1 DEF Restart
  <2>2. recreate' \in [Requests -> [at : {"none", "queued", "up"}, snap : Contents]]
    BY <1>11 DEF Restart, TypeOK
  <2>3. /\ env_file' \in Contents
        /\ sidecar' \in [by : Requests \cup {"none"}, env : Contents, up : BOOLEAN]
    BY <1>11, LeftTyped DEF Restart, TypeOK
  <2>4. functions' \in Contents \cup {Gone}
    BY <1>11 DEF Restart, TypeOK
  <2> QED
    BY <1>0, <1>000, <1>11, <2>1, <2>2, <2>3, <2>4
       DEF Restart, TypeOK, cached, stack, side, destroying
<1>12. CASE UNCHANGED vars
  BY <1>12 DEF vars, TypeOK
<1> QED
  BY <1>1, <1>2, <1>3, <1>4, <1>5, <1>6, <1>7, <1>8, <1>9, <1>10, <1>11, <1>12, EachStep
     DEF EnvStep, DeployStep

-----------------------------------------------------------------------------
(* Where the values of the table come from. *)

\* The handlers go on as what they began as.
Kept ==
    \A q \in Requests :
        request[q].at # "none" =>
            /\ request'[q].at # "none"
            /\ request'[q].protected = request[q].protected
            /\ request'[q].kind = request[q].kind

LEMMA MoveKeeps ==
    ASSUME TypeOK, NEW r \in Requests, NEW e, request' = [request EXCEPT ![r] = e],
           e.at # "none", e.protected = request[r].protected, e.kind = request[r].kind
    PROVE  Kept
<1>1. request'[r] = e /\ \A q \in Requests \ {r} : request'[q] = request[q]
  BY DEF TypeOK
<1> QED
  BY <1>1 DEF Kept

LEMMA HandlersKeep ==
    ASSUME TypeOK, NEW r \in Requests, EnvStep(r) \/ DeployStep(r) \/ ClientLeaves(r)
    PROVE  Kept
<1>0. request[r] \in Entry
  BY DEF TypeOK, Entry
<1>1. ASSUME NEW step, step # "none", Goto(r, step)
      PROVE  Kept
  <2> DEFINE e == [request[r] EXCEPT !.at = step]
  <2>1. request' = [request EXCEPT ![r] = e]
    BY <1>1 DEF Goto
  <2>2. e.at # "none" /\ e.protected = request[r].protected /\ e.kind = request[r].kind
    BY <1>0, <1>1 DEF Entry
  <2> HIDE DEF e
  <2> QED
    BY <2>1, <2>2, MoveKeeps
<1>2. ASSUME NEW a, Answer(r, a)
      PROVE  Kept
  <2> DEFINE e == [request[r] EXCEPT !.at = "over", !.answer = a]
  <2>1. request' = [request EXCEPT ![r] = e]
    BY <1>2 DEF Answer
  <2>2. e.at # "none" /\ e.protected = request[r].protected /\ e.kind = request[r].kind
    BY <1>0 DEF Entry
  <2> HIDE DEF e
  <2> QED
    BY <2>1, <2>2, MoveKeeps
<1>3. ASSUME NEW step, step # "none", NEW c, request' = [request EXCEPT ![r].at = step, ![r].snap = c]
      PROVE  Kept
  <2> DEFINE e == [request[r] EXCEPT !.at = step, !.snap = c]
  <2>1. request' = [request EXCEPT ![r] = e]
    BY <1>3
  <2>2. e.at # "none" /\ e.protected = request[r].protected /\ e.kind = request[r].kind
    BY <1>0, <1>3 DEF Entry
  <2> HIDE DEF e
  <2> QED
    BY <2>1, <2>2, MoveKeeps
<1>4. ASSUME request' = [request EXCEPT ![r].at = "read", ![r].again = TRUE]
      PROVE  Kept
  <2> DEFINE e == [request[r] EXCEPT !.at = "read", !.again = TRUE]
  <2>1. request' = [request EXCEPT ![r] = e]
    BY <1>4
  <2>2. e.at # "none" /\ e.protected = request[r].protected /\ e.kind = request[r].kind
    BY <1>0 DEF Entry
  <2> HIDE DEF e
  <2> QED
    BY <2>1, <2>2, MoveKeeps
<1>5. ASSUME request' = [request EXCEPT ![r].at = "rewrite", ![r].urls = allow_list]
      PROVE  Kept
  <2> DEFINE e == [request[r] EXCEPT !.at = "rewrite", !.urls = allow_list]
  <2>1. request' = [request EXCEPT ![r] = e]
    BY <1>5
  <2>2. e.at # "none" /\ e.protected = request[r].protected /\ e.kind = request[r].kind
    BY <1>0 DEF Entry
  <2> HIDE DEF e
  <2> QED
    BY <2>1, <2>2, MoveKeeps
<1>6. CASE List(r) \/ Upsert(r) \/ DeleteEnv(r)
  BY <1>1, <1>2, <1>6 DEF List, Upsert, DeleteEnv, Deleted
<1>7. CASE ReadInstance(r) \/ WriteEnvFile(r)
  BY <1>1, <1>2, <1>4, <1>7
     DEF ReadInstance, WriteEnvFile, ApplyFails, SetNotApplied, DeleteNotApplied, ApplyNotApplied
<1>8. CASE ListEnv(r) \/ MergeEnv(r)
  BY <1>3, <1>8 DEF ListEnv, MergeEnv
<1>9. CASE ReadAllowList(r) \/ WriteAllowList(r) \/ RestartAuth(r)
  BY <1>1, <1>2, <1>5, <1>9 DEF ReadAllowList, WriteAllowList, RestartAuth
<1>10. CASE EnsureImage(r) \/ StageAndSwap(r) \/ StopAndRemove(r)
  BY <1>1, <1>2, <1>10 DEF EnsureImage, StageAndSwap, StopAndRemove
<1>11. CASE CreateSidecar(r) \/ StartSidecar(r) \/ SetNextjsService(r)
  BY <1>1, <1>2, <1>11 DEF CreateSidecar, StartSidecar, SetNextjsService
<1>12. CASE ClientLeaves(r)
  BY <1>1, <1>12 DEF ClientLeaves
<1> QED
  BY <1>6, <1>7, <1>8, <1>9, <1>10, <1>11, <1>12 DEF EnvStep, DeployStep

LEMMA RequestsGoOn ==
    ASSUME TypeOK, [Next]_vars
    PROVE  Kept
<1>1. ASSUME NEW r \in Requests, Start(r)
      PROVE  Kept
  BY <1>1 DEF Start, Kept, TypeOK
<1>2. ASSUME \/ \E r \in Requests : RecreateReads(r) \/ RecreateRuns(r)
             \/ Destroy \/ ComposeDown \/ RemoveDir \/ DeleteAllEnv \/ MarkDestroyed
             \/ UNCHANGED vars
      PROVE  Kept
  <2>1. UNCHANGED request
    BY <1>2 DEF RecreateReads, RecreateRuns, Destroy, ComposeDown, RemoveDir, DeleteAllEnv,
                MarkDestroyed, vars
  <2> QED
    BY <2>1 DEF Kept
<1>3. ASSUME Restart
      PROVE  Kept
  <2>1. \A q \in Requests : \/ request'[q] = [request[q] EXCEPT !.at = "over"]
                            \/ request'[q] = request[q]
    BY <1>3 DEF Restart
  <2> QED
    BY <2>1 DEF Kept, TypeOK
<1> QED
  BY <1>1, <1>2, <1>3, HandlersKeep, EachStep

LEMMA SecretStep == TypeOK /\ SecretInv /\ [Next]_vars => SecretInv'
<1> SUFFICES ASSUME TypeOK, SecretInv, [Next]_vars
             PROVE  SecretInv'
  OBVIOUS
<1>1. /\ shown \subseteq Requests
      /\ \A k \in Keys : env[k].by # "none" => env[k].by \in Requests
  BY DEF TypeOK, Rows, NoRow
<1>2. \A q \in Requests : request[q].at # "none" /\ ~request[q].protected =>
              request'[q].at # "none" /\ ~request'[q].protected
  BY RequestsGoOn DEF Kept
<1>3. ASSUME UNCHANGED shown
      PROVE  \A r \in shown' : request'[r].at # "none" /\ ~request'[r].protected
  BY <1>1, <1>2, <1>3 DEF SecretInv
<1>4. ASSUME UNCHANGED env
      PROVE  \A k \in Keys : env'[k].by # "none" /\ ~env'[k].protected =>
                 request'[env'[k].by].at # "none" /\ ~request'[env'[k].by].protected
  BY <1>1, <1>2, <1>4 DEF SecretInv
<1>5. ASSUME UNCHANGED <<shown, env>>
      PROVE  SecretInv'
  BY <1>3, <1>4, <1>5 DEF SecretInv
<1>6. ASSUME NEW r \in Requests, List(r)
      PROVE  SecretInv'
  <2>1. UNCHANGED env /\ shown' = shown \cup {env[k].by : k \in Listed}
    BY <1>6 DEF List
  <2>2. \A k \in Listed : env[k].by \in Requests /\ request[env[k].by].at # "none"
                           /\ ~request[env[k].by].protected
    BY <1>1 DEF Listed, SecretInv
  <2>3. \A q \in shown' : q \in Requests /\ request[q].at # "none" /\ ~request[q].protected
    BY <1>1, <2>1, <2>2 DEF SecretInv
  <2> QED
    BY <1>2, <1>4, <2>1, <2>3 DEF SecretInv
<1>7. ASSUME NEW r \in Requests, Upsert(r)
      PROVE  SecretInv'
  <2>1. UNCHANGED shown
    BY <1>7 DEF Upsert
  <2>2. CASE UNCHANGED env
    BY <1>5, <2>1, <2>2
  <2>3. CASE env' = [env EXCEPT ![request[r].key] = [by |-> r, protected |-> request[r].protected]]
    <3>1. request[r].at # "none" /\ request[r].key \in Keys
      BY <1>7 DEF Upsert, TypeOK
    <3>2. env'[request[r].key] = [by |-> r, protected |-> request[r].protected]
      BY <2>3, <3>1 DEF TypeOK
    <3>3. \A k \in Keys \ {request[r].key} : env'[k] = env[k]
      BY <2>3 DEF TypeOK
    <3>4. ASSUME NEW k \in Keys, env'[k].by # "none", ~env'[k].protected
          PROVE  request'[env'[k].by].at # "none" /\ ~request'[env'[k].by].protected
      <4>1. CASE k = request[r].key
        BY <1>2, <3>1, <3>2, <3>4, <4>1
      <4>2. CASE k # request[r].key
        BY <1>1, <1>2, <3>3, <3>4, <4>2 DEF SecretInv
      <4> QED
        BY <4>1, <4>2
    <3> QED
      BY <1>3, <2>1, <3>4 DEF SecretInv
  <2> QED
    BY <1>7, <2>2, <2>3 DEF Upsert
<1>8. ASSUME UNCHANGED shown,
             \A k \in Keys : env'[k] = NoRow \/ env'[k] = env[k]
      PROVE  SecretInv'
  <2>1. ASSUME NEW k \in Keys, env'[k].by # "none", ~env'[k].protected
        PROVE  request'[env'[k].by].at # "none" /\ ~request'[env'[k].by].protected
    <3>1. env'[k] = env[k]
      BY <1>8, <2>1 DEF NoRow
    <3> QED
      BY <1>1, <1>2, <2>1, <3>1 DEF SecretInv
  <2> QED
    BY <1>3, <1>8, <2>1 DEF SecretInv
<1>9. ASSUME NEW r \in Requests, DeleteEnv(r)
      PROVE  SecretInv'
  <2>1. UNCHANGED shown /\ \A k \in Keys : env'[k] = NoRow \/ env'[k] = env[k]
    BY <1>9 DEF DeleteEnv, TypeOK
  <2> QED
    BY <1>8, <2>1
<1>10. ASSUME NEW r \in Requests, EnvStep(r), ~List(r), ~Upsert(r), ~DeleteEnv(r)
       PROVE  UNCHANGED <<shown, env>>
  BY <1>10 DEF EnvStep, ReadInstance, ListEnv, WriteEnvFile, ReadAllowList, WriteAllowList,
               RestartAuth
<1>11. ASSUME NEW r \in Requests, DeployStep(r)
       PROVE  UNCHANGED <<shown, env>>
  BY <1>11 DEF DeployStep, EnsureImage, StageAndSwap, StopAndRemove, MergeEnv, CreateSidecar,
               StartSidecar, SetNextjsService
<1>12. ASSUME NEW r \in Requests, Start(r) \/ RecreateReads(r) \/ RecreateRuns(r) \/ ClientLeaves(r)
       PROVE  UNCHANGED <<shown, env>>
  BY <1>12 DEF Start, RecreateReads, RecreateRuns, ClientLeaves
<1>13. ASSUME Destroy \/ ComposeDown \/ RemoveDir \/ MarkDestroyed \/ Restart \/ UNCHANGED vars
       PROVE  UNCHANGED <<shown, env>>
  BY <1>13 DEF Destroy, ComposeDown, RemoveDir, MarkDestroyed, Restart, vars
<1>14. CASE DeleteAllEnv
  BY <1>8, <1>14 DEF DeleteAllEnv, RowsCleared
<1> QED
  BY <1>5, <1>6, <1>7, <1>9, <1>10, <1>11, <1>12, <1>13, <1>14, EachStep

-----------------------------------------------------------------------------
(* The sidecar. *)

\* A fault is there to stay.
LEMMA FaultsStay ==
    ASSUME TypeOK, [Next]_vars, NEW fs \in SUBSET Faults, Never(fs)'
    PROVE  Never(fs)
<1>1. \A f \in fs : faults[f] \in Nat /\ faults'[f] \in Nat /\ faults'[f] >= faults[f]
  BY EachRemembers DEF Remembered, TypeOK
<1>2. \A f \in fs : faults'[f] = 0
  BY DEF Never
<1> QED
  BY <1>1, <1>2 DEF Never

\* Handlers of other requests stay out of a deploy, and a dropped one is out of it.
LEMMA EnvMoves ==
    ASSUME TypeOK, NEW r \in Requests, EnvStep(r) \/ ClientLeaves(r)
    PROVE  /\ request'[r].at \notin DeploySteps
           /\ EnvStep(r) => InFlight(r) /\ request[r].at \notin DeploySteps
           /\ \A q \in Requests \ {r} : request'[q] = request[q]
<1> USE DEF TypeOK, DeploySteps, InFlight
<1>1. CASE List(r) \/ Upsert(r) \/ DeleteEnv(r)
  BY <1>1 DEF List, Upsert, DeleteEnv, Deleted, Goto, Answer
<1>2. CASE ListEnv(r)
  BY <1>2 DEF ListEnv
<1>3. CASE ReadInstance(r) \/ WriteEnvFile(r)
  BY <1>3
     DEF ReadInstance, WriteEnvFile, ApplyFails, SetNotApplied, DeleteNotApplied, ApplyNotApplied, Goto, Answer
<1>4. CASE ReadAllowList(r) \/ WriteAllowList(r) \/ RestartAuth(r)
  BY <1>4 DEF ReadAllowList, WriteAllowList, RestartAuth, Goto, Answer
<1>5. CASE ClientLeaves(r) /\ ~EnvStep(r)
  BY <1>5 DEF ClientLeaves, Goto
<1> QED
  BY <1>1, <1>2, <1>3, <1>4, <1>5 DEF EnvStep

\* Who is inside a deploy when a step is over was inside before, but for the
\* one that starts.
LEMMA AloneStep == TypeOK /\ DeployAlone /\ [Next]_vars => DeployAlone'
<1> SUFFICES ASSUME TypeOK, DeployAlone, [Next]_vars
             PROVE  DeployAlone'
  OBVIOUS
<1>1. ASSUME \A q \in Requests : request'[q].at \in DeploySteps => request[q].at \in DeploySteps
      PROVE  DeployAlone'
  <2>1. \A q \in Requests : request'[q].at \in DeploySteps => request[q].at # "none"
    BY <1>1 DEF DeploySteps
  <2>2. \A q \in Requests : request'[q].at \in DeploySteps => request'[q].kind = "deploy"
    BY <1>1, <2>1, RequestsGoOn DEF Kept, DeployAlone
  <2> QED
    BY <1>1, <2>2 DEF DeployAlone
<1>2. ASSUME NEW r \in Requests, Start(r)
      PROVE  DeployAlone'
  <2>1. PICK kind \in Kinds, k \in Keys, p \in BOOLEAN :
          /\ kind = "deploy" => \A s \in Requests : InFlight(s) => request[s].kind # "deploy"
          /\ request' = [request EXCEPT ![r] = [@ EXCEPT !.at = FirstStep(kind), !.kind = kind,
                                                         !.key = k, !.protected = p]]
    BY <1>2 DEF Start
  <2>2. /\ request'[r].at = FirstStep(kind) /\ request'[r].kind = kind
        /\ \A q \in Requests \ {r} : request'[q] = request[q]
    BY <2>1 DEF TypeOK
  <2>3. CASE kind = "deploy"
    <3>1. \A q \in Requests : request[q].at \notin DeploySteps
      BY <2>1, <2>3 DEF DeployAlone, InFlight, DeploySteps
    <3> QED
      BY <2>2, <2>3, <3>1 DEF DeployAlone
  <2>4. CASE kind # "deploy"
    <3>1. FirstStep(kind) \notin DeploySteps
      BY <2>4, ConfigAssumption DEF FirstStep, AllKinds, Applying, DeploySteps
    <3> QED
      BY <1>1, <2>2, <3>1
  <2> QED
    BY <2>3, <2>4
<1>3. ASSUME NEW r \in Requests, EnvStep(r) \/ ClientLeaves(r)
      PROVE  DeployAlone'
  BY <1>1, <1>3, EnvMoves
<1>4. ASSUME NEW r \in Requests, DeployStep(r)
      PROVE  DeployAlone'
  <2>1. request[r].at \in DeploySteps /\ \A q \in Requests \ {r} : request'[q] = request[q]
    <3>1. CASE EnsureImage(r) \/ StageAndSwap(r) \/ StopAndRemove(r) \/ MergeEnv(r)
      BY <3>1 DEF EnsureImage, StageAndSwap, StopAndRemove, MergeEnv, Goto, Answer, TypeOK,
                  DeploySteps
    <3>2. CASE CreateSidecar(r) \/ StartSidecar(r) \/ SetNextjsService(r)
      BY <3>2 DEF CreateSidecar, StartSidecar, SetNextjsService, Goto, Answer, TypeOK, DeploySteps
    <3> QED
      BY <1>4, <3>1, <3>2 DEF DeployStep
  <2> QED
    BY <1>1, <2>1
<1>5. ASSUME \/ \E r \in Requests : RecreateReads(r) \/ RecreateRuns(r)
             \/ Destroy \/ ComposeDown \/ RemoveDir \/ DeleteAllEnv \/ MarkDestroyed
             \/ UNCHANGED vars
      PROVE  DeployAlone'
  <2>1. UNCHANGED request
    BY <1>5 DEF RecreateReads, RecreateRuns, Destroy, ComposeDown, RemoveDir, DeleteAllEnv,
                MarkDestroyed, vars
  <2> QED
    BY <1>1, <2>1
<1>6. CASE Restart
  <2>1. \A q \in Requests : \/ request'[q] = request[q]
                            \/ request'[q] = [request[q] EXCEPT !.at = "over"]
    BY <1>6 DEF Restart
  <2>2. \A q \in Requests : [request[q] EXCEPT !.at = "over"].at = "over"
    BY DEF TypeOK
  <2> QED
    BY <1>1, <2>1, <2>2 DEF DeploySteps
<1> QED
  BY <1>2, <1>3, <1>4, <1>5, <1>6, EachStep

\* An instance that is not being destroyed was not.
LEMMA UndisturbedBefore ==
    ASSUME TypeOK, DirInv, [Next]_vars, Undisturbed'
    PROVE  Undisturbed
<1>1. {"disk", "docker", "leave", "crash"} \in SUBSET Faults
  BY DEF Faults
<1>2. Never({"disk", "docker", "leave", "crash"}) /\ Never({"disk", "docker", "leave", "crash"})'
  BY <1>1, FaultsStay DEF Undisturbed
<1>3. \A f \in {"disk", "docker", "leave", "crash"} : ~Fault(f)
  BY <1>1, <1>2, FaultCounted DEF Never
<1>4. ASSUME \/ \E r \in Requests : \/ Start(r) \/ EnvStep(r) \/ RecreateReads(r)
                                    \/ RecreateRuns(r) \/ ClientLeaves(r)
             \/ UNCHANGED vars
      PROVE  UNCHANGED <<live, destroy>>
  BY <1>4 DEF Start, EnvStep, List, Upsert, DeleteEnv, ReadInstance, ListEnv, WriteEnvFile,
              ReadAllowList, WriteAllowList, RestartAuth, RecreateReads, RecreateRuns,
              ClientLeaves, vars, destroying
<1>5. ASSUME NEW r \in Requests, DeployStep(r)
      PROVE  UNCHANGED <<live, destroy>>
  BY <1>5 DEF DeployStep, EnsureImage, StageAndSwap, StopAndRemove, MergeEnv, CreateSidecar,
              StartSidecar, SetNextjsService, destroying
<1>6. ~Destroy /\ ~ComposeDown /\ ~RemoveDir /\ ~DeleteAllEnv /\ ~MarkDestroyed /\ ~Restart
  <2>1. faults["crash"] = 0
    BY <1>2 DEF Never
  <2>2. ~ComposeDown
    BY <1>3, <2>1 DEF Undisturbed, DirInv, ComposeDown
  <2> QED
    BY <1>3, <2>2 DEF Undisturbed, Destroy, RemoveDir, DeleteAllEnv, MarkDestroyed, Restart
<1> QED
  BY <1>2, <1>4, <1>5, <1>6, EachStep DEF Undisturbed

LEMMA DeployInvStep == TypeOK /\ DirInv /\ DeployInv /\ [Next]_vars => DeployInv'
<1> SUFFICES ASSUME TypeOK, DirInv, DeployInv, [Next]_vars, Undisturbed', Undisturbed
             PROVE  /\ network'
                    /\ \A r \in Requests : Deploying(r)'
                    /\ (\A r \in Requests : request'[r].at \notin DeploySteps) => Serving'
  BY AloneStep, UndisturbedBefore DEF DeployInv
<1>1. \A f \in {"disk", "docker", "leave", "crash"} : ~Fault(f)
  <2>1. {"disk", "docker", "leave", "crash"} \subseteq Faults
    BY DEF Faults
  <2> QED
    BY <2>1, FaultCounted DEF Undisturbed, Never
<1> DEFINE Goal == /\ network'
                   /\ \A r \in Requests : Deploying(r)'
                   /\ (\A r \in Requests : request'[r].at \notin DeploySteps) => Serving'
<1>2. ASSUME UNCHANGED side, network',
             \A q \in Requests :
                \/ request'[q].at = request[q].at
                \/ request'[q].at \notin DeploySteps /\ request[q].at \notin DeploySteps
      PROVE  Goal
  <2>1. \A q \in Requests : Deploying(q)'
    BY <1>2 DEF DeployInv, Deploying, Serving, DeploySteps, side
  <2>2. (\A r \in Requests : request'[r].at \notin DeploySteps) => Serving'
    BY <1>2 DEF DeployInv, Serving, side
  <2> QED
    BY <1>2, <2>1, <2>2
<1>3. ASSUME NEW r \in Requests, Start(r)
      PROVE  Goal
  <2>1. PICK kind \in Kinds, k \in Keys, p \in BOOLEAN :
          /\ kind = "deploy" => \A s \in Requests : InFlight(s) => request[s].kind # "deploy"
          /\ request' = [request EXCEPT ![r] = [@ EXCEPT !.at = FirstStep(kind), !.kind = kind,
                                                         !.key = k, !.protected = p]]
    BY <1>3 DEF Start
  <2>2. /\ request'[r].at = FirstStep(kind) /\ request[r].at = "none"
        /\ \A q \in Requests \ {r} : request'[q] = request[q]
    <3>1. request[r].at = "none"
      BY <1>3 DEF Start
    <3> QED
      BY <2>1, <3>1 DEF TypeOK
  <2>3. UNCHANGED side /\ network'
    BY <1>3 DEF Start, DeployInv, cached, stack
  <2>4. CASE kind = "deploy"
    <3>1. \A q \in Requests : request[q].at \notin DeploySteps
      BY <2>1, <2>4 DEF DeployInv, DeployAlone, InFlight, DeploySteps
    <3>2. Serving' /\ request'[r].at = "image"
      BY <2>2, <2>3, <2>4, <3>1 DEF DeployInv, Serving, side, FirstStep
    <3>3. \A q \in Requests : Deploying(q)'
      BY <2>2, <3>1, <3>2 DEF Deploying, DeploySteps
    <3> QED
      BY <2>3, <3>2, <3>3
  <2>5. CASE kind # "deploy"
    <3>1. FirstStep(kind) \notin DeploySteps /\ "none" \notin DeploySteps
      BY <2>5, ConfigAssumption DEF FirstStep, AllKinds, Applying, DeploySteps
    <3> QED
      BY <1>2, <2>2, <2>3, <3>1
  <2> QED
    BY <2>4, <2>5
<1>4. ASSUME NEW r \in Requests, EnvStep(r)
      PROVE  Goal
  <2>1. UNCHANGED <<side, network>>
    BY <1>4 DEF EnvStep, List, Upsert, DeleteEnv, ReadInstance, ListEnv, WriteEnvFile,
                ReadAllowList, WriteAllowList, RestartAuth, cached, stack
  <2> QED
    BY <1>2, <1>4, <2>1, EnvMoves DEF DeployInv
<1>5. ASSUME NEW r \in Requests, DeployStep(r)
      PROVE  Goal
  <2>1. /\ request[r].at \in DeploySteps /\ UNCHANGED network
        /\ \A q \in Requests \ {r} : request'[q] = request[q]
    <3>1. CASE EnsureImage(r) \/ StageAndSwap(r) \/ StopAndRemove(r) \/ MergeEnv(r)
      BY <3>1 DEF EnsureImage, StageAndSwap, StopAndRemove, MergeEnv, Goto, Answer, TypeOK,
                  DeploySteps, cached, stack
    <3>2. CASE CreateSidecar(r) \/ StartSidecar(r) \/ SetNextjsService(r)
      BY <3>2 DEF CreateSidecar, StartSidecar, SetNextjsService, Goto, Answer, TypeOK,
                  DeploySteps, cached, stack
    <3> QED
      BY <1>5, <3>1, <3>2 DEF DeployStep
  <2>2. \A q \in Requests \ {r} : Deploying(q)'
    <3>1. \A q \in Requests \ {r} : request[q].at \notin DeploySteps
      BY <2>1 DEF DeployInv, DeployAlone
    <3> QED
      BY <2>1, <3>1 DEF Deploying, DeploySteps
  <2>3. network' /\ Deploying(r)
    BY <2>1 DEF DeployInv
  <2>4. ASSUME Deploying(r)', request'[r].at \in DeploySteps \/ Serving'
        PROVE  Goal
    BY <2>2, <2>3, <2>4
  <2>5. ASSUME NEW step, Goto(r, step)
        PROVE  request'[r].at = step
    BY <2>5 DEF Goto, TypeOK
  <2>6. CASE EnsureImage(r)
    <3>1. Goto(r, "stage") /\ request[r].at = "image" /\ UNCHANGED side
      BY <1>1, <2>6 DEF EnsureImage
    <3> QED
      BY <2>3, <2>4, <2>5, <3>1 DEF Deploying, Serving, side, DeploySteps
  <2>7. CASE StageAndSwap(r)
    <3>1. Goto(r, "stop") /\ target' = r
      BY <1>1, <2>7 DEF StageAndSwap
    <3> QED
      BY <2>4, <2>5, <3>1 DEF Deploying, DeploySteps
  <2>8. CASE StopAndRemove(r)
    <3>1. /\ Goto(r, "merge") /\ request[r].at = "stop"
          /\ target' = target /\ sidecar' = NoSidecar
      BY <1>1, <2>8 DEF StopAndRemove, WithoutOld
    <3> QED
      BY <2>3, <2>4, <2>5, <3>1 DEF Deploying, DeploySteps
  <2>9. CASE MergeEnv(r)
    <3>1. request'[r].at = "create" /\ request[r].at = "merge" /\ UNCHANGED side
      BY <2>9 DEF MergeEnv, TypeOK
    <3> QED
      BY <2>3, <2>4, <3>1 DEF Deploying, side, DeploySteps
  <2>10. CASE CreateSidecar(r)
    <3>1. request[r].at = "create" /\ sidecar = NoSidecar
      BY <2>3, <2>10 DEF CreateSidecar, Deploying
    <3>2. /\ Goto(r, "start") /\ target' = target
          /\ sidecar' = [by |-> r, env |-> request[r].snap, up |-> FALSE]
      BY <1>1, <2>10, <3>1 DEF CreateSidecar, Created
    <3> QED
      BY <2>3, <2>4, <2>5, <3>1, <3>2 DEF Deploying, DeploySteps
  <2>11. CASE StartSidecar(r)
    <3>1. request[r].at = "start" /\ network
      BY <2>11 DEF StartSidecar, DeployInv
    <3>2. /\ Goto(r, "record") /\ target' = target
          /\ sidecar' = [sidecar EXCEPT !.up = TRUE]
      BY <1>1, <2>11, <3>1 DEF StartSidecar
    <3>3. sidecar'.by = sidecar.by /\ sidecar'.up = TRUE
      BY <3>2 DEF TypeOK
    <3> QED
      BY <2>3, <2>4, <2>5, <3>1, <3>2, <3>3 DEF Deploying, DeploySteps
  <2>12. CASE SetNextjsService(r)
    <3>1. request[r].at = "record" /\ Answer(r, "ok") /\ UNCHANGED <<target, sidecar>>
      BY <2>12 DEF SetNextjsService
    <3>2. request'[r].at = "over"
      BY <3>1 DEF Answer, TypeOK
    <3> QED
      BY <2>3, <2>4, <3>1, <3>2 DEF Deploying, Serving
  <2> QED
    BY <1>5, <2>6, <2>7, <2>8, <2>9, <2>10, <2>11, <2>12 DEF DeployStep
<1>6. ASSUME NEW r \in Requests, RecreateReads(r) \/ RecreateRuns(r)
      PROVE  Goal
  <2>1. network'
    BY <1>6 DEF RecreateReads, RecreateRuns, DeployInv, cached, stack
  <2>2. UNCHANGED <<side, request>>
    BY <1>6 DEF RecreateReads, RecreateRuns
  <2> QED
    BY <1>2, <2>1, <2>2 DEF DeployInv
<1>7. ASSUME UNCHANGED vars
      PROVE  Goal
  BY <1>2, <1>7 DEF vars, DeployInv, side
<1>8. ~\E r \in Requests : ClientLeaves(r)
  BY <1>1 DEF ClientLeaves
<1>9. ~Destroy /\ ~ComposeDown /\ ~RemoveDir /\ ~DeleteAllEnv /\ ~MarkDestroyed /\ ~Restart
  BY <1>1 DEF Undisturbed, Destroy, ComposeDown, RemoveDir, DeleteAllEnv, MarkDestroyed, Restart
<1> HIDE DEF Goal
<1>10. Goal
  BY <1>3, <1>4, <1>5, <1>6, <1>7, <1>8, <1>9, EachStep
<1> QED
  BY <1>10 DEF Goal

-----------------------------------------------------------------------------
(* What a destroy leaves. *)

\* A dropped handler goes nowhere, and the others only where their kind goes.
LEMMA EnvStays ==
    ASSUME TypeOK, NEW r \in Requests, EnvStep(r) \/ DeployStep(r) \/ ClientLeaves(r)
    PROVE  /\ InFlight(r)
           /\ request'[r].at \in EnvSteps => request[r].at \in EnvSteps
           /\ \A q \in Requests \ {r} : request'[q] = request[q]
<1> USE DEF TypeOK, EnvSteps, ApplySteps, InFlight
<1>1. CASE List(r) \/ Upsert(r) \/ DeleteEnv(r)
  BY <1>1 DEF List, Upsert, DeleteEnv, Deleted, Goto, Answer
<1>2. CASE ListEnv(r) \/ MergeEnv(r)
  BY <1>2 DEF ListEnv, MergeEnv
<1>3. CASE ReadInstance(r) \/ WriteEnvFile(r)
  BY <1>3
     DEF ReadInstance, WriteEnvFile, ApplyFails, SetNotApplied, DeleteNotApplied, ApplyNotApplied, Goto, Answer
<1>4. CASE ReadAllowList(r) \/ WriteAllowList(r) \/ RestartAuth(r)
  BY <1>4 DEF ReadAllowList, WriteAllowList, RestartAuth, Goto, Answer
<1>5. CASE EnsureImage(r) \/ StageAndSwap(r) \/ StopAndRemove(r)
  BY <1>5 DEF EnsureImage, StageAndSwap, StopAndRemove, Goto, Answer
<1>6. CASE CreateSidecar(r) \/ StartSidecar(r) \/ SetNextjsService(r)
  BY <1>6 DEF CreateSidecar, StartSidecar, SetNextjsService, Goto, Answer
<1>7. CASE ClientLeaves(r)
  BY <1>7 DEF ClientLeaves, Goto
<1> QED
  BY <1>1, <1>2, <1>3, <1>4, <1>5, <1>6, <1>7 DEF EnvStep, DeployStep

\* Only a handler that writes the file leads to a recreate.
LEMMA RecreateStays ==
    ASSUME TypeOK, NEW r \in Requests, EnvStep(r) \/ DeployStep(r) \/ ClientLeaves(r)
    PROVE  \A q \in Requests :
               recreate'[q].at # "none" => Recreating(q) \/ (q = r /\ request[r].at = "write")
<1>1. CASE WriteEnvFile(r)
  BY <1>1 DEF WriteEnvFile, TypeOK, Recreating
<1>2. CASE EnvStep(r) /\ ~WriteEnvFile(r)
  BY <1>2 DEF EnvStep, List, Upsert, DeleteEnv, ReadInstance, ListEnv, ReadAllowList,
              WriteAllowList, RestartAuth, Recreating
<1>3. CASE DeployStep(r)
  BY <1>3 DEF DeployStep, EnsureImage, StageAndSwap, StopAndRemove, MergeEnv, CreateSidecar,
              StartSidecar, SetNextjsService, Recreating
<1>4. CASE ClientLeaves(r)
  BY <1>4 DEF ClientLeaves, Recreating
<1> QED
  BY <1>1, <1>2, <1>3, <1>4

LEMMA KindStep == TypeOK /\ KindInv /\ [Next]_vars => KindInv'
<1> SUFFICES ASSUME TypeOK, KindInv, [Next]_vars
             PROVE  KindInv'
  OBVIOUS
<1>1. Kept
  BY RequestsGoOn
<1>2. ASSUME \A q \in Requests : request'[q].at \in EnvSteps => request[q].at \in EnvSteps,
             \A q \in Requests :
                recreate'[q].at # "none" =>
                    Recreating(q) \/ (request[q].at # "none" /\ request[q].kind \in Applying)
      PROVE  KindInv'
  <2>1. \A q \in Requests : request[q].at \in EnvSteps => request[q].at # "none"
    BY DEF EnvSteps, ApplySteps
  <2>2. \A q \in Requests : request'[q].at \in EnvSteps => request'[q].kind \in Applying
    BY <1>1, <1>2, <2>1 DEF Kept, KindInv
  <2>3. \A q \in Requests :
          recreate'[q].at # "none" => request'[q].at # "none" /\ request'[q].kind \in Applying
    BY <1>1, <1>2 DEF Kept, KindInv
  <2> QED
    BY <2>2, <2>3 DEF KindInv, Recreating
<1>3. ASSUME NEW r \in Requests, EnvStep(r) \/ DeployStep(r) \/ ClientLeaves(r)
      PROVE  KindInv'
  <2>1. \A q \in Requests : request'[q].at \in EnvSteps => request[q].at \in EnvSteps
    BY <1>3, EnvStays
  <2>2. request[r].at = "write" => request[r].at # "none" /\ request[r].kind \in Applying
    BY DEF KindInv, EnvSteps, ApplySteps
  <2>3. \A q \in Requests :
          recreate'[q].at # "none" =>
              Recreating(q) \/ (request[q].at # "none" /\ request[q].kind \in Applying)
    BY <1>3, <2>2, RecreateStays
  <2> QED
    BY <1>2, <2>1, <2>3
<1>4. ASSUME NEW r \in Requests, Start(r)
      PROVE  KindInv'
  <2>1. PICK kind \in Kinds, k \in Keys, p \in BOOLEAN :
          request' = [request EXCEPT ![r] = [@ EXCEPT !.at = FirstStep(kind), !.kind = kind,
                                                       !.key = k, !.protected = p]]
    BY <1>4 DEF Start
  <2>2. /\ request'[r].at = FirstStep(kind) /\ request'[r].kind = kind
        /\ \A q \in Requests \ {r} : request'[q] = request[q]
    BY <2>1 DEF TypeOK
  <2>3. FirstStep(kind) \in EnvSteps => kind \in Applying
    BY ConfigAssumption DEF FirstStep, EnvSteps, ApplySteps, AllKinds, Applying
  <2>4. request[r].at = "none" /\ UNCHANGED recreate
    BY <1>4 DEF Start
  <2>5. \A q \in Requests : request'[q].at \in EnvSteps => request'[q].kind \in Applying
    BY <2>2, <2>3 DEF KindInv
  <2>6. \A q \in Requests : recreate'[q].at # "none" => q # r
    BY <2>4 DEF KindInv, Recreating
  <2> QED
    BY <2>2, <2>4, <2>5, <2>6 DEF KindInv, Recreating
<1>5. ASSUME \/ \E r \in Requests : RecreateReads(r) \/ RecreateRuns(r)
             \/ Destroy \/ ComposeDown \/ RemoveDir \/ DeleteAllEnv \/ MarkDestroyed
             \/ UNCHANGED vars
      PROVE  KindInv'
  <2>1. UNCHANGED request
    BY <1>5 DEF RecreateReads, RecreateRuns, Destroy, ComposeDown, RemoveDir, DeleteAllEnv,
                MarkDestroyed, vars
  <2>2. \A q \in Requests : recreate'[q].at # "none" => Recreating(q)
    <3>1. CASE \E r \in Requests : RecreateReads(r) \/ RecreateRuns(r)
      BY <3>1 DEF RecreateReads, RecreateRuns, Recreating, TypeOK
    <3>2. CASE ~\E r \in Requests : RecreateReads(r) \/ RecreateRuns(r)
      <4>1. UNCHANGED recreate
        BY <1>5, <3>2 DEF Destroy, ComposeDown, RemoveDir, DeleteAllEnv, MarkDestroyed, vars
      <4> QED
        BY <4>1 DEF Recreating
    <3> QED
      BY <3>1, <3>2
  <2> QED
    BY <1>2, <2>1, <2>2
<1>6. CASE Restart
  <2>1. \A q \in Requests : \/ request'[q] = request[q]
                            \/ request'[q] = [request[q] EXCEPT !.at = "over"]
    BY <1>6 DEF Restart
  <2>2. \A q \in Requests : [request[q] EXCEPT !.at = "over"].at = "over"
    BY DEF TypeOK
  <2>3. \A q \in Requests : recreate'[q].at = "none"
    BY <1>6 DEF Restart, TypeOK
  <2> QED
    BY <1>2, <2>1, <2>2, <2>3 DEF EnvSteps, ApplySteps
<1> QED
  BY <1>3, <1>4, <1>5, <1>6, EachStep

\* The handlers and tasks leave destroy alone, and what they make is of their kind.
LEMMA HandlerMakes ==
    ASSUME TypeOK, DeployAlone, KindInv, NEW r \in Requests,
           \/ EnvStep(r) \/ DeployStep(r) \/ ClientLeaves(r)
           \/ RecreateReads(r) \/ RecreateRuns(r)
    PROVE  /\ UnderWay(r) /\ UNCHANGED <<live, destroy, overlap>>
           /\ \A k \in Keys : env'[k].by \in {env[k].by, r, "none"}
           /\ dir' = dir \/ (dir' # "none" /\ request[r].kind \in Applying \cup {"deploy"})
           /\ functions' \in {functions, Gone} \/ request[r].kind \in Applying
<1>1. CASE List(r) \/ Upsert(r) \/ DeleteEnv(r)
  <2>1. UnderWay(r) /\ UNCHANGED <<live, destroy, overlap, dir, functions>>
    BY <1>1 DEF List, Upsert, DeleteEnv, UnderWay, InFlight, cached, stack, destroying
  <2>2. \A k \in Keys : env'[k].by \in {env[k].by, r, "none"}
    BY <1>1 DEF List, Upsert, DeleteEnv, TypeOK, NoRow
  <2> QED
    BY <2>1, <2>2
<1>2. CASE ReadInstance(r)
  <2>1. request[r].kind \in Applying
    BY <1>2 DEF ReadInstance, KindInv, EnvSteps, ApplySteps
  <2>2. dir' = dir \/ dir' # "none"
    BY <1>2 DEF ReadInstance
  <2> QED
    BY <1>2, <2>1, <2>2 DEF ReadInstance, UnderWay, InFlight, cached, stack, destroying
<1>3. CASE ListEnv(r) \/ WriteEnvFile(r) \/ ReadAllowList(r) \/ WriteAllowList(r) \/ RestartAuth(r)
  BY <1>3 DEF ListEnv, WriteEnvFile, ReadAllowList, WriteAllowList, RestartAuth, UnderWay,
              InFlight, cached, stack, destroying
<1>4. CASE StageAndSwap(r)
  <2>1. request[r].kind = "deploy"
    BY <1>4 DEF StageAndSwap, DeployAlone, DeploySteps
  <2>2. dir' = dir \/ dir' # "none"
    BY <1>4 DEF StageAndSwap
  <2> QED
    BY <1>4, <2>1, <2>2 DEF StageAndSwap, UnderWay, InFlight, cached, stack, destroying
<1>5. CASE EnsureImage(r) \/ StopAndRemove(r) \/ MergeEnv(r)
  BY <1>5 DEF EnsureImage, StopAndRemove, MergeEnv, UnderWay, InFlight, cached, stack, destroying
<1>6. CASE CreateSidecar(r) \/ StartSidecar(r) \/ SetNextjsService(r)
  BY <1>6 DEF CreateSidecar, StartSidecar, SetNextjsService, UnderWay, InFlight, cached, stack,
              destroying
<1>7. CASE ClientLeaves(r)
  BY <1>7 DEF ClientLeaves, UnderWay, InFlight, stack, destroying
<1>8. CASE RecreateReads(r) \/ RecreateRuns(r)
  <2>1. Recreating(r)
    BY <1>8 DEF RecreateReads, RecreateRuns, Recreating
  <2>2. request[r].kind \in Applying
    BY <2>1 DEF KindInv
  <2> QED
    BY <1>8, <2>1, <2>2 DEF RecreateReads, RecreateRuns, UnderWay, cached, stack, destroying
<1> QED
  BY <1>1, <1>2, <1>3, <1>4, <1>5, <1>6, <1>7, <1>8 DEF EnvStep, DeployStep

\* No request comes under way by a step of one that is not its start.
LEMMA UnderWayStays ==
    ASSUME TypeOK, NEW r \in Requests,
           \/ EnvStep(r) \/ DeployStep(r) \/ ClientLeaves(r)
           \/ RecreateReads(r) \/ RecreateRuns(r)
    PROVE  \A q \in Requests : UnderWay(q)' => UnderWay(q)
<1>1. CASE EnvStep(r) \/ DeployStep(r) \/ ClientLeaves(r)
  <2>1. InFlight(r) /\ \A q \in Requests \ {r} : request'[q] = request[q]
    BY <1>1, EnvStays
  <2>2. \A q \in Requests : recreate'[q].at # "none" => Recreating(q) \/ q = r
    BY <1>1, RecreateStays
  <2> QED
    BY <2>1, <2>2 DEF UnderWay, InFlight, Recreating
<1>2. CASE RecreateReads(r) \/ RecreateRuns(r)
  <2>1. UNCHANGED request /\ \A q \in Requests : recreate'[q].at # "none" => Recreating(q)
    BY <1>2 DEF RecreateReads, RecreateRuns, Recreating, TypeOK
  <2> QED
    BY <2>1 DEF UnderWay, InFlight, Recreating
<1> QED
  BY <1>1, <1>2

LEMMA DirStep ==
    ASSUME TypeOK, DeployAlone, KindInv, DirInv, [Next]_vars
    PROVE  DirInv'
<1>0. "crash" \in Faults
  BY DEF Faults
<1>1. faults'["crash"] = 0 => faults["crash"] = 0
  BY <1>0, EachRemembers DEF Remembered, TypeOK
<1>2. ASSUME NEW r \in Requests, \/ EnvStep(r) \/ DeployStep(r) \/ ClientLeaves(r)
                                 \/ RecreateReads(r) \/ RecreateRuns(r)
      PROVE  DirInv'
  BY <1>1, <1>2, HandlerMakes DEF DirInv
<1>3. CASE \/ \E r \in Requests : Start(r)
           \/ Destroy \/ ComposeDown \/ RemoveDir \/ DeleteAllEnv \/ MarkDestroyed
           \/ UNCHANGED vars
  BY <1>1, <1>3 DEF Start, Destroy, ComposeDown, RemoveDir, DeleteAllEnv, MarkDestroyed, vars,
                    DirInv
<1>4. CASE Restart
  BY <1>0, <1>4, FaultCounted DEF Restart, DirInv
<1> QED
  BY <1>2, <1>3, <1>4, EachStep

LEMMA OverlapStep ==
    ASSUME TypeOK, DeployAlone, KindInv, OverlapInv, [Next]_vars
    PROVE  OverlapInv'
<1>0. {"disk", "docker"} \subseteq Faults
  BY DEF Faults
<1>1. /\ faults["disk"] > 0 => faults'["disk"] > 0
      /\ faults["docker"] > 0 => faults'["docker"] > 0
  BY <1>0, EachRemembers DEF Remembered, TypeOK
\* What the requests of overlap are, they stay.
<1>2. /\ overlap \subseteq Requests
      /\ \A q \in overlap : request'[q].at # "none" /\ request'[q].kind = request[q].kind
  BY RequestsGoOn DEF Kept, OverlapInv, TypeOK
<1>3. ASSUME overlap \subseteq overlap', UNCHANGED functions
      PROVE  FunctionsLate => FunctionsLate'
  BY <1>1, <1>2, <1>3 DEF FunctionsLate
<1>4. ASSUME overlap \subseteq overlap', dir' = dir
      PROVE  DirLate => DirLate'
  BY <1>1, <1>2, <1>4 DEF DirLate
<1>5. ASSUME overlap \subseteq overlap', UNCHANGED env
      PROVE  EnvLate => EnvLate'
  BY <1>5 DEF EnvLate
<1>6. ASSUME NEW r \in Requests, \/ EnvStep(r) \/ DeployStep(r) \/ ClientLeaves(r)
                                 \/ RecreateReads(r) \/ RecreateRuns(r)
      PROVE  OverlapInv'
  <2>1. /\ UnderWay(r) /\ UNCHANGED <<live, destroy, overlap>>
        /\ \A k \in Keys : env'[k].by \in {env[k].by, r, "none"}
        /\ dir' = dir \/ (dir' # "none" /\ request[r].kind \in Applying \cup {"deploy"})
        /\ functions' \in {functions, Gone} \/ request[r].kind \in Applying
    BY <1>6, HandlerMakes
  <2>2. \A q \in Requests : UnderWay(q)' => UnderWay(q)
    BY <1>6, UnderWayStays
  <2>3. destroy # "none" \/ ~live => r \in overlap
    BY <2>1 DEF OverlapInv
  <2>4. destroy # "none" \/ ~live => \A q \in Requests : UnderWay(q)' => q \in overlap'
    BY <2>1, <2>2 DEF OverlapInv
  <2>5. ASSUME r \in overlap, FunctionsLate
        PROVE  FunctionsLate'
    BY <1>1, <1>2, <2>1, <2>5 DEF FunctionsLate
  <2>6. ASSUME r \in overlap, DirLate
        PROVE  DirLate'
    BY <1>1, <1>2, <2>1, <2>6 DEF DirLate
  <2>7. ASSUME r \in overlap, EnvLate
        PROVE  EnvLate'
    BY <2>1, <2>7 DEF EnvLate
  <2>8. \A q \in overlap' : request'[q].at # "none"
    BY <1>2, <2>1
  <2> QED
    BY <2>1, <2>3, <2>4, <2>5, <2>6, <2>7, <2>8 DEF OverlapInv
<1>7. ASSUME NEW r \in Requests, Start(r)
      PROVE  OverlapInv'
  <2>1. PICK kind \in Kinds, k \in Keys, p \in BOOLEAN :
          request' = [request EXCEPT ![r] = [@ EXCEPT !.at = FirstStep(kind), !.kind = kind,
                                                       !.key = k, !.protected = p]]
    BY <1>7 DEF Start
  <2>2. /\ request'[r].at = FirstStep(kind)
        /\ \A q \in Requests \ {r} : request'[q] = request[q]
    BY <2>1 DEF TypeOK
  <2>3. FirstStep(kind) # "none"
    BY ConfigAssumption DEF FirstStep, AllKinds, Applying
  <2>4. /\ UNCHANGED <<live, env, dir, functions, recreate, destroy>> /\ live
        /\ overlap \subseteq overlap'
        /\ overlap' \subseteq overlap \cup {r}
        /\ destroy # "none" => r \in overlap'
    BY <1>7 DEF Start, cached, stack
  <2>5. \A q \in overlap' : request'[q].at # "none"
    BY <1>2, <2>2, <2>3, <2>4
  <2>6. destroy # "none" => \A q \in Requests : UnderWay(q)' => q \in overlap'
    BY <2>2, <2>4 DEF OverlapInv, UnderWay, InFlight, Recreating
  <2> QED
    BY <1>3, <1>4, <1>5, <2>4, <2>5, <2>6 DEF OverlapInv
<1>8. CASE Destroy
  <2>1. /\ live' /\ destroy' = "down" /\ UNCHANGED <<request, recreate>>
        /\ overlap' = {r \in Requests : UnderWay(r)}
    BY <1>8 DEF Destroy, UnderWay
  <2>2. \A r \in overlap' : request'[r].at # "none"
    BY <2>1 DEF UnderWay, InFlight, KindInv
  <2>3. \A r \in Requests : UnderWay(r)' => r \in overlap'
    BY <2>1 DEF UnderWay, InFlight, Recreating
  <2> QED
    BY <2>1, <2>2, <2>3 DEF OverlapInv
<1>9. ASSUME UNCHANGED <<request, recreate, overlap>>
      PROVE  /\ \A r \in overlap' : request'[r].at # "none"
             /\ \A r \in Requests : UnderWay(r)' <=> UnderWay(r)
  BY <1>2, <1>9 DEF UnderWay, InFlight, Recreating
<1>10. CASE ComposeDown
  <2>1. /\ UNCHANGED <<live, request, recreate, overlap>> /\ live
        /\ destroy = "down" /\ destroy' \in {"none", "rm"}
        /\ destroy' = "rm" => functions' = Gone \/ Fault("docker")
    BY <1>10 DEF ComposeDown, OverlapInv
  <2>2. destroy' = "rm" => FunctionsLate'
    BY <1>0, <2>1, FaultCounted DEF FunctionsLate
  <2> QED
    BY <1>9, <2>1, <2>2 DEF OverlapInv
<1>11. CASE RemoveDir
  <2>1. /\ UNCHANGED <<live, functions, request, recreate, overlap>> /\ live
        /\ destroy = "rm" /\ destroy' = "env"
        /\ dir' = "none" \/ Fault("disk")
    BY <1>11 DEF RemoveDir, OverlapInv, cached, stack
  <2>2. DirLate'
    BY <1>0, <2>1, FaultCounted DEF DirLate
  <2> QED
    BY <1>3, <1>9, <2>1, <2>2 DEF OverlapInv
<1>12. CASE DeleteAllEnv
  <2>1. /\ UNCHANGED <<live, functions, dir, request, recreate, overlap>> /\ live
        /\ destroy = "env" /\ destroy' = "mark"
    BY <1>12 DEF DeleteAllEnv, OverlapInv, cached, stack
  <2>2. EnvLate'
    BY <1>12 DEF DeleteAllEnv, EnvLate, RowsCleared, NoRow
  <2> QED
    BY <1>3, <1>4, <1>9, <2>1, <2>2 DEF OverlapInv
<1>13. CASE MarkDestroyed
  <2>1. /\ UNCHANGED <<env, functions, dir, request, recreate, overlap>>
        /\ destroy = "mark" /\ destroy' = "none"
    BY <1>13 DEF MarkDestroyed, cached, stack
  <2> QED
    BY <1>3, <1>4, <1>5, <1>9, <2>1 DEF OverlapInv
<1>14. CASE Restart
  <2>1. /\ UNCHANGED <<live, env, dir, overlap>> /\ destroy' = "none"
        /\ \/ functions' \in {functions, Gone}
           \/ \E r \in Requests : Recreating(r)
    BY <1>14 DEF Restart, Recreating
  <2>2. \A r \in Requests : request'[r].at \in {"none", "over"} /\ recreate'[r].at = "none"
    <3>1. \A r \in Requests : recreate'[r].at = "none"
      BY <1>14 DEF Restart, TypeOK
    <3>2. \A r \in Requests : [request[r] EXCEPT !.at = "over"].at = "over"
      BY DEF TypeOK
    <3> QED
      BY <1>14, <3>1, <3>2 DEF Restart, InFlight
  <2>3. \A r \in Requests : ~UnderWay(r)'
    BY <2>2 DEF UnderWay, InFlight, Recreating
  <2>4. ASSUME ~live
        PROVE  FunctionsLate'
    <3>1. CASE functions' = Gone
      BY <3>1 DEF FunctionsLate
    <3>2. CASE functions' = functions
      BY <1>3, <2>1, <2>4, <3>2 DEF OverlapInv
    <3>3. CASE \E r \in Requests : Recreating(r)
      <4>1. PICK r \in Requests : Recreating(r)
        BY <3>3
      <4>2. r \in overlap /\ request[r].kind \in Applying
        BY <2>4, <4>1 DEF OverlapInv, UnderWay, KindInv
      <4> QED
        BY <1>2, <2>1, <4>2 DEF FunctionsLate
    <3> QED
      BY <2>1, <3>1, <3>2, <3>3
  <2> QED
    BY <1>2, <1>4, <1>5, <2>1, <2>3, <2>4 DEF OverlapInv
<1>15. CASE UNCHANGED vars
  <2>1. UNCHANGED <<live, env, dir, functions, request, recreate, destroy, overlap>>
    BY <1>15 DEF vars
  <2> QED
    BY <1>3, <1>4, <1>5, <1>9, <2>1 DEF OverlapInv
<1> QED
  BY <1>6, <1>7, <1>8, <1>10, <1>11, <1>12, <1>13, <1>14, <1>15, EachStep

-----------------------------------------------------------------------------
(* The properties. *)

LEMMA ConfigInit == Init => ConfigInv
<1> SUFFICES ASSUME Init
             PROVE  ConfigInv
  OBVIOUS
<1>1. Empty \in Contents /\ NoRow \in Rows
  BY DEF Empty, Contents, Rows
<1>2. (CHOOSE k \in Keys : TRUE) \in Keys
  BY ConfigAssumption
<1>3. \A k \in Keys : NoRequest(k) \in Entry
  BY <1>1 DEF NoRequest, Entry, Steps, AllKinds, Answers
<1>4. request \in [Requests -> Entry]
  BY <1>2, <1>3 DEF Init
<1>5. sidecar \in [by : Requests \cup {"none"}, env : Contents, up : BOOLEAN]
  BY <1>1 DEF Init, NoSidecar
<1>6. recreate \in [Requests -> [at : {"none", "queued", "up"}, snap : Contents]]
  BY <1>1 DEF Init
<1>7. TypeOK
  BY <1>1, <1>4, <1>5, <1>6 DEF Init, TypeOK, Entry
<1>8. SecretInv
  BY DEF Init, SecretInv, NoRow
<1>9. \A r \in Requests : request[r].at = "none" /\ recreate[r].at = "none"
  BY DEF Init, NoRequest
<1>10. DeployInv
  <2>1. DeployAlone /\ \A r \in Requests : Deploying(r)
    BY <1>9 DEF DeployAlone, Deploying, DeploySteps
  <2>2. network
    BY DEF Init
  <2> QED
    BY <2>1, <2>2 DEF DeployInv, Serving, Init
<1>11. KindInv /\ DirInv /\ OverlapInv
  BY <1>9 DEF Init, KindInv, EnvSteps, ApplySteps, Recreating, DirInv, OverlapInv
<1> QED
  BY <1>7, <1>8, <1>10, <1>11 DEF ConfigInv

\* The inductive invariant of an instance's configuration holds in every state.
THEOREM ConfigInvariant == Spec => []ConfigInv
<1>1. ConfigInv /\ [Next]_vars => ConfigInv'
  BY TypeStep, SecretStep, DeployInvStep, KindStep, DirStep, OverlapStep DEF ConfigInv, DeployInv
<1> QED
  BY ConfigInit, <1>1, PTL DEF Spec

\* Every variable of the model keeps its type.
THEOREM ConfigTypeCorrect == Spec => []TypeOK
<1>1. ConfigInv => TypeOK
  BY DEF ConfigInv
<1> QED
  BY ConfigInvariant, <1>1, PTL

\* GET /env never hands out a value that was set as protected, however often
\* the variable is overwritten or deleted in between.
THEOREM SecretsStayUnseen == Spec => []SecretsUnseen
<1>1. ConfigInv => SecretsUnseen
  BY DEF ConfigInv, SecretInv, SecretsUnseen
<1> QED
  BY ConfigInvariant, <1>1, PTL

\* After any number of deploys, one at a time and none of them disturbed, the
\* container the row calls 'running' is up and has the latest bundle.
THEOREM SidecarFollowsDeploys == Spec => []SidecarServesTarget
<1>1. ConfigInv => SidecarServesTarget
  BY DEF ConfigInv, DeployInv, Undisturbed, Serving, SidecarServesTarget
<1> QED
  BY ConfigInvariant, <1>1, PTL

\* Whatever fails and whatever runs beside a destroy, what is left of the instance
\* is of requests that were under way beside it, or of a failure of its own steps.
THEOREM DestroyForgets == Spec => []LeftoversAreLate
<1>1. ConfigInv => LeftoversAreLate
  BY DEF ConfigInv, OverlapInv, EnvLate, DirLate, FunctionsLate, LeftoversAreLate
<1> QED
  BY ConfigInvariant, <1>1, PTL

=============================================================================
