---------------------------- MODULE WalReplication ----------------------------
(***************************************************************************)
(* Encrypted WAL replication between nodes: node-rs/src/replication.rs and *)
(* the tables it uses in node-rs/src/db/mod.rs.                            *)
(*                                                                         *)
(* One instance of one primary node and its replicas.  Postgres archives   *)
(* segments into the db container; the single WAL task of the node         *)
(* alternates a process pass (copy out, encrypt, chain, record, enqueue,   *)
(* remove) with a ship pass (POST every pending row); each replica checks  *)
(* the chain, writes the blob and inserts a row.                           *)
(*                                                                         *)
(* A segment's name is its number: names sort in WAL order.  A ciphertext  *)
(* is the record of what it was made from, and the chained SHA-256 of a    *)
(* segment is the sequence of the ciphertexts hashed so far, so that equal *)
(* hashes mean equal histories.  Every await is a step boundary.           *)
(***************************************************************************)
EXTENDS Naturals, Sequences, FiniteSets

CONSTANTS
    Replicas,     \* endpoints that may be registered for the instance
    NSegments,    \* bound: segments Postgres archives
    MaxAttempts,  \* MAX_SHIPMENT_ATTEMPTS, 5 in the code
    MaxStray,     \* bound: requests still running that the primary gave up on
    MaxFaults     \* bound: faults of each kind in FaultKinds

\* A step of the WAL task fails, an exchange gets no answer, a step of the
\* replica's handler fails, the primary's process stops.
FaultKinds == {"pass", "net", "disk", "crash"}

ASSUME SegmentsAssumption == NSegments \in Nat
ASSUME AttemptsAssumption == MaxAttempts \in Nat
ASSUME StrayAssumption == MaxStray \in Nat
ASSUME FaultsAssumption == MaxFaults \in [FaultKinds -> Nat]

Segments == 1 .. NSegments

\* nonce(12) || ciphertext || tag(16): the AAD binds name and chain index, a
\* nonce is fresh for each encryption, and whole says whether the plaintext
\* copied out of the container was the complete segment.
Body == [name : Segments, idx : Nat, nonce : Nat, whole : BOOLEAN]
NoBody == [name |-> 0]
Hash == Seq(Body)

\* A row of wal_segments or of replica_segments.
Row == [name : Segments, hash : Hash, prev : Hash, idx : Nat]

\* A row of replica_shipments; "none" is no row.
Shipment == [status : {"none", "pending", "shipped", "failed"}, attempts : Nat]

\* A POST /replication/receive: its headers and body, how far the replica's
\* handler got, and whether the primary still waits for the answer.
Request == [to : Replicas, row : Row, body : Body,
            st : {"sent", "checked", "written", "accepted", "rejected"},
            awaited : BOOLEAN]

VARIABLES
    container,   \* the archive directory in the db container
    archived,    \* segments whose archive_command has returned
    archiving,   \* archive_command is copying segment archived + 1
    encrypted,   \* <data>/wal-encrypted: the blob of each segment
    sealed,      \* encryptions of each segment so far, for fresh nonces
    wal,         \* wal_segments of the instance, in insertion order
    registered,  \* instance_replicas
    shipments,   \* replica_shipments
    pc,          \* where the WAL task is
    todo,        \* files of this process pass still to do
    targets,     \* the replicas read at the start of the pass
    left,        \* of these, the ones the current segment is not enqueued for
    prev,        \* prev_hash_bytes
    idx,         \* next_chain_index
    plain,       \* what docker cp copied out: the segment was complete
    queue,       \* rows of get_pending_shipments this ship pass still has to do
    requests,    \* replication requests in flight
    store,       \* replica_segments, on each replica
    blobs,       \* <data>/replicas/<instance>, on each replica
    faults       \* faults so far, by kind

diskVars == <<container, archived, archiving>>
dbVars == <<wal, registered, shipments>>
passVars == <<todo, targets, left, prev, idx, plain>>
replicaVars == <<store, blobs>>
vars == <<diskVars, encrypted, sealed, dbVars, pc, passVars, queue, requests,
          replicaVars, faults>>

TypeOK ==
    /\ container \in [Segments -> {"absent", "partial", "whole"}]
    /\ archived \in 0 .. NSegments
    /\ archiving \in BOOLEAN
    /\ encrypted \in [Segments -> Body \cup {NoBody}]
    /\ sealed \in [Segments -> Nat]
    /\ wal \in Seq(Row)
    /\ registered \in SUBSET Replicas
    /\ shipments \in [Replicas \X Segments -> Shipment]
    /\ pc \in {"idle", "copy", "seal", "record", "enqueue", "ship", "await"}
    /\ todo \in SUBSET Segments
    /\ targets \in SUBSET Replicas
    /\ left \in SUBSET Replicas
    /\ prev \in Hash
    /\ idx \in Nat
    /\ plain \in BOOLEAN
    /\ queue \in SUBSET (Replicas \X Segments)
    /\ requests \in SUBSET Request
    /\ store \in [Replicas -> SUBSET Row]
    /\ blobs \in [Replicas -> [Segments -> Body \cup {NoBody}]]
    /\ faults \in [FaultKinds -> Nat]

Init ==
    /\ container = [s \in Segments |-> "absent"]
    /\ archived = 0
    /\ archiving = FALSE
    /\ encrypted = [s \in Segments |-> NoBody]
    /\ sealed = [s \in Segments |-> 0]
    /\ wal = << >>
    /\ registered = {}
    /\ shipments = [x \in Replicas \X Segments |-> [status |-> "none", attempts |-> 0]]
    /\ pc = "idle"
    /\ todo = {} /\ targets = {} /\ left = {}
    /\ prev = << >> /\ idx = 0
    /\ plain = FALSE
    /\ queue = {}
    /\ requests = {}
    /\ store = [r \in Replicas |-> {}]
    /\ blobs = [r \in Replicas |-> [s \in Segments |-> NoBody]]
    /\ faults = [k \in FaultKinds |-> 0]

-----------------------------------------------------------------------------
(* Reading the tables. *)

\* get_processed_wal_segments
Processed == {wal[i].name : i \in DOMAIN wal}

\* get_latest_wal_hash; "" when there is no row.  Rows are inserted with
\* growing chain_index, so the largest one is the last one.
LatestHash == IF wal = << >> THEN << >> ELSE wal[Len(wal)].hash

\* Mutated form: no row counts as index -1 and nothing is added.
NextIndexUnadjusted == IF wal = << >> THEN 0 - 1 ELSE wal[Len(wal)].idx

\* get_latest_wal_chain_index, plus one
NextIndex == IF wal = << >> THEN 0 ELSE wal[Len(wal)].idx + 1

\* get_wal_segment
RowOf(s) == wal[CHOOSE i \in DOMAIN wal : wal[i].name = s]

\* sha256(prev || body)
ChainHash(h, b) == Append(h, b)

\* latest_replica_hash
LatestReplicaRow(r) ==
    CHOOSE row \in store[r] : \A other \in store[r] : other.idx <= row.idx

\* wal_files.sort(): the pass takes file names in order.
First(S) == CHOOSE s \in S : \A t \in S : s <= t

\* ORDER BY id: shipments of a replica were enqueued in chain order.
FirstShipment(Q) ==
    CHOOSE x \in Q : \A y \in Q : RowOf(x[2]).idx <= RowOf(y[2]).idx

Fault(kind) ==
    /\ faults[kind] < MaxFaults[kind]
    /\ faults' = [faults EXCEPT ![kind] = @ + 1]

-----------------------------------------------------------------------------
(* The environment of the WAL task. *)

\* archive_command: test ! -f dst && cp src dst.  The name is visible to ls
\* from the moment cp creates it.
ArchiveBegin ==
    /\ ~archiving /\ archived < NSegments
    /\ container[archived + 1] = "absent"
    /\ archiving' = TRUE
    /\ container' = [container EXCEPT ![archived + 1] = "partial"]
    /\ UNCHANGED <<archived, encrypted, sealed, dbVars, pc, passVars, queue, requests,
                   replicaVars, faults>>

\* cp returns; a file removed meanwhile was filled through its open inode and
\* is gone.
ArchiveEnd ==
    /\ archiving
    /\ archiving' = FALSE
    /\ archived' = archived + 1
    /\ container' = [container EXCEPT ![archived + 1] =
                        IF @ = "partial" THEN "whole" ELSE @]
    /\ UNCHANGED <<encrypted, sealed, dbVars, pc, passVars, queue, requests,
                   replicaVars, faults>>

\* add_replica_handler
AddReplica(r) ==
    /\ r \notin registered
    /\ registered' = registered \cup {r}
    /\ UNCHANGED <<diskVars, encrypted, sealed, wal, shipments, pc, passVars, queue,
                   requests, replicaVars, faults>>

-----------------------------------------------------------------------------
(* The process pass: process_instance_wal. *)

\* Leaving the pass, normally or by an error: ship_pending_segments follows
\* and reads the pending rows.
BeginShipping ==
    /\ pc' = "ship"
    /\ queue' = {x \in Replicas \X Segments : shipments'[x].status = "pending"}
    /\ todo' = {} /\ targets' = {} /\ left' = {}
    /\ prev' = << >> /\ idx' = 0 /\ plain' = FALSE

Listed == {s \in Segments : container[s] # "absent"}

\* Mutated form: segments already processed are not dropped.
AllListed == Listed

\* The archived files that have no wal_segments row yet.
NewFiles == Listed \ Processed

\* ls, the three reads of the database and the replica list.
BeginPass ==
    /\ pc = "idle"
    /\ IF NewFiles = {}
       THEN /\ UNCHANGED shipments
            /\ BeginShipping
       ELSE /\ pc' = "copy"
            /\ todo' = NewFiles
            /\ targets' = registered
            /\ prev' = LatestHash
            /\ idx' = NextIndex
            /\ UNCHANGED <<left, plain, queue, shipments>>
    /\ UNCHANGED <<diskVars, encrypted, sealed, wal, registered, requests, replicaVars,
                   faults>>

\* docker cp and fs::read of the next file.
CopyOut ==
    /\ pc = "copy"
    /\ plain' = (container[First(todo)] = "whole")
    /\ pc' = "seal"
    /\ UNCHANGED <<diskVars, encrypted, sealed, dbVars, todo, targets, left, prev, idx,
                   queue, requests, replicaVars, faults>>

\* docker cp exits non-zero: the loop continues with the next file.
SkipFile ==
    /\ pc = "copy"
    /\ Fault("pass")
    /\ IF todo \ {First(todo)} = {}
       THEN /\ UNCHANGED shipments
            /\ BeginShipping
       ELSE /\ todo' = todo \ {First(todo)}
            /\ UNCHANGED <<shipments, pc, targets, left, prev, idx, plain, queue>>
    /\ UNCHANGED <<diskVars, encrypted, sealed, wal, registered, requests, replicaVars>>

\* What a write of <segment>.enc that does not finish may leave.
MaybeTorn ==
    \/ UNCHANGED encrypted
    \/ pc = "seal" /\ encrypted' = [encrypted EXCEPT ![First(todo)] = NoBody]

\* ls, docker, the read or the write of a file returns an error: the pass ends.
AbortPass ==
    /\ pc \in {"idle", "copy", "seal"}
    /\ Fault("pass")
    /\ MaybeTorn
    /\ UNCHANGED shipments
    /\ BeginShipping
    /\ UNCHANGED <<diskVars, sealed, wal, registered, requests, replicaVars>>

\* The ciphertext of the current file: fresh nonce, AAD instance|name|index.
NewBody ==
    [name |-> First(todo), idx |-> idx, nonce |-> sealed[First(todo)], whole |-> plain]

\* Encrypt and write <segment>.enc.
Seal ==
    /\ pc = "seal"
    /\ encrypted' = [encrypted EXCEPT ![First(todo)] = NewBody]
    /\ sealed' = [sealed EXCEPT ![First(todo)] = @ + 1]
    /\ pc' = "record"
    /\ UNCHANGED <<diskVars, dbVars, passVars, queue, requests, replicaVars, faults>>

\* The wal_segments row of the file just written.
NewRow ==
    LET s == First(todo) IN
    [name |-> s, hash |-> ChainHash(prev, encrypted[s]), prev |-> prev, idx |-> idx]

\* insert_wal_segment: INSERT OR IGNORE on (instance, name).
Record ==
    /\ pc = "record"
    /\ wal' = IF First(todo) \in Processed THEN wal ELSE Append(wal, NewRow)
    /\ left' = targets
    /\ pc' = "enqueue"
    /\ UNCHANGED <<diskVars, encrypted, sealed, registered, shipments, todo, targets, prev,
                   idx, plain, queue, requests, replicaVars, faults>>

\* enqueue_replica_shipment for one replica: INSERT OR IGNORE.
Enqueue(r) ==
    LET x == <<r, First(todo)>> IN
    /\ pc = "enqueue" /\ r \in left
    /\ left' = left \ {r}
    /\ shipments' = IF shipments[x].status = "none"
                    THEN [shipments EXCEPT ![x] = [status |-> "pending", attempts |-> 0]]
                    ELSE shipments
    /\ UNCHANGED <<diskVars, encrypted, sealed, wal, registered, pc, todo, targets, prev,
                   idx, plain, queue, requests, replicaVars, faults>>

\* Mutated form: the pass keeps the hash it started from.
UnadvancedHash == prev

\* prev_hash_bytes after the current file.
AdvancedHash == ChainHash(prev, encrypted[First(todo)])

\* Mutated form: the shipments are not waited for.
NotWaitedFor == TRUE

\* The loop over the replicas is through.
AllEnqueued == left = {}

\* Advance the chain state, remove the plaintext in the container (the result
\* of rm is ignored) and go on to the next file.
Clean ==
    LET s == First(todo) IN
    /\ pc = "enqueue" /\ AllEnqueued
    /\ \/ container' = [container EXCEPT ![s] = "absent"] /\ UNCHANGED faults
       \/ UNCHANGED container /\ Fault("pass")
    /\ UNCHANGED shipments
    /\ IF todo \ {s} = {}
       THEN BeginShipping
       ELSE /\ pc' = "copy"
            /\ todo' = todo \ {s}
            /\ prev' = AdvancedHash
            /\ idx' = idx + 1
            /\ UNCHANGED <<targets, left, plain, queue>>
    /\ UNCHANGED <<archived, archiving, encrypted, sealed, wal, registered, requests,
                   replicaVars>>

-----------------------------------------------------------------------------
(* The ship pass: ship_pending_segments. *)

EndShipping ==
    /\ pc = "ship" /\ queue = {}
    /\ pc' = "idle"
    /\ UNCHANGED <<diskVars, encrypted, sealed, dbVars, passVars, queue, requests,
                   replicaVars, faults>>

\* mark_shipment_failed, on a row whose attempts are used up.
GiveUp ==
    LET x == FirstShipment(queue) IN
    /\ pc = "ship" /\ queue # {}
    /\ shipments[x].attempts >= MaxAttempts
    /\ shipments' = [shipments EXCEPT ![x].status = "failed"]
    /\ queue' = queue \ {x}
    /\ UNCHANGED <<diskVars, encrypted, sealed, wal, registered, pc, passVars, requests,
                   replicaVars, faults>>

\* Read the row and the blob and POST them.
Send ==
    LET x == FirstShipment(queue) IN
    /\ pc = "ship" /\ queue # {}
    /\ shipments[x].attempts < MaxAttempts
    /\ requests' = requests \cup
         {[to |-> x[1], row |-> RowOf(x[2]), body |-> encrypted[x[2]],
           st |-> "sent", awaited |-> TRUE]}
    /\ pc' = "await"
    /\ UNCHANGED <<diskVars, encrypted, sealed, dbVars, passVars, queue, replicaVars,
                   faults>>

\* The blob of the next row cannot be read: one more attempt.
ReadFails ==
    LET x == FirstShipment(queue) IN
    /\ pc = "ship" /\ queue # {}
    /\ shipments[x].attempts < MaxAttempts
    /\ Fault("pass")
    /\ shipments' = [shipments EXCEPT ![x].attempts = @ + 1]
    /\ queue' = queue \ {x}
    /\ UNCHANGED <<diskVars, encrypted, sealed, wal, registered, pc, passVars, requests,
                   replicaVars>>

\* Mutated form: any answer is taken for a success.
AnyAnswerShips(sh, st) == [sh EXCEPT !.status = "shipped"]

\* Mutated form: a rejection does not use up an attempt.
RejectionIsFree(sh, st) == IF st = "accepted" THEN [sh EXCEPT !.status = "shipped"] ELSE sh

\* What an answer does to the shipment's row.
AfterAnswer(sh, st) ==
    IF st = "accepted" THEN [sh EXCEPT !.status = "shipped"]
                       ELSE [sh EXCEPT !.attempts = @ + 1]

\* The answer arrives: mark_shipment_shipped on 201, else one more attempt.
\* Either way the loop goes on to the next row.
Answered(q) ==
    LET x == <<q.to, q.row.name>> IN
    /\ pc = "await" /\ q \in requests /\ q.awaited
    /\ q.st \in {"accepted", "rejected"}
    /\ shipments' = [shipments EXCEPT ![x] = AfterAnswer(@, q.st)]
    /\ requests' = requests \ {q}
    /\ queue' = queue \ {x}
    /\ pc' = "ship"
    /\ UNCHANGED <<diskVars, encrypted, sealed, wal, registered, passVars, replicaVars,
                   faults>>

Strays == {q \in requests : ~q.awaited}

\* What becomes of a request nobody waits for any more: the handler is
\* dropped with its connection, or runs on.
Orphan(q) ==
    \/ requests' = requests \ {q}
    \/ /\ q.st \in {"sent", "checked", "written"}
       /\ Cardinality(Strays) < MaxStray
       /\ requests' = (requests \ {q}) \cup {[q EXCEPT !.awaited = FALSE]}

\* A connection error or the 30 s timeout, wherever the handler is by then;
\* the answer may be what was lost.
TimeOut(q) ==
    LET x == <<q.to, q.row.name>> IN
    /\ pc = "await" /\ q \in requests /\ q.awaited
    /\ Fault("net")
    /\ Orphan(q)
    /\ shipments' = [shipments EXCEPT ![x].attempts = @ + 1]
    /\ queue' = queue \ {x}
    /\ pc' = "ship"
    /\ UNCHANGED <<diskVars, encrypted, sealed, wal, registered, passVars, replicaVars>>

-----------------------------------------------------------------------------
(* The replica: receive_segment. *)

\* Mutated form: the link to the latest row is not checked.
AcceptableUnlinked(q) == q.row.hash = ChainHash(q.row.prev, q.body)

\* Mutated form: any later index is taken for the next one.
AcceptableWithGap(q) ==
    /\ q.row.hash = ChainHash(q.row.prev, q.body)
    /\ store[q.to] # {} => q.row.idx > LatestReplicaRow(q.to).idx

\* The chain hash matches the body, and the segment extends the latest row,
\* if there is one.
Acceptable(q) ==
    /\ q.row.hash = ChainHash(q.row.prev, q.body)
    /\ store[q.to] # {} =>
         /\ q.row.prev = LatestReplicaRow(q.to).hash
         /\ q.row.idx = LatestReplicaRow(q.to).idx + 1

\* Everything up to the first await.
Check(q) ==
    /\ q \in requests /\ q.st = "sent"
    /\ requests' = (requests \ {q}) \cup
         {[q EXCEPT !.st = IF Acceptable(q) THEN "checked" ELSE "rejected"]}
    /\ UNCHANGED <<diskVars, encrypted, sealed, dbVars, pc, passVars, queue, replicaVars,
                   faults>>

\* fs::write of the blob.
WriteBlob(q) ==
    /\ q \in requests /\ q.st = "checked"
    /\ blobs' = [blobs EXCEPT ![q.to][q.row.name] = q.body]
    /\ requests' = (requests \ {q}) \cup {[q EXCEPT !.st = "written"]}
    /\ UNCHANGED <<diskVars, encrypted, sealed, dbVars, pc, passVars, queue, store, faults>>

\* Mutated form: the replica numbers the rows it receives itself.
OwnNumbering(q) == [q.row EXCEPT !.idx = Cardinality(store[q.to])]

\* The replica_segments row: the headers as they came.
ReplicaRow(q) == q.row

\* Mutated form: the row does not wait for the blob.
RowReadyEarly(q) == q.st \in {"checked", "written"}

RowReady(q) == q.st = "written"

\* insert_replica_segment: INSERT OR IGNORE on (instance, name).
InsertRow(q) ==
    /\ q \in requests /\ RowReady(q)
    /\ store' = IF \E row \in store[q.to] : row.name = q.row.name
                THEN store
                ELSE [store EXCEPT ![q.to] = @ \cup {ReplicaRow(q)}]
    /\ requests' = (requests \ {q}) \cup {[q EXCEPT !.st = "accepted"]}
    /\ UNCHANGED <<diskVars, encrypted, sealed, dbVars, pc, passVars, queue, blobs, faults>>

\* The write of the blob or the insert fails; a write that fails may leave the
\* file torn.
HandlerFails(q) ==
    /\ q \in requests /\ q.st \in {"checked", "written"}
    /\ Fault("disk")
    /\ \/ UNCHANGED blobs
       \/ q.st = "checked" /\ blobs' = [blobs EXCEPT ![q.to][q.row.name] = NoBody]
    /\ requests' = (requests \ {q}) \cup {[q EXCEPT !.st = "rejected"]}
    /\ UNCHANGED <<diskVars, encrypted, sealed, dbVars, pc, passVars, queue, store>>

\* The handler of a stray request returns to nobody, or is dropped.
Forget(q) ==
    /\ q \in Strays
    /\ requests' = requests \ {q}
    /\ UNCHANGED <<diskVars, encrypted, sealed, dbVars, pc, passVars, queue, replicaVars,
                   faults>>

-----------------------------------------------------------------------------
\* The primary's process stops and starts again: the files and the database
\* stay, the pass is gone, a half-written blob is no blob.
Crash ==
    /\ pc # "idle"
    /\ Fault("crash")
    /\ pc' = "idle"
    /\ todo' = {} /\ targets' = {} /\ left' = {}
    /\ prev' = << >> /\ idx' = 0 /\ plain' = FALSE
    /\ queue' = {}
    /\ MaybeTorn
    /\ IF pc = "await"
       THEN \E q \in requests : q.awaited /\ Orphan(q)
       ELSE UNCHANGED requests
    /\ UNCHANGED <<diskVars, sealed, dbVars, replicaVars>>

ProcessPass ==
    \/ BeginPass \/ CopyOut \/ Seal \/ Record \/ Clean
    \/ \E r \in Replicas : Enqueue(r)

ShipPass ==
    \/ EndShipping \/ GiveUp \/ Send
    \/ \E q \in requests : Answered(q)

Handler == \E q \in requests : Check(q) \/ WriteBlob(q) \/ InsertRow(q)

Environment ==
    \/ ArchiveBegin \/ ArchiveEnd
    \/ \E r \in Replicas : AddReplica(r)
    \/ SkipFile \/ AbortPass \/ ReadFails \/ Crash
    \/ \E q \in requests : TimeOut(q) \/ HandlerFails(q) \/ Forget(q)

Next == ProcessPass \/ ShipPass \/ Handler \/ Environment

Spec == Init /\ [][Next]_vars

\* The node's WAL task loops for ever over an interval timer, and a handler
\* that axum has started is polled to its end; faults owe nothing.
FairSpec == Spec /\ WF_vars(ProcessPass) /\ WF_vars(ShipPass) /\ WF_vars(Handler)

-----------------------------------------------------------------------------
(* Properties. *)

\* wal_segments is a hash chain in insertion order: the rows are numbered
\* from 0 without a gap and each links to the hash of the one before.
PrimaryChain ==
    \A i \in DOMAIN wal :
        /\ wal[i].idx = i - 1
        /\ wal[i].prev = IF i = 1 THEN << >> ELSE wal[i - 1].hash

\* The blob on disk of a recorded segment is the one its row's hash covers,
\* and it opens under that row's name and index (the AAD), across crashes,
\* aborted passes and fresh encryptions of the same file.
BlobMatchesRow ==
    \A i \in DOMAIN wal :
        LET blob == encrypted[wal[i].name] IN
        /\ blob \in Body
        /\ blob.name = wal[i].name /\ blob.idx = wal[i].idx
        /\ wal[i].hash = ChainHash(wal[i].prev, blob)

\* What a replica holds is what the primary recorded: every row of
\* replica_segments is a row of wal_segments.
ReplicaAgrees ==
    \A r \in Replicas : \A row \in store[r] : \E i \in DOMAIN wal : wal[i] = row

\* The blob on a replica's disk is the one its row's hash covers, so that what
\* was acknowledged can be restored.
ReplicaBlobMatches ==
    \A r \in Replicas : \A row \in store[r] :
        LET blob == blobs[r][row.name] IN
        blob \in Body /\ row.hash = ChainHash(row.prev, blob)

Held(r, s) == \E row \in store[r] : row.name = s

\* A shipment is marked shipped only when the replica has the segment.
ShippedIsHeld ==
    \A r \in Replicas, s \in Segments :
        shipments[<<r, s>>].status = "shipped" => Held(r, s)

\* Replica rows form one unbroken run of the chain: nothing is missing
\* between two segments a replica holds.  (With MaxStray = 0: a handler that
\* outlives the primary's wait and the next one pass the check together.)
ReplicaContiguous ==
    \A r \in Replicas : \A a, b \in store[r] :
        a.idx < b.idx => \E c \in store[r] : c.idx = a.idx + 1 /\ c.prev = a.hash

\* Once a replica has been sent a segment, every later recorded segment is
\* enqueued for it too, through aborted passes and skipped files.  A crash between
\* the row and its shipments leaves a gap that no later pass closes.
EnqueuedWithoutGap ==
    pc = "idle" /\ faults["crash"] = 0 =>
        \A r \in Replicas : \A i, j \in DOMAIN wal :
            i < j /\ shipments[<<r, wal[i].name>>].status # "none"
                => shipments[<<r, wal[j].name>>].status # "none"

\* The segment after the last one a replica has was given up, and no handler
\* there is left that brings it or has passed its check.
Stuck(r) ==
    /\ store[r] # {}
    /\ \E i \in DOMAIN wal :
          /\ i > 1 /\ wal[i - 1] = LatestReplicaRow(r)
          /\ shipments[<<r, wal[i].name>>].status = "failed"
          /\ \A q \in requests : q.to = r => q.row # wal[i] /\ q.st \notin {"checked", "written"}

\* Giving up is final: mark_shipment_failed on the segment a replica needs next
\* ends the replication to it.  Later segments are still sent and all of them
\* are refused, and nothing ships the missing one again.
StuckForGood == [][\A r \in Replicas : Stuck(r) => Stuck(r)' /\ store'[r] = store[r]]_vars

\* WAL replication implements the replicated chain of ReplicatedChain.
Chain == INSTANCE ReplicatedChain WITH log <- wal, copies <- store

RefinesChain == Chain!Spec

\* A replica that holds a segment receives every segment archived from then
\* on, as long as the primary does not crash and fewer attempts fail than the
\* retry cap allows.
StartedReplicaCatchesUp ==
    \A r \in Replicas, s \in Segments :
        (/\ pc = "idle" /\ store[r] # {}
         /\ container[s] = "whole" /\ s \notin Processed)
            ~> \/ Held(r, s) \/ faults["crash"] > 0
               \/ faults["pass"] + faults["net"] + faults["disk"] >= MaxAttempts

\* Every shipment is settled: shipped, or failed after its attempts.
ShipmentsSettle ==
    \A x \in Replicas \X Segments :
        shipments[x].status = "pending" ~> shipments[x].status \in {"shipped", "failed"}

=============================================================================
