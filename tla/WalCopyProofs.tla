----------------------------- MODULE WalCopyProofs -----------------------------
(***************************************************************************)
(* Proofs about what the replicas of WalReplication get: every segment from*)
(* their first one on is enqueued, and, when no handler outlives the       *)
(* primary's wait for it (MaxStray = 0), copied without a gap and with its *)
(* blob, so that WalReplication implements ReplicatedChain.                *)
(***************************************************************************)
EXTENDS WalReplicationProofs, FiniteSetTheorems

-----------------------------------------------------------------------------
(* Invariants, beside IInv. *)

Enqueued(r, i) == shipments[<<r, wal[i].name>>].status # "none"

\* What is queued or on its way is a row of replica_shipments.
QueueInv ==
    /\ \A x \in queue : shipments[x].status # "none"
    /\ \A q \in requests : shipments[<<q.to, q.row.name>>].status # "none"

InPass == pc \in {"copy", "seal", "record", "enqueue"}

\* Who has been sent a segment is registered, and is among the targets of the
\* pass under way.
TargetsInv ==
    /\ \A r \in Replicas, s \in Segments :
          shipments[<<r, s>>].status # "none" => r \in registered /\ (InPass => r \in targets)
    /\ InPass => targets \subseteq registered
    /\ pc = "enqueue" => left \subseteq targets

\* The only gap is the one the loop over the replicas is about to close.
EnqueueInv ==
    faults["crash"] = 0 =>
        \A r \in Replicas : \A i, j \in DOMAIN wal :
            i < j /\ Enqueued(r, i) =>
                Enqueued(r, j) \/ (pc = "enqueue" /\ j = Len(wal) /\ r \in left)

\* There is one request, the one the ship pass waits for.
OneRequest ==
    /\ \A q \in requests : q.awaited
    /\ pc # "await" => requests = {}
    /\ \A p, q \in requests : p = q

\* What a handler has checked still holds when it acts on it.
CheckedInv ==
    \A q \in requests :
        /\ q.st \in {"checked", "written"} => Acceptable(q)
        /\ q.st = "written" => blobs[q.to][q.row.name] = q.body

\* The blob beside a replica's row is the primary's.
CopiedBlobs ==
    \A r \in Replicas : \A row \in store[r] : blobs[r][row.name] = encrypted[row.name]

\* What the ship pass has to do is pending, and the one request it waits for is
\* part of it, whatever other handlers are still running.
AwaitInv ==
    /\ \A x \in queue : shipments[x].status = "pending"
    /\ \A q \in requests : q.awaited => pc = "await" /\ <<q.to, q.row.name>> \in queue
    /\ \A p, q \in requests : p.awaited /\ q.awaited => p = q

SerialInv == OneRequest /\ CheckedInv /\ CopiedBlobs /\ ReplicaContiguous

-----------------------------------------------------------------------------
(* The rows of a replica. *)

\* They are rows of the chain, numbered by their place in it.
LEMMA StoredRow ==
    ASSUME IInv, NEW r \in Replicas, NEW row \in store[r]
    PROVE  \E i \in DOMAIN wal : wal[i] = row /\ row.idx = i - 1
<1>1. PICK i \in DOMAIN wal : wal[i] = row
  BY DEF IInv, ReplicaAgrees
<1>2. wal[i].idx = i - 1
  BY DEF IInv, PrimaryChain
<1> QED
  BY <1>1, <1>2

LEMMA SameIndex ==
    ASSUME IInv, NEW r \in Replicas, NEW a \in store[r], NEW b \in store[r], a.idx = b.idx
    PROVE  a = b
<1>1. PICK i \in DOMAIN wal : wal[i] = a /\ a.idx = i - 1
  BY StoredRow
<1>2. PICK j \in DOMAIN wal : wal[j] = b /\ b.idx = j - 1
  BY StoredRow
<1>3. i \in Nat /\ j \in Nat
  BY DEF IInv, TypeOK
<1>4. i - 1 = j - 1
  BY <1>1, <1>2
<1>5. i = j
  BY <1>3, <1>4
<1> QED
  BY <1>1, <1>2, <1>5

\* latest_replica_hash finds the row with the largest index.
LEMMA LatestRow ==
    ASSUME IInv, NEW r \in Replicas, store[r] # {}
    PROVE  /\ LatestReplicaRow(r) \in store[r]
           /\ \A other \in store[r] : other.idx <= LatestReplicaRow(r).idx
<1> DEFINE Behind == {Len(wal) - row.idx : row \in store[r]}
<1>1. \A row \in store[r] : row.idx \in Nat /\ Len(wal) - row.idx \in Nat
  <2> TAKE row \in store[r]
  <2>1. PICK i \in DOMAIN wal : wal[i] = row /\ row.idx = i - 1
    BY StoredRow
  <2>2. Len(wal) \in Nat /\ i \in 1 .. Len(wal)
    BY DEF IInv, TypeOK
  <2> QED
    BY <2>1, <2>2
<1>2. \E n \in Behind : \A m \in Behind : n <= m
  BY <1>1, LeastNat
<1>3. Len(wal) \in Nat
  BY DEF IInv, TypeOK
<1>4. PICK row \in store[r] :
          \A other \in store[r] : Len(wal) - row.idx <= Len(wal) - other.idx
  BY <1>2
<1>5. \A other \in store[r] : other.idx <= row.idx
  BY <1>1, <1>3, <1>4
<1> QED
  BY <1>5 DEF LatestReplicaRow

\* A request that extends the latest row brings a row the replica has not.
LEMMA AcceptableIsNew ==
    ASSUME IInv, NEW q \in requests, Acceptable(q)
    PROVE  ~Held(q.to, q.row.name)
<1> SUFFICES ASSUME NEW row \in store[q.to], row.name = q.row.name
             PROVE  FALSE
  BY DEF Held
<1>1. q.to \in Replicas
  BY DEF IInv, TypeOK, Request
<1>2. PICK i \in DOMAIN wal : wal[i] = q.row
  BY DEF IInv, RequestInv, RequestOk
<1>3. PICK j \in DOMAIN wal : wal[j] = row /\ row.idx = j - 1
  BY <1>1, StoredRow
<1>4. row = q.row
  BY <1>2, <1>3 DEF IInv, NamesUnique
<1>5. q.row.idx = LatestReplicaRow(q.to).idx + 1
  BY DEF Acceptable
<1>6. q.row.idx <= LatestReplicaRow(q.to).idx
  BY <1>1, <1>4, LatestRow
<1>7. LatestReplicaRow(q.to).idx \in Nat
  <2>1. LatestReplicaRow(q.to) \in Row
    BY <1>1, LatestRow DEF IInv, TypeOK
  <2> QED
    BY <2>1 DEF Row
<1> QED
  BY <1>5, <1>6, <1>7

\* The chain from the latest row to a row that extends it.
LEMMA ExtendsLatest ==
    ASSUME IInv, NEW q \in requests, Acceptable(q), store[q.to] # {}
    PROVE  \E i \in DOMAIN wal : /\ wal[i] = q.row /\ i > 1
                                 /\ wal[i - 1] = LatestReplicaRow(q.to)
<1>1. q.to \in Replicas
  BY DEF IInv, TypeOK, Request
<1>2. PICK i \in DOMAIN wal : wal[i] = q.row
  BY DEF IInv, RequestInv, RequestOk
<1>3. PICK j \in DOMAIN wal : /\ wal[j] = LatestReplicaRow(q.to)
                              /\ LatestReplicaRow(q.to).idx = j - 1
  BY <1>1, LatestRow, StoredRow
<1>4. wal[i].idx = i - 1
  BY DEF IInv, PrimaryChain
<1>5. q.row.idx = LatestReplicaRow(q.to).idx + 1
  BY DEF Acceptable
<1>6. i \in Nat /\ j \in Nat /\ j >= 1
  BY DEF IInv, TypeOK
<1>7. j = i - 1
  BY <1>2, <1>3, <1>4, <1>5, <1>6
<1> QED
  BY <1>2, <1>3, <1>6, <1>7
-----------------------------------------------------------------------------
(* Requests and shipments. *)

\* Requests are sent for shipments of the queue, and change in their progress
\* only.
LEMMA RequestOrigin ==
    ASSUME IInv, [Next]_vars, NEW q \in requests'
    PROVE  \/ \E p \in requests : p.to = q.to /\ p.row = q.row /\ p.body = q.body
           \/ Send /\ <<q.to, q.row.name>> \in queue
<1> USE DEF diskVars, dbVars, passVars, replicaVars
<1>1. CASE Send
  <2> DEFINE x == FirstShipment(queue)
  <2>1. x \in queue /\ x[2] \in Processed
    BY <1>1, FirstShipmentIn DEF Send, IInv, ShipInv
  <2>2. RowOf(x[2]).name = x[2]
    BY <2>1, RowOfIn
  <2>3. x = <<x[1], x[2]>>
    BY <2>1 DEF IInv, TypeOK
  <2>4. requests' = requests \cup
          {[to |-> x[1], row |-> RowOf(x[2]), body |-> encrypted[x[2]],
            st |-> "sent", awaited |-> TRUE]}
    BY <1>1 DEF Send
  <2> HIDE DEF x
  <2> QED
    BY <1>1, <2>1, <2>2, <2>3, <2>4
<1>2. CASE \E p \in requests : Orphan(p)
  <2>1. PICK p \in requests : Orphan(p)
    BY <1>2
  <2>2. p \in Request
    BY DEF IInv, TypeOK
  <2> QED
    BY <2>1, <2>2 DEF Orphan, Request
<1>3. CASE \E p \in requests : Check(p) \/ WriteBlob(p) \/ InsertRow(p) \/ HandlerFails(p)
  <2>1. PICK p \in requests : Check(p) \/ WriteBlob(p) \/ InsertRow(p) \/ HandlerFails(p)
    BY <1>3
  <2>2. PICK st : requests' = (requests \ {p}) \cup {[p EXCEPT !.st = st]}
    BY <2>1 DEF Check, WriteBlob, InsertRow, HandlerFails
  <2>3. p \in Request
    BY DEF IInv, TypeOK
  <2> QED
    BY <2>2, <2>3 DEF Request
<1>4. CASE requests' \subseteq requests
  BY <1>4
<1> QED
  BY <1>1, <1>2, <1>3, <1>4
     DEF vars, Next, ProcessPass, ShipPass, Handler, Environment, ArchiveBegin,
         ArchiveEnd, AddReplica, BeginPass, CopyOut, SkipFile, AbortPass, Seal, Record,
         Enqueue, Clean, EndShipping, GiveUp, Answered, TimeOut, ReadFails, Forget,
         Strays, Crash

\* A shipment comes to be by being enqueued, and stays.
LEMMA StatusStep ==
    ASSUME IInv, QueueInv, [Next]_vars, NEW r \in Replicas, NEW s \in Segments
    PROVE  /\ shipments[<<r, s>>].status # "none" => shipments'[<<r, s>>].status # "none"
           /\ shipments'[<<r, s>>].status # "none" =>
                 shipments[<<r, s>>].status # "none" \/ (Enqueue(r) /\ s = First(todo))
<1> USE DEF diskVars, dbVars, passVars, replicaVars
<1>0. shipments \in [Replicas \X Segments -> Shipment]
  BY DEF IInv, TypeOK
<1>1. CASE \E u \in Replicas : Enqueue(u)
  BY <1>0, <1>1 DEF Enqueue, Shipment
<1>2. CASE \E q \in requests : Answered(q)
  <2>1. PICK q \in requests : Answered(q)
    BY <1>2
  <2>2. CASE <<q.to, q.row.name>> = <<r, s>>
    BY <1>0, <2>1, <2>2 DEF Answered, AfterAnswer, QueueInv, Shipment
  <2>3. CASE <<q.to, q.row.name>> # <<r, s>>
    BY <1>0, <2>1, <2>3 DEF Answered
  <2> QED
    BY <2>2, <2>3
<1>3. CASE GiveUp
  <2>1. FirstShipment(queue) \in queue
    BY <1>3, FirstShipmentIn DEF GiveUp, IInv
  <2> QED
    BY <1>0, <1>3, <2>1 DEF GiveUp, QueueInv, Shipment
<1>4. CASE ReadFails \/ \E q \in requests : TimeOut(q)
  <2>1. PICK x : shipments' = [shipments EXCEPT ![x].attempts = @ + 1]
    BY <1>4 DEF ReadFails, TimeOut
  <2> QED
    BY <1>0, <2>1 DEF Shipment
<1>5. CASE shipments' = shipments
  BY <1>5
<1> QED
  BY <1>1, <1>2, <1>3, <1>4, <1>5
     DEF vars, Next, ProcessPass, ShipPass, Handler, Environment, ArchiveBegin,
         ArchiveEnd, AddReplica, BeginPass, CopyOut, SkipFile, AbortPass, Seal, Record,
         Clean, EndShipping, Send, Check, WriteBlob, InsertRow, HandlerFails, Forget, Crash

LEMMA QueueStep ==
    ASSUME IInv, QueueInv, [Next]_vars
    PROVE  QueueInv'
<1> USE DEF diskVars, dbVars, passVars, replicaVars
<1>1. ASSUME NEW x \in queue, shipments[x].status # "none"
      PROVE  shipments'[x].status # "none"
  <2>1. x = <<x[1], x[2]>> /\ x[1] \in Replicas /\ x[2] \in Segments
    BY DEF IInv, TypeOK
  <2> QED
    BY <1>1, <2>1, StatusStep
<1>2. ASSUME NEW x \in queue'
      PROVE  shipments'[x].status # "none"
  <2>1. CASE queue' \subseteq queue
    BY <1>1, <1>2, <2>1 DEF QueueInv
  <2>2. CASE BeginShipping
    BY <1>2, <2>2 DEF BeginShipping
  <2> QED
    BY <2>1, <2>2
       DEF vars, Next, ProcessPass, ShipPass, Handler, Environment, ArchiveBegin, ArchiveEnd,
           AddReplica, BeginPass, CopyOut, SkipFile, AbortPass, Seal, Record, Enqueue, Clean,
           EndShipping, GiveUp, Send, Answered, TimeOut, Check, WriteBlob, InsertRow,
           ReadFails, HandlerFails, Forget, Crash
<1>3. ASSUME NEW q \in requests'
      PROVE  shipments'[<<q.to, q.row.name>>].status # "none"
  <2>1. CASE \E p \in requests : p.to = q.to /\ p.row = q.row
    <3>1. PICK p \in requests : p.to = q.to /\ p.row = q.row
      BY <2>1
    <3>2. p.to \in Replicas /\ p.row.name \in Segments
      BY DEF IInv, TypeOK, Request, Row
    <3> QED
      BY <3>1, <3>2, StatusStep DEF QueueInv
  <2>2. CASE <<q.to, q.row.name>> \in queue
    BY <1>1, <2>2 DEF QueueInv
  <2> QED
    BY <2>1, <2>2, RequestOrigin
<1> QED
  BY <1>2, <1>3 DEF QueueInv

LEMMA TargetsStep ==
    ASSUME IInv, QueueInv, TargetsInv, [Next]_vars
    PROVE  TargetsInv'
<1> USE DEF diskVars, dbVars, passVars, replicaVars
<1>1. registered \subseteq registered'
  BY DEF vars, Next, ProcessPass, ShipPass, Handler, Environment, ArchiveBegin, ArchiveEnd,
         AddReplica, BeginPass, CopyOut, SkipFile, AbortPass, Seal, Record, Enqueue, Clean,
         EndShipping, GiveUp, Send, Answered, TimeOut, Check, WriteBlob, InsertRow,
         ReadFails, HandlerFails, Forget, Crash
<1>2. /\ InPass' => targets' \subseteq registered'
      /\ (pc = "enqueue")' => left' \subseteq targets'
      /\ InPass' => (targets' = targets /\ InPass) \/ targets' = registered
  BY <1>1 DEF TargetsInv, InPass,
         vars, Next, ProcessPass, ShipPass, Handler, Environment, ArchiveBegin, ArchiveEnd,
         AddReplica, BeginPass, CopyOut, SkipFile, AbortPass, Seal, Record, Enqueue, Clean,
         EndShipping, GiveUp, Send, Answered, TimeOut, Check, WriteBlob, InsertRow,
         ReadFails, HandlerFails, Forget, Crash, BeginShipping
<1>3. ASSUME NEW r \in Replicas, NEW s \in Segments, shipments'[<<r, s>>].status # "none"
      PROVE  r \in registered' /\ (InPass' => r \in targets')
  <2>1. CASE shipments[<<r, s>>].status # "none"
    BY <1>1, <1>2, <2>1 DEF TargetsInv
  <2>2. CASE Enqueue(r)
    BY <1>1, <2>2 DEF Enqueue, TargetsInv, InPass
  <2> QED
    BY <1>3, <2>1, <2>2, StatusStep
<1> QED
  BY <1>2, <1>3 DEF TargetsInv

\* The loop over the replicas closes the gap that Record opens, unless the
\* process stops in between.
LEMMA EnqueueStep ==
    ASSUME IInv, QueueInv, TargetsInv, EnqueueInv, [Next]_vars
    PROVE  EnqueueInv'
<1> USE DEF diskVars, dbVars, passVars, replicaVars
<1> SUFFICES ASSUME faults'["crash"] = 0, NEW r \in Replicas,
                    NEW i \in DOMAIN wal', NEW j \in DOMAIN wal', i < j, Enqueued(r, i)'
             PROVE  Enqueued(r, j)' \/ (pc' = "enqueue" /\ j = Len(wal') /\ r \in left')
  BY DEF EnqueueInv
<1>1. faults["crash"] = 0 /\ ~Crash
  <2>1. faults["crash"] \in Nat
    BY DEF IInv, TypeOK, FaultKinds
  <2>2. ~Crash
    BY <2>1 DEF Crash, Fault, IInv, TypeOK, FaultKinds
  <2> QED
    BY <2>1, <2>2 DEF IInv, TypeOK, FaultKinds,
         vars, Next, ProcessPass, ShipPass, Handler, Environment, ArchiveBegin, ArchiveEnd,
         AddReplica, BeginPass, CopyOut, SkipFile, AbortPass, Seal, Record, Enqueue, Clean,
         EndShipping, GiveUp, Send, Answered, TimeOut, Check, WriteBlob, InsertRow,
         ReadFails, HandlerFails, Forget, Fault
<1>2. wal \in Seq(Row) /\ \A k \in DOMAIN wal : wal[k].name \in Segments
  <2>1. wal \in Seq(Row)
    BY DEF IInv, TypeOK
  <2>2. \A k \in DOMAIN wal : wal[k] \in Row
    BY <2>1
  <2> QED
    BY <2>1, <2>2 DEF Row
<1>3. CASE Record
  <2>1. shipments' = shipments /\ pc' = "enqueue" /\ left' = targets
    BY <1>3 DEF Record
  <2>2. CASE wal' = wal
    BY <1>1, <1>3, <2>1, <2>2 DEF EnqueueInv, Enqueued, Record
  <2>3. CASE wal' = Append(wal, NewRow)
    <3>1. /\ Len(wal) \in Nat /\ Len(wal') = Len(wal) + 1
          /\ DOMAIN wal = 1 .. Len(wal) /\ DOMAIN wal' = 1 .. Len(wal) + 1
          /\ \A k \in DOMAIN wal : wal'[k] = wal[k]
      BY <1>2, <2>3
    <3>2. i \in DOMAIN wal /\ Enqueued(r, i)
      BY <2>1, <3>1 DEF Enqueued
    <3>3. CASE j \in DOMAIN wal
      BY <1>1, <1>3, <2>1, <3>1, <3>2, <3>3 DEF EnqueueInv, Enqueued, Record
    <3>4. CASE j = Len(wal')
      BY <1>2, <1>3, <2>1, <3>2, <3>4 DEF TargetsInv, InPass, Enqueued, Record
    <3> QED
      BY <3>1, <3>3, <3>4
  <2> QED
    BY <1>3, <2>2, <2>3 DEF Record
<1>4. CASE wal' = wal
  <2>1. i \in DOMAIN wal /\ j \in DOMAIN wal /\ Len(wal) \in Nat /\ DOMAIN wal = 1 .. Len(wal)
    BY <1>2, <1>4
  <2>2. Enqueued(r, j) => Enqueued(r, j)'
    BY <1>2, <1>4, <2>1, StatusStep DEF Enqueued
  <2>3. Enqueued(r, i)
    <3>1. CASE Enqueue(r) /\ wal[i].name = First(todo)
      <4>1. wal[Len(wal)].name = First(todo) /\ Len(wal) \in DOMAIN wal
        BY <2>1, <3>1 DEF Enqueue, IInv, PassInv
      <4>2. i = Len(wal)
        BY <2>1, <3>1, <4>1 DEF IInv, NamesUnique
      <4> QED
        BY <2>1, <4>2
    <3> QED
      BY <1>2, <1>4, <2>1, <3>1, StatusStep DEF Enqueued
  <2>4. Enqueued(r, j) \/ (pc = "enqueue" /\ j = Len(wal) /\ r \in left)
    BY <1>1, <2>1, <2>3 DEF EnqueueInv
  <2>5. CASE pc = "enqueue" /\ j = Len(wal) /\ r \in left
    <3>1. CASE Enqueue(r)
      <4>1. shipments'[<<r, First(todo)>>].status # "none"
        <5>1. First(todo) \in Segments
          BY <2>5, FirstIn DEF IInv, PassInv, TypeOK
        <5> QED
          BY <3>1, <5>1 DEF Enqueue, IInv, TypeOK
      <4> QED
        BY <1>4, <2>5, <4>1 DEF Enqueued, IInv, PassInv
    <3>2. CASE ~Enqueue(r)
      <4>1. pc' = "enqueue" /\ r \in left'
        BY <1>1, <2>5, <3>2 DEF AllEnqueued,
           vars, Next, ProcessPass, ShipPass, Handler, Environment, ArchiveBegin, ArchiveEnd,
           AddReplica, BeginPass, CopyOut, SkipFile, AbortPass, Seal, Record, Enqueue, Clean,
           EndShipping, GiveUp, Send, Answered, TimeOut, Check, WriteBlob, InsertRow,
           ReadFails, HandlerFails, Forget
      <4> QED
        BY <1>4, <2>5, <4>1
    <3> QED
      BY <3>1, <3>2
  <2> QED
    BY <2>2, <2>4, <2>5
<1> QED
  BY <1>3, <1>4, WalChanges

-----------------------------------------------------------------------------
(* One handler at a time. *)

\* Without room for a stray one, a request nobody waits for is gone.
LEMMA NoStray ==
    ASSUME MaxStray = 0, OneRequest, NEW q \in requests, Orphan(q)
    PROVE  requests' = {}
<1>1. Strays = {}
  BY DEF Strays, OneRequest
<1>2. Cardinality(Strays) = 0
  BY <1>1, FS_EmptySet
<1>3. requests' = requests \ {q}
  BY <1>2 DEF Orphan
<1> QED
  BY <1>3 DEF OneRequest

LEMMA OneRequestStep ==
    ASSUME MaxStray = 0, IInv, OneRequest, [Next]_vars
    PROVE  OneRequest'
<1> USE DEF diskVars, dbVars, passVars, replicaVars
<1>1. CASE Send
  <2>1. requests = {}
    BY <1>1 DEF Send, OneRequest
  <2> QED
    BY <1>1, <2>1 DEF Send, OneRequest
<1>2. CASE \E p \in requests : Check(p) \/ WriteBlob(p) \/ InsertRow(p) \/ HandlerFails(p)
  <2>1. PICK p \in requests : Check(p) \/ WriteBlob(p) \/ InsertRow(p) \/ HandlerFails(p)
    BY <1>2
  <2>2. PICK st : requests' = (requests \ {p}) \cup {[p EXCEPT !.st = st]}
    BY <2>1 DEF Check, WriteBlob, InsertRow, HandlerFails
  <2>3. p \in Request /\ requests = {p} /\ p.awaited /\ pc = "await"
    BY DEF IInv, TypeOK, OneRequest
  <2>4. requests' = {[p EXCEPT !.st = st]} /\ [p EXCEPT !.st = st].awaited
    BY <2>2, <2>3 DEF Request
  <2>5. pc' = pc
    BY <2>1 DEF Check, WriteBlob, InsertRow, HandlerFails
  <2> QED
    BY <2>3, <2>4, <2>5 DEF OneRequest
<1>3. CASE requests' = {}
  BY <1>3 DEF OneRequest
<1>4. CASE \E q \in requests : Answered(q)
  BY <1>4 DEF Answered, OneRequest
<1>5. CASE requests' = requests /\ (pc' = pc \/ pc # "await")
  BY <1>5 DEF OneRequest
<1>6. CASE Crash /\ pc = "await"
  BY <1>3, <1>6, NoStray DEF Crash
<1>7. CASE \E q \in requests : TimeOut(q)
  BY <1>3, <1>7, NoStray DEF TimeOut
<1>8. ~\E q \in requests : Forget(q)
  BY DEF Forget, Strays, OneRequest
<1> QED
  BY <1>1, <1>2, <1>3, <1>4, <1>5, <1>6, <1>7, <1>8
     DEF vars, Next, ProcessPass, ShipPass, Handler, Environment, ArchiveBegin,
         ArchiveEnd, AddReplica, BeginPass, CopyOut, SkipFile, AbortPass, Seal, Record,
         Enqueue, Clean, EndShipping, GiveUp, ReadFails, Crash

\* While its request is in flight unchanged, a replica's tables and files are
\* left alone.
LEMMA OnlyHandler ==
    ASSUME IInv, OneRequest, [Next]_vars, NEW q \in requests, q \in requests'
    PROVE  store' = store /\ blobs' = blobs
<1>1. ASSUME NEW p \in requests, NEW st, st # p.st,
             requests' = (requests \ {p}) \cup {[p EXCEPT !.st = st]}
      PROVE  FALSE
  <2>1. p = q /\ requests = {q} /\ q \in Request
    BY DEF OneRequest, IInv, TypeOK
  <2>2. requests' = {[q EXCEPT !.st = st]}
    BY <1>1, <2>1
  <2>3. [q EXCEPT !.st = st].st = st
    BY <2>1 DEF Request
  <2> QED
    BY <1>1, <2>1, <2>2, <2>3
<1>2. ~\E p \in requests : WriteBlob(p) \/ InsertRow(p) \/ HandlerFails(p)
  BY <1>1 DEF WriteBlob, InsertRow, RowReady, HandlerFails
<1> QED
  BY <1>2, ReplicaChanges

LEMMA CheckedStep ==
    ASSUME MaxStray = 0, IInv, OneRequest, CheckedInv, [Next]_vars
    PROVE  CheckedInv'
<1> USE DEF diskVars, dbVars, passVars, replicaVars
<1> SUFFICES ASSUME NEW q \in requests'
             PROVE  /\ q.st \in {"checked", "written"} => Acceptable(q)'
                    /\ q.st = "written" => blobs'[q.to][q.row.name] = q.body
  BY DEF CheckedInv
<1>1. CASE q \in requests
  <2>1. store' = store /\ blobs' = blobs
    BY <1>1, OnlyHandler
  <2> QED
    BY <1>1, <2>1 DEF CheckedInv, Acceptable, LatestReplicaRow
<1>2. CASE Send
  BY <1>1, <1>2 DEF Send
<1>3. CASE \E p \in requests : Orphan(p)
  BY <1>3, NoStray
<1>4. ASSUME NEW p \in requests, Check(p), q \notin requests
      PROVE  q.st \in {"checked", "written"} => Acceptable(q)' /\ q.st # "written"
  <2>1. p \in Request
    BY DEF IInv, TypeOK
  <2>2. q = [p EXCEPT !.st = IF Acceptable(p) THEN "checked" ELSE "rejected"]
    BY <1>4 DEF Check
  <2>3. q.to = p.to /\ q.row = p.row /\ q.body = p.body
        /\ q.st = IF Acceptable(p) THEN "checked" ELSE "rejected"
    BY <2>1, <2>2 DEF Request
  <2>4. store' = store
    BY <1>4 DEF Check
  <2> QED
    BY <2>3, <2>4 DEF Acceptable, LatestReplicaRow
<1>5. ASSUME NEW p \in requests, WriteBlob(p), q \notin requests
      PROVE  Acceptable(q)' /\ blobs'[q.to][q.row.name] = q.body
  <2>1. p \in Request
    BY DEF IInv, TypeOK
  <2>2. q = [p EXCEPT !.st = "written"]
    BY <1>5 DEF WriteBlob
  <2>3. q.to = p.to /\ q.row = p.row /\ q.body = p.body
    BY <2>1, <2>2 DEF Request
  <2>4. store' = store /\ Acceptable(p)
    BY <1>5 DEF WriteBlob, CheckedInv
  <2>5. p.to \in Replicas /\ p.row.name \in Segments
    BY <2>1 DEF Request, Row
  <2>6. blobs'[q.to][q.row.name] = q.body
    BY <1>5, <2>3, <2>5 DEF WriteBlob, IInv, TypeOK
  <2> QED
    BY <2>3, <2>4, <2>6 DEF Acceptable, LatestReplicaRow
<1>6. ASSUME NEW p \in requests, InsertRow(p) \/ HandlerFails(p), q \notin requests
      PROVE  q.st \notin {"checked", "written"}
  BY <1>6 DEF InsertRow, HandlerFails, IInv, TypeOK, Request
<1>7. CASE requests' \subseteq requests
  BY <1>1, <1>7
<1> QED
  BY <1>1, <1>2, <1>3, <1>4, <1>5, <1>6, <1>7
     DEF vars, Next, ProcessPass, ShipPass, Handler, Environment, ArchiveBegin,
         ArchiveEnd, AddReplica, BeginPass, CopyOut, SkipFile, AbortPass, Seal, Record,
         Enqueue, Clean, EndShipping, GiveUp, Answered, TimeOut, ReadFails, Forget,
         Strays, Crash

-----------------------------------------------------------------------------
(* What a replica copies. *)

\* A row enters a replica through a handler whose check still holds.
LEMMA InsertedRow ==
    ASSUME IInv, CheckedInv, [Next]_vars, NEW r \in Replicas, NEW row \in store'[r],
           row \notin store[r]
    PROVE  \E q \in requests :
              /\ q.to = r /\ q.row = row
              /\ Acceptable(q)
              /\ blobs'[r][row.name] = q.body
              /\ store' = [store EXCEPT ![r] = @ \cup {row}]
<1>1. PICK q \in requests : InsertRow(q)
  BY ReplicaChanges
<1>2. q.to \in Replicas /\ store \in [Replicas -> SUBSET Row]
  BY DEF IInv, TypeOK, Request
<1>3. store' = [store EXCEPT ![q.to] = @ \cup {q.row}]
  BY <1>1 DEF InsertRow, ReplicaRow
<1>4. q.to = r /\ q.row = row
  BY <1>2, <1>3
<1>5. Acceptable(q) /\ blobs[r][row.name] = q.body
  BY <1>1, <1>4 DEF InsertRow, RowReady, CheckedInv
<1>6. blobs' = blobs
  BY <1>1 DEF InsertRow, replicaVars
<1> QED
  BY <1>3, <1>4, <1>5, <1>6

LEMMA CopiedBlobsStep ==
    ASSUME IInv, CheckedInv, CopiedBlobs, [Next]_vars
    PROVE  CopiedBlobs'
<1> SUFFICES ASSUME NEW r \in Replicas, NEW row \in store'[r]
             PROVE  blobs'[r][row.name] = encrypted'[row.name]
  BY DEF CopiedBlobs
<1>1. CASE row \in store[r]
  <2>1. row.name \in Processed
    BY <1>1 DEF IInv, ReplicaAgrees, Processed
  <2>2. ASSUME NEW p \in requests, WriteBlob(p) \/ HandlerFails(p)
        PROVE  blobs'[r][row.name] = blobs[r][row.name]
    <3>1. p.to \in Replicas /\ p.row.name \in Segments
      BY DEF IInv, TypeOK, Request, Row
    <3>2. CASE p.st = "checked"
      <4>1. ~Held(p.to, p.row.name)
        BY <3>2, AcceptableIsNew DEF CheckedInv
      <4>2. ~(p.to = r /\ p.row.name = row.name)
        BY <1>1, <4>1 DEF Held
      <4>3. PICK b : blobs' = [blobs EXCEPT ![p.to][p.row.name] = b] \/ blobs' = blobs
        BY <2>2 DEF WriteBlob, HandlerFails
      <4>4. DOMAIN blobs = Replicas /\ DOMAIN blobs[r] = Segments
        BY DEF IInv, TypeOK
      <4>5. row.name \in Segments
        BY <2>1, ProcessedSegments DEF IInv
      <4>6. CASE blobs' = [blobs EXCEPT ![p.to][p.row.name] = b]
        <5>1. CASE p.to = r
          <6>1. blobs'[r] = [blobs[r] EXCEPT ![p.row.name] = b]
            BY <4>4, <4>6, <5>1
          <6> QED
            BY <4>2, <4>4, <4>5, <5>1, <6>1
        <5>2. CASE p.to # r
          BY <4>4, <4>6, <5>2
        <5> QED
          BY <5>1, <5>2
      <4> QED
        BY <4>3, <4>6
    <3>3. CASE p.st # "checked"
      BY <2>2, <3>3 DEF WriteBlob, HandlerFails
    <3> QED
      BY <3>2, <3>3
  <2>3. blobs'[r][row.name] = blobs[r][row.name]
    BY <2>2, ReplicaChanges
  <2> QED
    BY <1>1, <2>1, <2>3, RecordedBlobKept DEF CopiedBlobs
<1>2. CASE row \notin store[r]
  <2>1. PICK q \in requests : q.row = row /\ blobs'[r][row.name] = q.body
    BY <1>2, InsertedRow
  <2>2. q.body = encrypted[row.name] /\ row.name \in Processed
    BY <2>1 DEF IInv, RequestInv, RequestOk, Processed
  <2> QED
    BY <2>1, <2>2, RecordedBlobKept
<1> QED
  BY <1>1, <1>2

\* The row a replica inserts is the next one of its run.
LEMMA ContiguousStep ==
    ASSUME IInv, CheckedInv, ReplicaContiguous, [Next]_vars
    PROVE  ReplicaContiguous'
<1> SUFFICES ASSUME NEW r \in Replicas, NEW a \in store'[r], NEW b \in store'[r],
                    a.idx < b.idx
             PROVE  \E c \in store'[r] : c.idx = a.idx + 1 /\ c.prev = a.hash
  BY DEF ReplicaContiguous
<1>1. CASE a \in store[r] /\ b \in store[r]
  <2>1. store[r] \subseteq store'[r]
    BY StoreGrows
  <2> QED
    BY <1>1, <2>1 DEF ReplicaContiguous
<1>2. ASSUME NEW row \in store'[r], row \notin store[r]
      PROVE  \E q \in requests : /\ q.to = r /\ q.row = row
                                 /\ Acceptable(q)
                                 /\ store'[r] = store[r] \cup {row}
  <2>1. PICK q \in requests : /\ q.to = r /\ q.row = row
                              /\ Acceptable(q)
                              /\ store' = [store EXCEPT ![r] = @ \cup {row}]
    BY <1>2, InsertedRow
  <2>2. store'[r] = store[r] \cup {row}
    BY <2>1 DEF IInv, TypeOK
  <2> QED
    BY <2>1, <2>2
<1>3. \A row \in store[r] : row.idx \in Nat
  BY DEF IInv, TypeOK, Row
<1>4. CASE a \notin store[r]
  <2>1. PICK q \in requests : /\ q.to = r /\ q.row = a
                              /\ Acceptable(q)
                              /\ store'[r] = store[r] \cup {a}
    BY <1>2, <1>4
  <2>2. a.idx \in Nat
    BY <2>1 DEF IInv, TypeOK, Request, Row
  <2>3. b \in store[r]
    BY <2>1, <2>2
  <2>4. /\ LatestReplicaRow(r) \in store[r]
        /\ b.idx <= LatestReplicaRow(r).idx
    BY <2>3, LatestRow
  <2>5. a.idx = LatestReplicaRow(r).idx + 1
    BY <2>1, <2>3 DEF Acceptable
  <2> QED
    BY <1>3, <2>2, <2>3, <2>4, <2>5
<1>5. CASE a \in store[r] /\ b \notin store[r]
  <2>1. PICK q \in requests : /\ q.to = r /\ q.row = b
                              /\ Acceptable(q)
                              /\ store'[r] = store[r] \cup {b}
    BY <1>2, <1>5
  <2>2. /\ LatestReplicaRow(r) \in store[r]
        /\ a.idx <= LatestReplicaRow(r).idx
    BY <1>5, LatestRow
  <2>3. /\ b.idx = LatestReplicaRow(r).idx + 1
        /\ b.prev = LatestReplicaRow(r).hash
    BY <1>5, <2>1 DEF Acceptable
  <2>4. CASE a.idx = LatestReplicaRow(r).idx
    <3>1. a = LatestReplicaRow(r)
      BY <1>5, <2>2, <2>4, SameIndex
    <3> QED
      BY <2>3, <3>1
  <2>5. CASE a.idx < LatestReplicaRow(r).idx
    BY <1>5, <2>1, <2>2, <2>5 DEF ReplicaContiguous
  <2> QED
    BY <1>3, <1>5, <2>2, <2>4, <2>5
<1> QED
  BY <1>1, <1>4, <1>5

-----------------------------------------------------------------------------
(* Giving up. *)

\* A failed shipment is never taken up again, and a pending one changes only when
\* it is settled or tried.
LEMMA SettledStep ==
    ASSUME IInv, AwaitInv, [Next]_vars, NEW x \in Replicas \X Segments
    PROVE  /\ shipments[x].status = "failed" => shipments'[x].status = "failed"
           /\ shipments[x].status = "pending" =>
                 \/ shipments'[x].status = "pending"
                 \/ GiveUp /\ x = FirstShipment(queue)
                 \/ \E q \in requests : Answered(q) /\ x = <<q.to, q.row.name>>
<1> USE DEF diskVars, dbVars, passVars, replicaVars
<1>0. shipments \in [Replicas \X Segments -> Shipment]
  BY DEF IInv, TypeOK
<1>1. CASE \E u \in Replicas : Enqueue(u)
  BY <1>0, <1>1 DEF Enqueue, Shipment
<1>2. CASE \E q \in requests : Answered(q)
  <2>1. PICK q \in requests : Answered(q)
    BY <1>2
  <2>2. CASE <<q.to, q.row.name>> = x
    BY <2>1, <2>2 DEF Answered, AwaitInv
  <2>3. CASE <<q.to, q.row.name>> # x
    BY <1>0, <2>1, <2>3 DEF Answered
  <2> QED
    BY <2>2, <2>3
<1>3. CASE GiveUp
  BY <1>0, <1>3 DEF GiveUp, Shipment
<1>4. CASE ReadFails \/ \E q \in requests : TimeOut(q)
  <2>1. PICK y : shipments' = [shipments EXCEPT ![y].attempts = @ + 1]
    BY <1>4 DEF ReadFails, TimeOut
  <2> QED
    BY <1>0, <2>1 DEF Shipment
<1>5. CASE shipments' = shipments
  BY <1>5
<1> QED
  BY <1>1, <1>2, <1>3, <1>4, <1>5
     DEF vars, Next, ProcessPass, ShipPass, Handler, Environment, ArchiveBegin,
         ArchiveEnd, AddReplica, BeginPass, CopyOut, SkipFile, AbortPass, Seal, Record,
         Clean, EndShipping, Send, Check, WriteBlob, InsertRow, HandlerFails, Forget, Crash

\* What a step makes of the requests.
LEMMA RequestsChange ==
    ASSUME IInv, [Next]_vars
    PROVE  \/ Send
           \/ \E p \in requests :
                 /\ Check(p) \/ WriteBlob(p) \/ InsertRow(p) \/ HandlerFails(p)
                 /\ \E st : requests' = (requests \ {p}) \cup {[p EXCEPT !.st = st]}
                 /\ UNCHANGED <<pc, queue>>
           \/ \E p \in requests :
                 /\ p.awaited
                 /\ \/ requests' = requests \ {p}
                    \/ requests' = (requests \ {p}) \cup {[p EXCEPT !.awaited = FALSE]}
           \/ /\ requests' \subseteq requests
              /\ pc # "await" \/ UNCHANGED <<pc, queue>>
<1> USE DEF diskVars, dbVars, passVars, replicaVars
<1>1. CASE \E p \in requests : Check(p) \/ WriteBlob(p) \/ InsertRow(p) \/ HandlerFails(p)
  <2>1. PICK p \in requests : Check(p) \/ WriteBlob(p) \/ InsertRow(p) \/ HandlerFails(p)
    BY <1>1
  <2>2. \E st : requests' = (requests \ {p}) \cup {[p EXCEPT !.st = st]}
    BY <2>1 DEF Check, WriteBlob, InsertRow, HandlerFails
  <2>3. UNCHANGED <<pc, queue>>
    BY <2>1 DEF Check, WriteBlob, InsertRow, HandlerFails
  <2> QED
    BY <2>1, <2>2, <2>3
<1>2. CASE \E p \in requests : Answered(p) \/ TimeOut(p) \/ (p.awaited /\ Orphan(p))
  BY <1>2 DEF Answered, TimeOut, Orphan
<1>3. CASE requests' \subseteq requests /\ (pc # "await" \/ UNCHANGED <<pc, queue>>)
  BY <1>3
<1> QED
  BY <1>1, <1>2, <1>3
     DEF vars, Next, ProcessPass, ShipPass, Handler, Environment, ArchiveBegin, ArchiveEnd,
         AddReplica, BeginPass, CopyOut, SkipFile, AbortPass, Seal, Record, Enqueue, Clean,
         EndShipping, GiveUp, ReadFails, Forget, Strays, Crash

\* The request of the next shipment.
LEMMA SentFor ==
    ASSUME IInv, Send, NEW q \in requests', q \notin requests
    PROVE  /\ <<q.to, q.row.name>> = FirstShipment(queue) /\ FirstShipment(queue) \in queue
           /\ q.st = "sent"
<1> DEFINE x == FirstShipment(queue)
<1>1. x \in queue /\ x[2] \in Processed
  BY FirstShipmentIn DEF Send, IInv, ShipInv
<1>2. RowOf(x[2]).name = x[2]
  BY <1>1, RowOfIn
<1>3. x = <<x[1], x[2]>>
  BY <1>1 DEF IInv, TypeOK
<1>4. q = [to |-> x[1], row |-> RowOf(x[2]), body |-> encrypted[x[2]],
           st |-> "sent", awaited |-> TRUE]
  BY DEF Send
<1> HIDE DEF x
<1>5. q.to = x[1] /\ q.row = RowOf(x[2]) /\ q.st = "sent"
  BY <1>4
<1> QED
  BY <1>1, <1>2, <1>3, <1>5 DEF x

LEMMA AwaitStep ==
    ASSUME IInv, AwaitInv, [Next]_vars
    PROVE  AwaitInv'
<1> USE DEF diskVars, dbVars, passVars, replicaVars
<1>0. \A q \in requests : q \in Request
  BY DEF IInv, TypeOK
<1>1. ASSUME NEW x \in queue'
      PROVE  shipments'[x].status = "pending"
  <2>1. CASE BeginShipping
    BY <1>1, <2>1 DEF BeginShipping
  <2>2. CASE x \in queue
    <3>1. x \in Replicas \X Segments /\ shipments[x].status = "pending"
      BY <2>2 DEF IInv, TypeOK, AwaitInv
    <3>2. GiveUp => x # FirstShipment(queue)
      BY <1>1 DEF GiveUp
    <3>3. \A q \in requests : Answered(q) => x # <<q.to, q.row.name>>
      BY <1>1 DEF Answered
    <3> QED
      BY <3>1, <3>2, <3>3, SettledStep
  <2> QED
    BY <1>1, <2>1, <2>2
       DEF vars, Next, ProcessPass, ShipPass, Handler, Environment, ArchiveBegin, ArchiveEnd,
           AddReplica, BeginPass, CopyOut, SkipFile, AbortPass, Seal, Record, Enqueue, Clean,
           EndShipping, GiveUp, Send, Answered, TimeOut, Check, WriteBlob, InsertRow,
           ReadFails, HandlerFails, Forget, Crash
<1> DEFINE Awaited == /\ \A q \in requests' :
                            q.awaited => pc' = "await" /\ <<q.to, q.row.name>> \in queue'
                      /\ \A p, q \in requests' : p.awaited /\ q.awaited => p = q
<1>2. CASE Send
  <2>1. /\ pc' = "await" /\ queue' = queue
        /\ \A q \in requests : ~q.awaited
        /\ \A p, q \in requests' : p \notin requests /\ q \notin requests => p = q
    BY <1>2 DEF Send, AwaitInv
  <2>2. \A q \in requests' : q \notin requests => <<q.to, q.row.name>> \in queue
    BY <1>2, SentFor
  <2>3. Awaited
    BY <2>1, <2>2
  <2> QED
    BY <1>1, <2>3 DEF AwaitInv
<1>3. ASSUME NEW p \in requests, UNCHANGED <<pc, queue>>,
             \E st : requests' = (requests \ {p}) \cup {[p EXCEPT !.st = st]}
      PROVE  AwaitInv'
  <2>1. PICK st : requests' = (requests \ {p}) \cup {[p EXCEPT !.st = st]}
    BY <1>3
  <2> DEFINE n == [p EXCEPT !.st = st]
  <2>2. n.to = p.to /\ n.row = p.row /\ n.awaited = p.awaited
    BY <1>0 DEF Request
  <2> HIDE DEF n
  <2>3. requests' = (requests \ {p}) \cup {n}
    BY <2>1 DEF n
  <2>4. Awaited
    BY <1>3, <2>2, <2>3 DEF AwaitInv
  <2> QED
    BY <1>1, <2>4 DEF AwaitInv
<1>4. ASSUME NEW p \in requests, p.awaited,
             \/ requests' = requests \ {p}
             \/ requests' = (requests \ {p}) \cup {[p EXCEPT !.awaited = FALSE]}
      PROVE  AwaitInv'
  <2>1. ~[p EXCEPT !.awaited = FALSE].awaited
    BY <1>0 DEF Request
  <2>2. \A q \in requests' : ~q.awaited
    BY <1>4, <2>1 DEF AwaitInv
  <2> QED
    BY <1>1, <2>2 DEF AwaitInv
<1>5. CASE requests' \subseteq requests /\ (pc # "await" \/ UNCHANGED <<pc, queue>>)
  <2>1. Awaited
    BY <1>5 DEF AwaitInv
  <2> QED
    BY <1>1, <2>1 DEF AwaitInv
<1> QED
  BY <1>2, <1>3, <1>4, <1>5, RequestsChange

\* The only row that a stuck replica would take is the one that nobody sends.
LEMMA StuckStep ==
    ASSUME IInv, AwaitInv, [Next]_vars, NEW r \in Replicas, Stuck(r)
    PROVE  Stuck(r)' /\ store'[r] = store[r]
<1> USE DEF diskVars, dbVars, passVars, replicaVars
<1>0. \A q \in requests : q \in Request
  BY DEF IInv, TypeOK
<1>1. PICK i \in DOMAIN wal :
          /\ i > 1 /\ wal[i - 1] = LatestReplicaRow(r)
          /\ shipments[<<r, wal[i].name>>].status = "failed"
          /\ \A q \in requests : q.to = r => q.row # wal[i] /\ q.st \notin {"checked", "written"}
  BY DEF Stuck
<1>2. i \in Nat /\ wal[i] \in Row /\ wal[i].name \in Segments /\ i - 1 \in DOMAIN wal
  <2>1. wal \in Seq(Row)
    BY DEF IInv, TypeOK
  <2>2. i \in 1 .. Len(wal) /\ Len(wal) \in Nat /\ wal[i] \in Row
    BY <2>1
  <2>3. i - 1 \in 1 .. Len(wal)
    BY <1>1, <2>2
  <2> QED
    BY <2>1, <2>2, <2>3 DEF Row
<1>3. ASSUME NEW q \in requests, q.to = r
      PROVE  ~Acceptable(q)
  <2> SUFFICES ASSUME Acceptable(q)
               PROVE  FALSE
    OBVIOUS
  <2>1. PICK j \in DOMAIN wal : wal[j] = q.row /\ j > 1 /\ wal[j - 1] = LatestReplicaRow(r)
    BY <1>3, ExtendsLatest DEF Stuck
  <2>2. j \in Nat /\ j - 1 \in DOMAIN wal
    <3>1. DOMAIN wal = 1 .. Len(wal) /\ Len(wal) \in Nat
      BY DEF IInv, TypeOK
    <3> QED
      BY <2>1, <3>1
  <2>3. i - 1 = j - 1
    BY <1>1, <1>2, <2>1, <2>2 DEF IInv, NamesUnique
  <2>4. i = j
    BY <1>2, <2>2, <2>3
  <2> QED
    BY <1>1, <1>3, <2>1, <2>4
<1>4. store'[r] = store[r]
  <2>1. ASSUME NEW q \in requests, InsertRow(q)
        PROVE  store'[r] = store[r]
    <3>1. q.to # r
      BY <1>1, <2>1 DEF InsertRow, RowReady
    <3> QED
      BY <2>1, <3>1 DEF InsertRow, IInv, TypeOK
  <2> QED
    BY <2>1
       DEF vars, Next, ProcessPass, ShipPass, Handler, Environment, ArchiveBegin, ArchiveEnd,
           AddReplica, BeginPass, CopyOut, SkipFile, AbortPass, Seal, Record, Enqueue, Clean,
           EndShipping, GiveUp, Send, Answered, TimeOut, Check, WriteBlob, ReadFails,
           HandlerFails, Forget, Crash
<1>5. ASSUME NEW q \in requests', q.to = r
      PROVE  q.row # wal[i] /\ q.st \notin {"checked", "written"}
  <2>1. CASE q \in requests
    BY <1>1, <1>5, <2>1
  <2>2. CASE Send /\ q \notin requests
    <3>1. /\ <<q.to, q.row.name>> = FirstShipment(queue) /\ q.st = "sent"
          /\ shipments[FirstShipment(queue)].status = "pending"
      BY <2>2, SentFor DEF AwaitInv
    <3> QED
      BY <1>1, <1>5, <3>1
  <2>3. ASSUME NEW p \in requests, Check(p) \/ WriteBlob(p) \/ InsertRow(p) \/ HandlerFails(p),
               \E st : requests' = (requests \ {p}) \cup {[p EXCEPT !.st = st]}, q \notin requests
        PROVE  q.row # wal[i] /\ q.st \notin {"checked", "written"}
    <3>1. p \in Request
      BY <1>0
    <3>2. q.to = p.to /\ q.row = p.row
      BY <2>3, <3>1 DEF Request
    <3>3. ~Acceptable(p) /\ p.st \notin {"checked", "written"} /\ p.row # wal[i]
      BY <1>1, <1>3, <1>5, <3>2
    <3>4. Check(p)
      BY <2>3, <3>3 DEF WriteBlob, InsertRow, RowReady, HandlerFails
    <3>5. q = [p EXCEPT !.st = "rejected"]
      BY <2>3, <3>3, <3>4 DEF Check
    <3>6. q.st = "rejected"
      BY <3>1, <3>5 DEF Request
    <3> QED
      BY <3>2, <3>3, <3>6
  <2>4. ASSUME NEW p \in requests, q = [p EXCEPT !.awaited = FALSE]
        PROVE  q.row # wal[i] /\ q.st \notin {"checked", "written"}
    <3>1. q.to = p.to /\ q.row = p.row /\ q.st = p.st
      BY <1>0, <2>4 DEF Request
    <3> QED
      BY <1>1, <1>5, <3>1
  <2> QED
    BY <2>1, <2>2, <2>3, <2>4, RequestsChange
<1>6. LatestReplicaRow(r)' = LatestReplicaRow(r)
  BY <1>4 DEF LatestReplicaRow
<1>7. /\ i \in DOMAIN wal' /\ wal'[i] = wal[i] /\ wal'[i - 1] = wal[i - 1]
      /\ shipments'[<<r, wal[i].name>>].status = "failed"
  BY <1>1, <1>2, WalGrows, SettledStep
<1> QED
  BY <1>1, <1>4, <1>5, <1>6, <1>7 DEF Stuck

-----------------------------------------------------------------------------
(* The theorems. *)

LEMMA CopyInvariance ==
    Spec => [](QueueInv /\ TargetsInv /\ EnqueueInv)
<1>1. Init => QueueInv /\ TargetsInv /\ EnqueueInv
  BY DEF Init, QueueInv, TargetsInv, EnqueueInv, InPass
<1>2. /\ IInv /\ QueueInv /\ TargetsInv /\ EnqueueInv /\ [Next]_vars
      => (QueueInv /\ TargetsInv /\ EnqueueInv)'
  BY QueueStep, TargetsStep, EnqueueStep
<1> QED
  BY <1>1, <1>2, Invariance, PTL DEF Spec

\* Without a crash, every segment recorded after the first one a replica was
\* sent is enqueued for it too, through aborted passes, skipped files and
\* replicas registered in the middle of a pass.
THEOREM NoEnqueueGap ==
    Spec => []EnqueuedWithoutGap
<1>1. EnqueueInv => EnqueuedWithoutGap
  BY DEF EnqueueInv, EnqueuedWithoutGap, Enqueued
<1> QED
  BY <1>1, CopyInvariance, PTL

LEMMA SerialInvariance ==
    ASSUME MaxStray = 0
    PROVE  Spec => []SerialInv
<1>1. Init => SerialInv
  BY DEF Init, SerialInv, OneRequest, CheckedInv, CopiedBlobs, ReplicaContiguous
<1>2. IInv /\ SerialInv /\ [Next]_vars => SerialInv'
  BY OneRequestStep, CheckedStep, CopiedBlobsStep, ContiguousStep DEF SerialInv
<1> QED
  BY <1>1, <1>2, Invariance, PTL DEF Spec

\* When the primary's wait outlasts every handler it started, a replica's rows
\* are one unbroken run of the chain.
THEOREM ReplicasContiguous ==
    ASSUME MaxStray = 0
    PROVE  Spec => []ReplicaContiguous
<1>1. SerialInv => ReplicaContiguous
  BY DEF SerialInv
<1> QED
  BY <1>1, SerialInvariance, PTL

\* Then the blob of every row matches it too, even when writes on the replica
\* fail and leave torn files: no handler writes beside a row that is there.
THEOREM SerialBlobsMatch ==
    ASSUME MaxStray = 0
    PROVE  Spec => []ReplicaBlobMatches
<1>1. IInv /\ SerialInv => ReplicaBlobMatches
  <2> SUFFICES ASSUME IInv, SerialInv, NEW r \in Replicas, NEW row \in store[r]
               PROVE  /\ blobs[r][row.name] \in Body
                      /\ row.hash = ChainHash(row.prev, blobs[r][row.name])
    BY DEF ReplicaBlobMatches
  <2>1. PICK i \in DOMAIN wal : wal[i] = row
    BY DEF IInv, ReplicaAgrees
  <2>2. blobs[r][row.name] = encrypted[row.name]
    BY DEF SerialInv, CopiedBlobs
  <2> QED
    BY <2>1, <2>2 DEF IInv, BlobMatchesRow
<1> QED
  BY <1>1, Invariance, SerialInvariance, PTL

\* A replica whose next segment was given up stays where it is for ever, through
\* any faults and stray handlers: nothing sends that segment again, and no other
\* one fits.
THEOREM GivenUpForGood == Spec => StuckForGood
<1>1. Init => AwaitInv
  BY DEF Init, AwaitInv
<1>2. IInv /\ AwaitInv /\ [Next]_vars => AwaitInv'
  BY AwaitStep
<1>3. /\ IInv /\ AwaitInv /\ [Next]_vars
      => [\A r \in Replicas : Stuck(r) => Stuck(r)' /\ store'[r] = store[r]]_vars
  BY StuckStep
<1> QED
  BY <1>1, <1>2, <1>3, Invariance, PTL DEF Spec, StuckForGood

-----------------------------------------------------------------------------
(* The refinement of ReplicatedChain. *)

\* A step of WalReplication extends the log, copies an entry, or changes
\* neither.
LEMMA ChainRefined ==
    ASSUME IInv, CheckedInv, [Next]_vars
    PROVE  [Chain!Next]_(Chain!chainVars)
<1>1. CASE Record
  <2>1. store' = store
    BY <1>1 DEF Record, replicaVars
  <2>2. wal' = wal \/ wal' = Append(wal, NewRow)
    BY <1>1 DEF Record
  <2>3. CASE wal' = Append(wal, NewRow)
    <3>1. wal \in Seq(Row)
      BY DEF IInv, TypeOK
    <3>2. Len(wal') = Len(wal) + 1 /\ \A i \in DOMAIN wal : wal'[i] = wal[i]
      BY <2>3, <3>1
    <3> QED
      BY <2>1, <3>2 DEF Chain!Next, Chain!Extend
  <2> QED
    BY <2>1, <2>2, <2>3 DEF Chain!chainVars
<1>2. CASE wal' = wal /\ store' # store
  <2>1. PICK q \in requests : InsertRow(q)
    BY <1>2, ReplicaChanges
  <2>2. q.to \in Replicas /\ store \in [Replicas -> SUBSET Row]
    BY DEF IInv, TypeOK, Request
  <2>3. store' = [store EXCEPT ![q.to] = @ \cup {q.row}]
    BY <1>2, <2>1 DEF InsertRow, ReplicaRow
  <2>4. Acceptable(q) /\ ~Held(q.to, q.row.name)
    BY <2>1, AcceptableIsNew DEF InsertRow, RowReady, CheckedInv
  <2>5. q.row \notin store[q.to]
    BY <2>4 DEF Held
  <2>6. PICK i \in DOMAIN wal :
            /\ wal[i] = q.row
            /\ store[q.to] # {} => i > 1 /\ wal[i - 1] \in store[q.to]
    <3>1. CASE store[q.to] = {}
      BY <3>1 DEF IInv, RequestInv, RequestOk
    <3>2. CASE store[q.to] # {}
      BY <2>2, <2>4, <3>2, ExtendsLatest, LatestRow
    <3> QED
      BY <3>1, <3>2
  <2>7. Chain!Copy(q.to)
    BY <1>2, <2>3, <2>5, <2>6 DEF Chain!Copy
  <2> QED
    BY <2>2, <2>7 DEF Chain!Next
<1>3. CASE wal' = wal /\ store' = store
  BY <1>3 DEF Chain!chainVars
<1> QED
  BY <1>1, <1>2, <1>3, WalChanges

\* As long as no handler outlives the primary's wait for it, WAL replication
\* implements the replicated chain, through crashes, aborted passes, lost
\* exchanges and failed writes.
THEOREM ImplementsChain ==
    ASSUME MaxStray = 0
    PROVE  Spec => RefinesChain
<1>1. Init => Chain!Init
  BY DEF Init, Chain!Init
<1>2. IInv /\ SerialInv /\ [Next]_vars => [Chain!Next]_(Chain!chainVars)
  BY ChainRefined DEF SerialInv
<1> QED
  BY <1>1, <1>2, Invariance, SerialInvariance, PTL DEF Spec, Chain!Spec, RefinesChain
=============================================================================
