------------------------- MODULE WalReplicationProofs -------------------------
(***************************************************************************)
(* Proofs about WalReplication, for any number of segments, any replicas,  *)
(* any retry cap and any number of faults and of stray requests.           *)
(***************************************************************************)
EXTENDS WalReplication, TLAPS, WellFoundedInduction, SequenceTheorems

-----------------------------------------------------------------------------
(* The inductive invariant. *)

\* UNIQUE (instance_id, segment_name) in wal_segments.
NamesUnique ==
    \A i, j \in DOMAIN wal : wal[i].name = wal[j].name => i = j

\* What the pass remembers agrees with the tables: until the current file is
\* recorded, prev and idx continue the chain and the files to do are new; after
\* it is recorded, the last row is its row.
PassInv ==
    /\ pc \in {"copy", "seal", "record", "enqueue"} => todo # {}
    /\ pc \in {"copy", "seal", "record"} =>
         /\ prev = LatestHash
         /\ idx = Len(wal)
         /\ todo \cap Processed = {}
    /\ pc = "record" =>
         /\ encrypted[First(todo)] \in Body
         /\ encrypted[First(todo)].name = First(todo)
         /\ encrypted[First(todo)].idx = idx
    /\ pc = "enqueue" =>
         /\ wal # << >>
         /\ wal[Len(wal)].name = First(todo)
         /\ wal[Len(wal)].hash = ChainHash(prev, encrypted[First(todo)])
         /\ idx + 1 = Len(wal)
         /\ (todo \ {First(todo)}) \cap Processed = {}

\* Postgres is copying a segment that exists.
ArchiveInv == archiving => archived < NSegments

\* Shipments are for recorded segments only.
ShipInv ==
    /\ \A r \in Replicas, s \in Segments :
          shipments[<<r, s>>].status # "none" => s \in Processed
    /\ \A x \in queue : x[2] \in Processed

\* A request carries a recorded row and its blob; a handler that has accepted
\* has left the row.
RequestOk(q) ==
    /\ \E i \in DOMAIN wal : wal[i] = q.row
    /\ q.body = encrypted[q.row.name]
    /\ q.st = "accepted" => Held(q.to, q.row.name)

RequestInv == \A q \in requests : RequestOk(q)

\* When no write on a replica fails, the blob of a row, and the one a handler
\* has written, is the primary's.
ReplicaBlobs ==
    MaxFaults["disk"] = 0 =>
        /\ \A r \in Replicas : \A row \in store[r] :
              blobs[r][row.name] = encrypted[row.name]
        /\ \A q \in requests :
              q.st = "written" => blobs[q.to][q.row.name] = encrypted[q.row.name]

IInv ==
    /\ TypeOK
    /\ ArchiveInv
    /\ NamesUnique
    /\ PrimaryChain
    /\ BlobMatchesRow
    /\ PassInv
    /\ ShipInv
    /\ RequestInv
    /\ ReplicaAgrees
    /\ ReplicaBlobs
    /\ ShippedIsHeld

-----------------------------------------------------------------------------
(* The operators the steps are built from. *)

\* A non-empty set of natural numbers has a least element.
LEMMA LeastNat ==
    ASSUME NEW T \in SUBSET Nat, T # {}
    PROVE  \E x \in T : \A y \in T : x <= y
<1> DEFINE Less == OpToRel(<, Nat)
<1>1. \E x \in T : \A y \in T : <<y, x>> \notin Less
  BY WFMin, NatLessThanWellFounded
<1>2. \A x, y \in Nat : <<y, x>> \in Less <=> y < x
  BY DEF OpToRel
<1> HIDE DEF Less
<1>3. PICK x \in T : \A y \in T : <<y, x>> \notin Less
  BY <1>1
<1>4. \A y \in T : ~(y < x)
  BY <1>2, <1>3
<1> QED
  BY <1>4

\* The file the pass works on is one of the files to do.
LEMMA FirstIn ==
    ASSUME NEW S \in SUBSET Segments, S # {}
    PROVE  First(S) \in S
<1>1. S \in SUBSET Nat
  BY DEF Segments
<1>2. \E s \in S : \A t \in S : s <= t
  BY <1>1, LeastNat
<1> QED
  BY <1>2 DEF First

LEMMA ProcessedSegments ==
    ASSUME TypeOK
    PROVE  Processed \subseteq Segments
<1>1. \A i \in DOMAIN wal : wal[i] \in Row
  BY DEF TypeOK
<1> QED
  BY <1>1 DEF Processed, Row

\* A processed segment has a row of its name.
LEMMA RowOfIn ==
    ASSUME NEW s \in Processed
    PROVE  \E i \in DOMAIN wal : RowOf(s) = wal[i] /\ wal[i].name = s
  BY DEF Processed, RowOf

\* The shipment the ship pass takes next is one of the queue.
LEMMA FirstShipmentIn ==
    ASSUME TypeOK, ShipInv, queue # {}
    PROVE  FirstShipment(queue) \in queue
<1> DEFINE Indices == {RowOf(x[2]).idx : x \in queue}
<1>1. \A x \in queue : RowOf(x[2]).idx \in Nat
  <2> TAKE x \in queue
  <2>1. x[2] \in Processed
    BY DEF ShipInv
  <2>2. PICK i \in DOMAIN wal : RowOf(x[2]) = wal[i]
    BY <2>1, RowOfIn
  <2>3. wal[i] \in Row
    BY <2>2 DEF TypeOK
  <2> QED
    BY <2>2, <2>3 DEF Row
<1>2. \E n \in Indices : \A m \in Indices : n <= m
  BY <1>1, LeastNat
<1>3. \E x \in queue : \A y \in queue : RowOf(x[2]).idx <= RowOf(y[2]).idx
  BY <1>2
<1> QED
  BY <1>3 DEF FirstShipment

-----------------------------------------------------------------------------
(* Type correctness. *)

LEMMA InitType ==
    Init => TypeOK
<1> SUFFICES ASSUME Init PROVE TypeOK
  OBVIOUS
<1>1. wal \in Seq(Row) /\ prev \in Hash
  BY DEF Init, Hash
<1>2. /\ container \in [Segments -> {"absent", "partial", "whole"}]
      /\ encrypted \in [Segments -> Body \cup {NoBody}]
      /\ sealed \in [Segments -> Nat]
      /\ shipments \in [Replicas \X Segments -> Shipment]
  BY DEF Init, Shipment
<1>3. /\ store \in [Replicas -> SUBSET Row]
      /\ blobs \in [Replicas -> [Segments -> Body \cup {NoBody}]]
      /\ faults \in [FaultKinds -> Nat]
  BY DEF Init
<1>4. archived \in 0 .. NSegments
  BY SegmentsAssumption DEF Init
<1> QED
  BY <1>1, <1>2, <1>3, <1>4 DEF Init, TypeOK

\* A pass ends with a queue of shipments and nothing remembered.
LEMMA BeginShippingType ==
    ASSUME BeginShipping
    PROVE  /\ pc' = "ship"
           /\ todo' \in SUBSET Segments
           /\ targets' \in SUBSET Replicas
           /\ left' \in SUBSET Replicas
           /\ prev' \in Hash
           /\ idx' \in Nat
           /\ plain' \in BOOLEAN
           /\ queue' \in SUBSET (Replicas \X Segments)
<1>1. queue' \in SUBSET (Replicas \X Segments)
  BY DEF BeginShipping
<1>2. prev' \in Hash
  BY DEF BeginShipping, Hash
<1> QED
  BY <1>1, <1>2 DEF BeginShipping

LEMMA OrphanType ==
    ASSUME TypeOK, NEW q \in requests, Orphan(q)
    PROVE  requests' \in SUBSET Request
<1>1. [q EXCEPT !.awaited = FALSE] \in Request
  BY DEF TypeOK, Request
<1> QED
  BY <1>1 DEF Orphan, TypeOK

LEMMA FaultType ==
    ASSUME TypeOK, NEW k \in FaultKinds, Fault(k)
    PROVE  faults' \in [FaultKinds -> Nat]
  BY DEF TypeOK, Fault

\* The next row of the chain continues the last one.
LEMMA ChainEnd ==
    ASSUME TypeOK, PrimaryChain
    PROVE  /\ NextIndex = Len(wal)
           /\ LatestHash \in Hash
<1>1. CASE wal = << >>
  BY <1>1 DEF NextIndex, LatestHash, Hash
<1>2. CASE wal # << >>
  <2>1. Len(wal) \in DOMAIN wal /\ Len(wal) \in Nat
    BY <1>2 DEF TypeOK
  <2>2. wal[Len(wal)] \in Row
    BY <2>1 DEF TypeOK
  <2> QED
    BY <1>2, <2>1, <2>2 DEF NextIndex, LatestHash, PrimaryChain, Row
<1> QED
  BY <1>1, <1>2

LEMMA TypeStep ==
    ASSUME IInv, [Next]_vars
    PROVE  TypeOK'
<1> USE DEF diskVars, dbVars, passVars, replicaVars
<1>0. TypeOK
  BY DEF IInv
<1>a. pc \in {"copy", "seal", "record", "enqueue"} => First(todo) \in Segments
  BY FirstIn DEF IInv, PassInv, TypeOK
<1>b. queue # {} => FirstShipment(queue) \in queue
  BY FirstShipmentIn DEF IInv
<1>1. CASE ArchiveBegin
  BY <1>0, <1>1 DEF ArchiveBegin, TypeOK
<1>2. CASE ArchiveEnd
  <2>1. archived' \in 0 .. NSegments
    BY <1>0, <1>2, SegmentsAssumption DEF ArchiveEnd, TypeOK, ArchiveInv, IInv
  <2>2. container' \in [Segments -> {"absent", "partial", "whole"}]
    BY <1>0, <1>2 DEF ArchiveEnd, TypeOK
  <2> QED
    BY <1>0, <1>2, <2>1, <2>2 DEF ArchiveEnd, TypeOK
<1>3. CASE \E r \in Replicas : AddReplica(r)
  BY <1>0, <1>3 DEF AddReplica, TypeOK
<1>4. CASE BeginPass
  <2>1. CASE NewFiles = {}
    BY <1>0, <1>4, <2>1, BeginShippingType DEF BeginPass, TypeOK
  <2>2. CASE NewFiles # {}
    <3>1. NewFiles \in SUBSET Segments
      BY DEF NewFiles, Listed
    <3>2. LatestHash \in Hash /\ NextIndex \in Nat
      BY <1>0, ChainEnd DEF IInv, TypeOK
    <3> QED
      BY <1>0, <1>4, <2>2, <3>1, <3>2 DEF BeginPass, TypeOK
  <2> QED
    BY <2>1, <2>2
<1>5. CASE CopyOut
  BY <1>0, <1>5 DEF CopyOut, TypeOK
<1>6. CASE SkipFile
  <2>1. faults' \in [FaultKinds -> Nat]
    BY <1>0, <1>6, FaultType DEF SkipFile, FaultKinds
  <2>2. CASE todo \ {First(todo)} = {}
    BY <1>0, <1>6, <2>1, <2>2, BeginShippingType DEF SkipFile, TypeOK
  <2>3. CASE todo \ {First(todo)} # {}
    BY <1>0, <1>6, <2>1, <2>3 DEF SkipFile, TypeOK
  <2> QED
    BY <2>2, <2>3
<1>7. CASE AbortPass
  <2>1. faults' \in [FaultKinds -> Nat]
    BY <1>0, <1>7, FaultType DEF AbortPass, FaultKinds
  <2> QED
    BY <1>0, <1>7, <2>1, BeginShippingType DEF AbortPass, MaybeTorn, TypeOK
<1>8. CASE Seal
  <2>1. First(todo) \in Segments
    BY <1>8, <1>a DEF Seal
  <2>2. NewBody \in Body
    BY <1>0, <2>1 DEF NewBody, Body, TypeOK
  <2>3. encrypted' \in [Segments -> Body \cup {NoBody}]
    BY <1>0, <1>8, <2>2 DEF Seal, TypeOK
  <2>4. sealed' \in [Segments -> Nat]
    <3>1. /\ sealed \in [Segments -> Nat]
          /\ sealed' = [sealed EXCEPT ![First(todo)] = @ + 1]
      BY <1>0, <1>8 DEF Seal, TypeOK
    <3> QED
      BY <2>1, <3>1
  <2> QED
    BY <1>0, <1>8, <2>3, <2>4 DEF Seal, TypeOK
<1>9. CASE Record
  <2>1. First(todo) \in Segments
    BY <1>9, <1>a DEF Record
  <2>2. encrypted[First(todo)] \in Body
    BY <1>9 DEF Record, IInv, PassInv
  <2>3. ChainHash(prev, encrypted[First(todo)]) \in Hash
    BY <1>0, <2>2 DEF ChainHash, Hash, TypeOK
  <2>4. NewRow \in Row
    BY <1>0, <2>1, <2>3 DEF NewRow, Row, TypeOK
  <2>5. wal' \in Seq(Row)
    BY <1>0, <1>9, <2>4 DEF Record, TypeOK
  <2> QED
    BY <1>0, <1>9, <2>5 DEF Record, TypeOK
<1>10. CASE \E r \in Replicas : Enqueue(r)
  <2>1. PICK r \in Replicas : Enqueue(r)
    BY <1>10
  <2>2. [status |-> "pending", attempts |-> 0] \in Shipment
    BY DEF Shipment
  <2>3. shipments' \in [Replicas \X Segments -> Shipment]
    BY <1>0, <2>1, <2>2 DEF Enqueue, TypeOK
  <2> QED
    BY <1>0, <2>1, <2>3 DEF Enqueue, TypeOK
<1>11. CASE Clean
  <2>1. First(todo) \in Segments
    BY <1>11, <1>a DEF Clean
  <2>2. faults' \in [FaultKinds -> Nat]
    BY <1>0, <1>11, FaultType DEF Clean, FaultKinds, TypeOK
  <2>3. container' \in [Segments -> {"absent", "partial", "whole"}]
    BY <1>0, <1>11, <2>1 DEF Clean, TypeOK
  <2>4. CASE todo \ {First(todo)} = {}
    BY <1>0, <1>11, <2>2, <2>3, <2>4, BeginShippingType DEF Clean, TypeOK
  <2>5. CASE todo \ {First(todo)} # {}
    <3>1. /\ wal # << >>
          /\ wal[Len(wal)].hash = ChainHash(prev, encrypted[First(todo)])
      BY <1>11 DEF Clean, IInv, PassInv
    <3>2. AdvancedHash \in Hash
      BY <1>0, <3>1, ChainEnd DEF AdvancedHash, LatestHash, IInv
    <3>3. idx' \in Nat
      BY <1>0, <1>11, <2>5 DEF Clean, TypeOK
    <3> QED
      BY <1>0, <1>11, <2>2, <2>3, <2>5, <3>2, <3>3 DEF Clean, TypeOK
  <2> QED
    BY <2>4, <2>5
<1>12. CASE EndShipping
  BY <1>0, <1>12 DEF EndShipping, TypeOK
<1>13. CASE GiveUp
  <2>1. shipments' \in [Replicas \X Segments -> Shipment]
    BY <1>0, <1>13, <1>b DEF GiveUp, TypeOK, Shipment
  <2> QED
    BY <1>0, <1>13, <2>1 DEF GiveUp, TypeOK
<1>14. CASE Send
  <2> DEFINE x == FirstShipment(queue)
  <2>1. x \in queue /\ x[1] \in Replicas /\ x[2] \in Segments
    BY <1>0, <1>14, <1>b DEF Send, TypeOK
  <2>2. PICK i \in DOMAIN wal : RowOf(x[2]) = wal[i] /\ wal[i].name = x[2]
    BY <2>1, RowOfIn DEF IInv, ShipInv
  <2>3. RowOf(x[2]) \in Row
    BY <1>0, <2>2 DEF TypeOK
  <2>4. encrypted[x[2]] \in Body
    BY <2>2 DEF IInv, BlobMatchesRow
  <2>5. [to |-> x[1], row |-> RowOf(x[2]), body |-> encrypted[x[2]],
         st |-> "sent", awaited |-> TRUE] \in Request
    BY <2>1, <2>3, <2>4 DEF Request
  <2> HIDE DEF x
  <2> QED
    BY <1>0, <1>14, <2>5 DEF Send, TypeOK, x
<1>15. CASE \E q \in requests : Answered(q)
  <2>1. PICK q \in requests : Answered(q)
    BY <1>15
  <2>2. \A sh \in Shipment : AfterAnswer(sh, q.st) \in Shipment
    BY DEF AfterAnswer, Shipment
  <2>3. shipments' \in [Replicas \X Segments -> Shipment]
    BY <1>0, <2>1, <2>2 DEF Answered, TypeOK
  <2> QED
    BY <1>0, <2>1, <2>3 DEF Answered, TypeOK
<1>16. CASE \E q \in requests : TimeOut(q)
  <2>1. PICK q \in requests : TimeOut(q)
    BY <1>16
  <2>2. faults' \in [FaultKinds -> Nat]
    BY <1>0, <2>1, FaultType DEF TimeOut, FaultKinds
  <2>3. requests' \in SUBSET Request
    BY <1>0, <2>1, OrphanType DEF TimeOut
  <2>4. \A sh \in Shipment : [sh EXCEPT !.attempts = @ + 1] \in Shipment
    BY DEF Shipment
  <2>5. shipments' \in [Replicas \X Segments -> Shipment]
    BY <1>0, <2>1, <2>4 DEF TimeOut, TypeOK
  <2> QED
    BY <1>0, <2>1, <2>2, <2>3, <2>5 DEF TimeOut, TypeOK
<1>17. CASE \E q \in requests : Check(q)
  <2>1. PICK q \in requests : Check(q)
    BY <1>17
  <2>2. requests' \in SUBSET Request
    BY <1>0, <2>1 DEF Check, TypeOK, Request
  <2> QED
    BY <1>0, <2>1, <2>2 DEF Check, TypeOK
<1>18. CASE \E q \in requests : WriteBlob(q)
  <2>1. PICK q \in requests : WriteBlob(q)
    BY <1>18
  <2>2. requests' \in SUBSET Request
    BY <1>0, <2>1 DEF WriteBlob, TypeOK, Request
  <2>3. q.to \in Replicas /\ q.row.name \in Segments /\ q.body \in Body
    BY <1>0 DEF TypeOK, Request, Row
  <2>4. blobs' \in [Replicas -> [Segments -> Body \cup {NoBody}]]
    BY <1>0, <2>1, <2>3 DEF WriteBlob, TypeOK
  <2> QED
    BY <1>0, <2>1, <2>2, <2>4 DEF WriteBlob, TypeOK
<1>19. CASE \E q \in requests : InsertRow(q)
  <2>1. PICK q \in requests : InsertRow(q)
    BY <1>19
  <2>2. requests' \in SUBSET Request
    BY <1>0, <2>1 DEF InsertRow, TypeOK, Request
  <2>3. q.to \in Replicas /\ ReplicaRow(q) \in Row
    BY <1>0 DEF TypeOK, Request, ReplicaRow
  <2>4. store' \in [Replicas -> SUBSET Row]
    BY <1>0, <2>1, <2>3 DEF InsertRow, TypeOK
  <2> QED
    BY <1>0, <2>1, <2>2, <2>4 DEF InsertRow, TypeOK
<1>20. CASE \E q \in requests : Forget(q)
  BY <1>0, <1>20 DEF Forget, Strays, TypeOK
<1>21. CASE Crash
  <2>1. faults' \in [FaultKinds -> Nat]
    BY <1>0, <1>21, FaultType DEF Crash, FaultKinds
  <2>2. encrypted' \in [Segments -> Body \cup {NoBody}]
    BY <1>0, <1>21 DEF Crash, MaybeTorn, TypeOK
  <2>3. requests' \in SUBSET Request
    BY <1>0, <1>21, OrphanType DEF Crash, TypeOK
  <2>4. prev' \in Hash
    BY <1>21 DEF Crash, Hash
  <2> QED
    BY <1>0, <1>21, <2>1, <2>2, <2>3, <2>4 DEF Crash, TypeOK
<1>22. CASE ReadFails
  <2>1. faults' \in [FaultKinds -> Nat]
    BY <1>0, <1>22, FaultType DEF ReadFails, FaultKinds
  <2>2. \A sh \in Shipment : [sh EXCEPT !.attempts = @ + 1] \in Shipment
    BY DEF Shipment
  <2>3. shipments' \in [Replicas \X Segments -> Shipment]
    BY <1>0, <1>b, <1>22, <2>2 DEF ReadFails, TypeOK
  <2> QED
    BY <1>0, <1>22, <2>1, <2>3 DEF ReadFails, TypeOK
<1>23. CASE \E q \in requests : HandlerFails(q)
  <2>1. PICK q \in requests : HandlerFails(q)
    BY <1>23
  <2>2. faults' \in [FaultKinds -> Nat]
    BY <1>0, <2>1, FaultType DEF HandlerFails, FaultKinds
  <2>3. requests' \in SUBSET Request
    BY <1>0, <2>1 DEF HandlerFails, TypeOK, Request
  <2>4. blobs' \in [Replicas -> [Segments -> Body \cup {NoBody}]]
    <3>1. q.to \in Replicas /\ q.row.name \in Segments
      BY <1>0 DEF TypeOK, Request, Row
    <3>2. blobs \in [Replicas -> [Segments -> Body \cup {NoBody}]]
      BY <1>0 DEF TypeOK
    <3>3. [blobs EXCEPT ![q.to][q.row.name] = NoBody]
             \in [Replicas -> [Segments -> Body \cup {NoBody}]]
      BY <3>1, <3>2
    <3> QED
      BY <2>1, <3>2, <3>3 DEF HandlerFails
  <2> QED
    BY <1>0, <2>1, <2>2, <2>3, <2>4 DEF HandlerFails, TypeOK
<1>24. CASE UNCHANGED vars
  BY <1>0, <1>24 DEF vars, TypeOK
<1> QED
  BY <1>1, <1>2, <1>3, <1>4, <1>5, <1>6, <1>7, <1>8, <1>9, <1>10, <1>11, <1>12, <1>13,
     <1>14, <1>15, <1>16, <1>17, <1>18, <1>19, <1>20, <1>21, <1>24, <1>22, <1>23
     DEF Next, ProcessPass, ShipPass, Handler, Environment

-----------------------------------------------------------------------------
(* Which actions touch which part of the state. *)

LEMMA WalChanges ==
    ASSUME [Next]_vars
    PROVE  Record \/ wal' = wal
  BY DEF vars, diskVars, dbVars, passVars, replicaVars, Next, ProcessPass, ShipPass, Handler,
         Environment, ArchiveBegin, ArchiveEnd, AddReplica, BeginPass, CopyOut, SkipFile,
         AbortPass, Seal, Enqueue, Clean, EndShipping, GiveUp, Send, Answered, TimeOut,
         Check, WriteBlob, InsertRow, ReadFails, HandlerFails, Forget, Crash

LEMMA EncryptedChanges ==
    ASSUME [Next]_vars
    PROVE  Seal \/ AbortPass \/ Crash \/ encrypted' = encrypted
  BY DEF vars, diskVars, dbVars, passVars, replicaVars, Next, ProcessPass, ShipPass, Handler,
         Environment, ArchiveBegin, ArchiveEnd, AddReplica, BeginPass, CopyOut, SkipFile,
         AbortPass, Record, Enqueue, Clean, EndShipping, GiveUp, Send, Answered, TimeOut,
         Check, WriteBlob, InsertRow, ReadFails, HandlerFails, Forget

LEMMA ReplicaChanges ==
    ASSUME [Next]_vars
    PROVE  /\ (\E q \in requests : InsertRow(q)) \/ store' = store
           /\ (\E q \in requests : WriteBlob(q) \/ HandlerFails(q)) \/ blobs' = blobs
  BY DEF vars, diskVars, dbVars, passVars, replicaVars, Next, ProcessPass, ShipPass, Handler,
         Environment, ArchiveBegin, ArchiveEnd, AddReplica, BeginPass, CopyOut, SkipFile,
         AbortPass, Seal, Record, Enqueue, Clean, EndShipping, GiveUp, Send, Answered,
         TimeOut, Check, WriteBlob, InsertRow, ReadFails, HandlerFails, Forget, Crash

\* The chain only grows at its end.
LEMMA WalGrows ==
    ASSUME IInv, [Next]_vars
    PROVE  /\ \A i \in DOMAIN wal : i \in DOMAIN wal' /\ wal'[i] = wal[i]
           /\ Processed \subseteq Processed'
<1>1. \A i \in DOMAIN wal : i \in DOMAIN wal' /\ wal'[i] = wal[i]
  <2>1. CASE wal' = wal
    BY <2>1
  <2>2. CASE wal' = Append(wal, NewRow)
    BY <2>2 DEF IInv, TypeOK
  <2> QED
    BY <2>1, <2>2, WalChanges DEF Record
<1> QED
  BY <1>1 DEF Processed

\* The blob of a recorded segment is never replaced.
LEMMA RecordedBlobKept ==
    ASSUME IInv, [Next]_vars, NEW s \in Processed
    PROVE  encrypted'[s] = encrypted[s]
<1>1. CASE encrypted' = encrypted
  BY <1>1
<1>2. CASE pc = "seal" /\ \E b : encrypted' = [encrypted EXCEPT ![First(todo)] = b]
  <2>1. First(todo) \in todo /\ todo \cap Processed = {}
    BY <1>2, FirstIn DEF IInv, PassInv, TypeOK
  <2>2. First(todo) # s
    BY <2>1
  <2>3. s \in Segments
    BY ProcessedSegments DEF IInv
  <2> QED
    BY <1>2, <2>2, <2>3 DEF IInv, TypeOK
<1> QED
  BY <1>1, <1>2, EncryptedChanges DEF Seal, AbortPass, Crash, MaybeTorn

\* A replica's rows stay.
LEMMA StoreGrows ==
    ASSUME IInv, [Next]_vars, NEW r \in Replicas
    PROVE  store[r] \subseteq store'[r]
<1>1. CASE store' = store
  BY <1>1
<1>2. CASE \E q \in requests : InsertRow(q)
  <2>1. PICK q \in requests : InsertRow(q)
    BY <1>2
  <2>2. store \in [Replicas -> SUBSET Row]
    BY DEF IInv, TypeOK
  <2> QED
    BY <2>1, <2>2 DEF InsertRow
<1> QED
  BY <1>1, <1>2, ReplicaChanges

\* A handler can fail only within the bound on such faults.
LEMMA NoDiskFault ==
    ASSUME IInv, MaxFaults["disk"] = 0
    PROVE  ~Fault("disk")
<1>1. faults["disk"] \in Nat
  BY DEF IInv, TypeOK, FaultKinds
<1> QED
  BY <1>1 DEF Fault

\* A replica's blob that is the primary's is only replaced by itself.
LEMMA BlobStep ==
    ASSUME IInv, [Next]_vars, MaxFaults["disk"] = 0, NEW r \in Replicas, NEW s,
           blobs[r][s] = encrypted[s]
    PROVE  blobs'[r][s] = blobs[r][s]
<1>1. CASE blobs' = blobs
  BY <1>1
<1>2. CASE \E q \in requests : WriteBlob(q)
  <2>1. PICK q \in requests : WriteBlob(q)
    BY <1>2
  <2>2. q.body = encrypted[q.row.name]
    BY DEF IInv, RequestInv, RequestOk
  <2> QED
    BY <2>1, <2>2 DEF WriteBlob, IInv, TypeOK
<1> QED
  BY <1>1, <1>2, ReplicaChanges, NoDiskFault DEF HandlerFails

-----------------------------------------------------------------------------
(* The steps preserve the invariant. *)

LEMMA ArchiveStep ==
    ASSUME IInv, [Next]_vars
    PROVE  ArchiveInv'
  BY DEF IInv, ArchiveInv, vars, diskVars, dbVars, passVars, replicaVars, Next,
         ProcessPass, ShipPass, Handler,
         Environment, ArchiveBegin, ArchiveEnd, AddReplica, BeginPass, CopyOut, SkipFile,
         AbortPass, Seal, Record, Enqueue, Clean, EndShipping, GiveUp, Send, Answered,
         TimeOut, Check, WriteBlob, InsertRow, ReadFails, HandlerFails, Forget, Crash

\* Record appends a row of a new name that links to the last one.
LEMMA ChainStep ==
    ASSUME IInv, [Next]_vars
    PROVE  NamesUnique' /\ PrimaryChain' /\ BlobMatchesRow'
<1>1. CASE Record
  <2> DEFINE s == First(todo)
  <2>1. /\ prev = LatestHash /\ idx = Len(wal)
        /\ todo # {} /\ todo \cap Processed = {}
        /\ encrypted[s] \in Body /\ encrypted[s].name = s /\ encrypted[s].idx = idx
    BY <1>1 DEF Record, IInv, PassInv
  <2>2. s \in todo
    BY <2>1, FirstIn DEF IInv, TypeOK
  <2> HIDE DEF s
  <2>3. s \notin Processed
    BY <2>1, <2>2
  <2>4. wal' = Append(wal, NewRow) /\ encrypted' = encrypted
    BY <1>1, <2>3 DEF Record, s
  <2>5. /\ NewRow.name = s /\ NewRow.idx = Len(wal) /\ NewRow.prev = LatestHash
        /\ NewRow.hash = ChainHash(NewRow.prev, encrypted[s])
    BY <2>1 DEF NewRow, s
  <2>6. wal \in Seq(Row)
    BY DEF IInv, TypeOK
  <2>7. /\ DOMAIN wal' = 1 .. Len(wal) + 1
        /\ \A i \in 1 .. Len(wal) : wal'[i] = wal[i]
        /\ wal'[Len(wal) + 1] = NewRow
        /\ Len(wal) \in Nat /\ DOMAIN wal = 1 .. Len(wal)
    BY <2>4, <2>6
  <2>8. NamesUnique'
    <3>1. \A i \in DOMAIN wal : wal[i].name # s
      BY <2>3 DEF Processed
    <3> QED
      BY <2>5, <2>7, <3>1 DEF NamesUnique, IInv
  <2>9. PrimaryChain'
    <3>1. LatestHash = IF Len(wal) = 0 THEN << >> ELSE wal[Len(wal)].hash
      BY <2>6 DEF LatestHash
    <3> SUFFICES ASSUME NEW i \in DOMAIN wal'
                 PROVE  /\ wal'[i].idx = i - 1
                        /\ wal'[i].prev = IF i = 1 THEN << >> ELSE wal'[i - 1].hash
      BY DEF PrimaryChain
    <3>2. CASE i \in 1 .. Len(wal)
      BY <2>7, <3>2 DEF PrimaryChain, IInv
    <3>3. CASE i = Len(wal) + 1
      BY <2>5, <2>7, <3>1, <3>3
    <3> QED
      BY <2>7, <3>2, <3>3
  <2>10. BlobMatchesRow'
    BY <2>1, <2>4, <2>5, <2>7 DEF BlobMatchesRow, IInv
  <2> QED
    BY <2>8, <2>9, <2>10
<1>2. CASE wal' = wal
  <2>1. \A i \in DOMAIN wal : wal[i].name \in Processed
    BY DEF Processed
  <2> QED
    BY <1>2, <2>1, RecordedBlobKept DEF NamesUnique, PrimaryChain, BlobMatchesRow, IInv
<1> QED
  BY <1>1, <1>2, WalChanges

\* The pass is set up from the tables, and each of its steps keeps it in tune
\* with them.
LEMMA PassStep ==
    ASSUME IInv, [Next]_vars
    PROVE  PassInv'
<1> USE DEF diskVars, dbVars, passVars, replicaVars
<1>1. CASE BeginPass
  <2>1. CASE NewFiles = {}
    BY <1>1, <2>1 DEF BeginPass, BeginShipping, PassInv
  <2>2. CASE NewFiles # {}
    <3>1. NewFiles \cap Processed = {}
      BY DEF NewFiles
    <3>2. NextIndex = Len(wal)
      BY ChainEnd DEF IInv
    <3>3. Processed' = Processed /\ LatestHash' = LatestHash
      BY <1>1, <2>2 DEF BeginPass, Processed, LatestHash
    <3> QED
      BY <1>1, <2>2, <3>1, <3>2, <3>3 DEF BeginPass, PassInv
  <2> QED
    BY <2>1, <2>2
<1>2. CASE CopyOut
  BY <1>2 DEF CopyOut, IInv, PassInv, LatestHash, Processed
<1>3. CASE SkipFile
  <2>1. CASE todo \ {First(todo)} = {}
    BY <1>3, <2>1 DEF SkipFile, BeginShipping, PassInv
  <2>2. CASE todo \ {First(todo)} # {}
    BY <1>3, <2>2 DEF SkipFile, IInv, PassInv, LatestHash, Processed
  <2> QED
    BY <2>1, <2>2
<1>4. CASE Seal
  <2>1. First(todo) \in todo /\ First(todo) \in Segments
    BY <1>4, FirstIn DEF Seal, IInv, PassInv, TypeOK
  <2>2. encrypted'[First(todo)] = NewBody
    BY <1>4, <2>1 DEF Seal, IInv, TypeOK
  <2>3. NewBody \in Body /\ NewBody.name = First(todo) /\ NewBody.idx = idx
    BY <2>1 DEF NewBody, Body, IInv, TypeOK
  <2>4. LatestHash' = LatestHash /\ Processed' = Processed
    BY <1>4 DEF Seal, LatestHash, Processed
  <2> QED
    BY <1>4, <2>2, <2>3, <2>4 DEF Seal, IInv, PassInv
<1>5. CASE Record
  <2>1. First(todo) \in todo /\ First(todo) \notin Processed
    BY <1>5, FirstIn DEF Record, IInv, PassInv, TypeOK
  <2>2. wal' = Append(wal, NewRow) /\ wal \in Seq(Row)
    BY <1>5, <2>1 DEF Record, IInv, TypeOK
  <2>3. /\ Len(wal') = Len(wal) + 1 /\ wal'[Len(wal')] = NewRow /\ wal' # << >>
        /\ DOMAIN wal' = 1 .. Len(wal) + 1 /\ DOMAIN wal = 1 .. Len(wal)
        /\ \A i \in DOMAIN wal : wal'[i] = wal[i]
        /\ Len(wal) \in Nat
    BY <2>2
  <2>4. NewRow.name = First(todo) /\ NewRow.hash = ChainHash(prev, encrypted[First(todo)])
    BY DEF NewRow
  <2>5. Processed' = Processed \cup {First(todo)}
    BY <2>3, <2>4 DEF Processed
  <2> QED
    BY <1>5, <2>3, <2>4, <2>5 DEF Record, IInv, PassInv
<1>6. CASE Clean
  <2>1. CASE todo \ {First(todo)} = {}
    BY <1>6, <2>1 DEF Clean, BeginShipping, PassInv
  <2>2. CASE todo \ {First(todo)} # {}
    <3>1. /\ pc' = "copy" /\ todo' = todo \ {First(todo)}
          /\ prev' = AdvancedHash /\ idx' = idx + 1 /\ wal' = wal
      BY <1>6, <2>2 DEF Clean
    <3>2. Processed' = Processed /\ LatestHash' = LatestHash
      BY <3>1 DEF Processed, LatestHash
    <3>3. AdvancedHash = LatestHash
      BY <1>6 DEF Clean, AdvancedHash, LatestHash, IInv, PassInv
    <3> QED
      BY <1>6, <2>2, <3>1, <3>2, <3>3 DEF Clean, IInv, PassInv
  <2> QED
    BY <2>1, <2>2
<1>7. CASE pc' \notin {"copy", "seal", "record", "enqueue"}
  BY <1>7 DEF PassInv
<1>8. CASE UNCHANGED <<pc, todo, prev, idx, wal, encrypted>>
  BY <1>8 DEF IInv, PassInv, LatestHash, Processed
<1> QED
  BY <1>1, <1>2, <1>3, <1>4, <1>5, <1>6, <1>7, <1>8
     DEF vars, Next, ProcessPass, ShipPass, Handler, Environment, ArchiveBegin, ArchiveEnd,
         AddReplica, AbortPass, BeginShipping, Enqueue, EndShipping, GiveUp, Send, Answered,
         TimeOut, Check, WriteBlob, InsertRow, ReadFails, HandlerFails, Forget, Crash

\* A shipment is made for a segment the pass has just recorded.
LEMMA ShipStep ==
    ASSUME IInv, [Next]_vars
    PROVE  ShipInv'
<1> USE DEF diskVars, dbVars, passVars, replicaVars
<1>1. \A r \in Replicas, s \in Segments :
         shipments'[<<r, s>>].status # "none" => s \in Processed'
  <2> SUFFICES ASSUME NEW r \in Replicas, NEW s \in Segments,
                      shipments'[<<r, s>>].status # "none"
               PROVE  s \in Processed'
    OBVIOUS
  <2>1. CASE shipments[<<r, s>>].status # "none"
    BY <2>1, WalGrows DEF IInv, ShipInv
  <2>2. CASE \E u \in Replicas : Enqueue(u)
    <3>1. PICK u \in Replicas : Enqueue(u)
      BY <2>2
    <3>2. Len(wal) \in DOMAIN wal /\ wal[Len(wal)].name = First(todo)
      BY <3>1 DEF Enqueue, IInv, PassInv, TypeOK
    <3>3. First(todo) \in Processed
      BY <3>2 DEF Processed
    <3>4. s = First(todo) \/ shipments'[<<r, s>>] = shipments[<<r, s>>]
      BY <3>1 DEF Enqueue, IInv, TypeOK
    <3> QED
      BY <2>1, <3>3, <3>4, WalGrows
  <2>3. CASE GiveUp \/ ReadFails
    <3>1. FirstShipment(queue) \in queue
      BY <2>3, FirstShipmentIn DEF GiveUp, ReadFails, IInv
    <3>2. FirstShipment(queue)[2] \in Processed
      BY <3>1 DEF IInv, ShipInv
    <3>3. FirstShipment(queue) = <<r, s>> \/ shipments'[<<r, s>>] = shipments[<<r, s>>]
      BY <2>3 DEF GiveUp, ReadFails, IInv, TypeOK
    <3>4. FirstShipment(queue) = <<r, s>> => s \in Processed
      BY <3>2
    <3> QED
      BY <2>1, <3>3, <3>4, WalGrows
  <2>4. CASE \E q \in requests : Answered(q) \/ TimeOut(q)
    <3>1. PICK q \in requests : Answered(q) \/ TimeOut(q)
      BY <2>4
    <3>2. q.row.name \in Processed
      BY DEF IInv, RequestInv, RequestOk, Processed
    <3>3. q.row.name = s \/ shipments'[<<r, s>>] = shipments[<<r, s>>]
      BY <3>1 DEF Answered, TimeOut, IInv, TypeOK
    <3> QED
      BY <2>1, <3>2, <3>3, WalGrows
  <2>5. CASE shipments' = shipments
    BY <2>1, <2>5
  <2> QED
    BY <2>2, <2>3, <2>4, <2>5
       DEF vars, Next, ProcessPass, ShipPass, Handler, Environment, ArchiveBegin,
           ArchiveEnd, AddReplica, BeginPass, CopyOut, SkipFile, AbortPass, Seal, Record,
           Clean, EndShipping, Send, Check, WriteBlob, InsertRow, ReadFails, HandlerFails, Forget, Crash
<1>2. \A x \in queue' : x[2] \in Processed'
  <2>1. CASE BeginShipping
    BY <1>1, <2>1 DEF BeginShipping
  <2>2. CASE queue' \subseteq queue
    BY <2>2, WalGrows DEF IInv, ShipInv
  <2> QED
    BY <2>1, <2>2
       DEF vars, Next, ProcessPass, ShipPass, Handler, Environment, ArchiveBegin,
           ArchiveEnd, AddReplica, BeginPass, CopyOut, SkipFile, AbortPass, Seal, Record,
           Enqueue, Clean, EndShipping, GiveUp, Send, Answered, TimeOut, Check, WriteBlob,
           InsertRow, ReadFails, HandlerFails, Forget, Crash
<1> QED
  BY <1>1, <1>2 DEF ShipInv

\* A request that stays as it is stays sound: its row and its blob are kept,
\* and another handler writes the same blob.
LEMMA RequestKept ==
    ASSUME IInv, [Next]_vars, NEW q \in requests
    PROVE  RequestOk(q)'
<1>1. RequestOk(q) /\ q.to \in Replicas
  BY DEF IInv, RequestInv, TypeOK, Request
<1>2. PICK i \in DOMAIN wal : wal[i] = q.row
  BY <1>1 DEF RequestOk
<1>3. i \in DOMAIN wal' /\ wal'[i] = q.row
  BY <1>2, WalGrows
<1>4. q.row.name \in Processed
  BY <1>2 DEF Processed
<1>5. encrypted'[q.row.name] = encrypted[q.row.name]
  BY <1>4, RecordedBlobKept
<1>6. Held(q.to, q.row.name) => Held(q.to, q.row.name)'
  BY <1>1, StoreGrows DEF Held
<1> QED
  BY <1>1, <1>3, <1>5, <1>6 DEF RequestOk

LEMMA RequestStep ==
    ASSUME IInv, [Next]_vars
    PROVE  RequestInv'
<1> USE DEF diskVars, dbVars, passVars, replicaVars
<1>1. CASE Send
  <2> DEFINE x == FirstShipment(queue)
  <2>1. x \in queue /\ x[2] \in Processed
    BY <1>1, FirstShipmentIn DEF Send, IInv, ShipInv
  <2>2. PICK i \in DOMAIN wal : RowOf(x[2]) = wal[i] /\ wal[i].name = x[2]
    BY <2>1, RowOfIn
  <2>3. requests' = requests \cup
          {[to |-> x[1], row |-> RowOf(x[2]), body |-> encrypted[x[2]],
            st |-> "sent", awaited |-> TRUE]}
    BY <1>1 DEF Send
  <2> HIDE DEF x
  <2>4. PICK new : new = [to |-> x[1], row |-> RowOf(x[2]), body |-> encrypted[x[2]],
                          st |-> "sent", awaited |-> TRUE]
    OBVIOUS
  <2>5. /\ requests' = requests \cup {new}
        /\ new.row = wal[i] /\ new.body = encrypted[wal[i].name] /\ new.st = "sent"
    BY <2>2, <2>3, <2>4
  <2>6. wal' = wal /\ encrypted' = encrypted
    BY <1>1 DEF Send
  <2>7. RequestOk(new)'
    BY <2>5, <2>6 DEF RequestOk
  <2> QED
    BY <2>5, <2>7, RequestKept DEF RequestInv
<1>2. CASE \E q \in requests : Check(q)
  <2>1. PICK q \in requests : Check(q)
    BY <1>2
  <2>2. \A st \in {"checked", "rejected"} : RequestOk([q EXCEPT !.st = st])'
    BY RequestKept DEF RequestOk, IInv, TypeOK, Request
  <2> QED
    BY <2>1, <2>2, RequestKept DEF Check, RequestInv
<1>3. CASE \E q \in requests : WriteBlob(q)
  <2>1. PICK q \in requests : WriteBlob(q)
    BY <1>3
  <2>2. RequestOk([q EXCEPT !.st = "written"])'
    BY RequestKept DEF RequestOk, IInv, TypeOK, Request
  <2> QED
    BY <2>1, <2>2, RequestKept DEF WriteBlob, RequestInv
<1>4. CASE \E q \in requests : InsertRow(q)
  <2>1. PICK q \in requests : InsertRow(q)
    BY <1>4
  <2>2. q.to \in Replicas /\ store \in [Replicas -> SUBSET Row]
    BY DEF IInv, TypeOK, Request
  <2>3. Held(q.to, q.row.name)'
    BY <2>1, <2>2 DEF InsertRow, Held, ReplicaRow
  <2>4. RequestOk([q EXCEPT !.st = "accepted"])'
    BY <2>3, RequestKept DEF RequestOk, IInv, TypeOK, Request
  <2> QED
    BY <2>1, <2>4, RequestKept DEF InsertRow, RequestInv
<1>5. CASE \E q \in requests : Orphan(q)
  <2>1. PICK q \in requests : Orphan(q)
    BY <1>5
  <2>2. RequestOk([q EXCEPT !.awaited = FALSE])'
    BY RequestKept DEF RequestOk, IInv, TypeOK, Request
  <2> QED
    BY <2>1, <2>2, RequestKept DEF Orphan, RequestInv
<1>6. CASE \E q \in requests : HandlerFails(q)
  <2>1. PICK q \in requests : HandlerFails(q)
    BY <1>6
  <2>2. RequestOk([q EXCEPT !.st = "rejected"])'
    BY RequestKept DEF RequestOk, IInv, TypeOK, Request
  <2> QED
    BY <2>1, <2>2, RequestKept DEF HandlerFails, RequestInv
<1>7. CASE requests' \subseteq requests
  BY <1>7, RequestKept DEF RequestInv
<1> QED
  BY <1>1, <1>2, <1>3, <1>4, <1>5, <1>6, <1>7
     DEF vars, Next, ProcessPass, ShipPass, Handler, Environment, ArchiveBegin,
         ArchiveEnd, AddReplica, BeginPass, CopyOut, SkipFile, AbortPass, Seal, Record,
         Enqueue, Clean, EndShipping, GiveUp, Answered, TimeOut, ReadFails, Forget, Strays, Crash

\* A replica's row is one a request brought.
LEMMA ReplicaStep ==
    ASSUME IInv, [Next]_vars
    PROVE  ReplicaAgrees'
<1> SUFFICES ASSUME NEW r \in Replicas, NEW row \in store'[r]
             PROVE  \E i \in DOMAIN wal' : wal'[i] = row
  BY DEF ReplicaAgrees
<1>1. CASE row \in store[r]
  BY <1>1, WalGrows DEF IInv, ReplicaAgrees
<1>2. CASE row \notin store[r]
  <2>1. PICK q \in requests : InsertRow(q)
    BY <1>2, ReplicaChanges
  <2>2. q.row = row
    BY <1>2, <2>1 DEF InsertRow, ReplicaRow, IInv, TypeOK, Request
  <2> QED
    BY <2>2, WalGrows DEF IInv, RequestInv, RequestOk
<1> QED
  BY <1>1, <1>2

\* A handler that has written its blob had done so before, or does so now.
LEMMA WrittenRequest ==
    ASSUME IInv, [Next]_vars, NEW q \in requests', q.st = "written"
    PROVE  \E p \in requests : /\ p.to = q.to /\ p.row = q.row
                               /\ p.st = "written" \/ WriteBlob(p)
<1> USE DEF diskVars, dbVars, passVars, replicaVars
<1>1. CASE q \in requests
  BY <1>1
<1>2. CASE Send
  BY <1>1, <1>2 DEF Send
<1>3. CASE \E p \in requests : Orphan(p)
  <2>1. PICK p \in requests : Orphan(p)
    BY <1>3
  <2>2. CASE q = [p EXCEPT !.awaited = FALSE]
    <3>1. p \in Request
      BY DEF IInv, TypeOK
    <3>2. q.to = p.to /\ q.row = p.row /\ q.st = p.st
      BY <2>2, <3>1 DEF Request
    <3> QED
      BY <3>2
  <2> QED
    BY <1>1, <2>1, <2>2 DEF Orphan
<1>4. CASE \E p \in requests : Check(p) \/ InsertRow(p) \/ HandlerFails(p)
  BY <1>1, <1>4 DEF Check, InsertRow, HandlerFails, IInv, TypeOK, Request
<1>5. CASE \E p \in requests : WriteBlob(p)
  <2>1. PICK p \in requests : WriteBlob(p)
    BY <1>5
  <2>2. CASE q = [p EXCEPT !.st = "written"]
    <3>1. p \in Request
      BY DEF IInv, TypeOK
    <3>2. q.to = p.to /\ q.row = p.row
      BY <2>2, <3>1 DEF Request
    <3> QED
      BY <2>1, <3>2
  <2> QED
    BY <1>1, <2>1, <2>2 DEF WriteBlob
<1>6. CASE requests' \subseteq requests
  BY <1>1, <1>6
<1> QED
  BY <1>2, <1>3, <1>4, <1>5, <1>6
     DEF vars, Next, ProcessPass, ShipPass, Handler, Environment, ArchiveBegin,
         ArchiveEnd, AddReplica, BeginPass, CopyOut, SkipFile, AbortPass, Seal, Record,
         Enqueue, Clean, EndShipping, GiveUp, Answered, TimeOut, ReadFails, Forget,
         Strays, Crash

\* The blob is on the replica's disk before its row is inserted.
LEMMA BlobsStep ==
    ASSUME IInv, [Next]_vars
    PROVE  ReplicaBlobs'
<1> SUFFICES ASSUME MaxFaults["disk"] = 0
             PROVE  ReplicaBlobs'
  BY DEF ReplicaBlobs
<1>1. ASSUME NEW r \in Replicas, NEW row \in store'[r]
      PROVE  blobs'[r][row.name] = encrypted'[row.name]
  <2>1. /\ blobs[r][row.name] = encrypted[row.name]
        /\ row.name \in Processed
    <3>1. CASE row \in store[r]
      BY <3>1 DEF IInv, ReplicaAgrees, ReplicaBlobs, Processed
    <3>2. CASE row \notin store[r]
      <4>1. PICK q \in requests : InsertRow(q)
        BY <3>2, ReplicaChanges
      <4>2. q.to = r /\ q.row = row
        BY <3>2, <4>1 DEF InsertRow, ReplicaRow, IInv, TypeOK, Request
      <4> QED
        BY <4>1, <4>2 DEF InsertRow, RowReady, IInv, RequestInv, RequestOk, ReplicaBlobs,
                          Processed
    <3> QED
      BY <3>1, <3>2
  <2> QED
    BY <2>1, RecordedBlobKept, BlobStep
<1>2. ASSUME NEW q \in requests', q.st = "written"
      PROVE  blobs'[q.to][q.row.name] = encrypted'[q.row.name]
  <2>1. PICK p \in requests : /\ p.to = q.to /\ p.row = q.row
                              /\ p.st = "written" \/ WriteBlob(p)
    BY <1>2, WrittenRequest
  <2>2. /\ q.row.name \in Processed
        /\ q.to \in Replicas /\ q.row.name \in Segments
        /\ p.body = encrypted[q.row.name]
    BY <2>1 DEF IInv, RequestInv, RequestOk, Processed, TypeOK, Request, Row
  <2>3. CASE p.st = "written"
    <3>1. blobs[q.to][q.row.name] = encrypted[q.row.name]
      BY <2>1, <2>3 DEF IInv, ReplicaBlobs
    <3> QED
      BY <2>2, <3>1, RecordedBlobKept, BlobStep
  <2>4. CASE WriteBlob(p)
    <3>1. blobs'[q.to][q.row.name] = p.body
      BY <2>1, <2>2, <2>4 DEF WriteBlob, IInv, TypeOK
    <3> QED
      BY <2>2, <3>1, RecordedBlobKept
  <2> QED
    BY <2>1, <2>3, <2>4
<1> QED
  BY <1>1, <1>2 DEF ReplicaBlobs

\* Only an accepted answer makes a shipment shipped.
LEMMA ShippedStep ==
    ASSUME IInv, [Next]_vars
    PROVE  ShippedIsHeld'
<1> USE DEF diskVars, dbVars, passVars, replicaVars
<1> SUFFICES ASSUME NEW r \in Replicas, NEW s \in Segments,
                    shipments'[<<r, s>>].status = "shipped"
             PROVE  Held(r, s)'
  BY DEF ShippedIsHeld
<1>1. Held(r, s) => Held(r, s)'
  BY StoreGrows DEF Held
<1>2. CASE shipments[<<r, s>>].status = "shipped"
  BY <1>1, <1>2 DEF IInv, ShippedIsHeld
<1>3. CASE \E q \in requests : Answered(q)
  <2>1. PICK q \in requests : Answered(q)
    BY <1>3
  <2>2. CASE <<q.to, q.row.name>> # <<r, s>>
    <3>1. shipments'[<<r, s>>] = shipments[<<r, s>>]
      BY <2>1, <2>2 DEF Answered, IInv, TypeOK
    <3> QED
      BY <1>2, <3>1
  <2>3. CASE <<q.to, q.row.name>> = <<r, s>>
    <3>1. shipments'[<<r, s>>] = AfterAnswer(shipments[<<r, s>>], q.st)
      BY <2>1, <2>3 DEF Answered, IInv, TypeOK
    <3>2. q.st = "accepted" \/ shipments[<<r, s>>].status = "shipped"
      BY <3>1 DEF AfterAnswer, IInv, TypeOK, Shipment
    <3> QED
      BY <1>1, <1>2, <2>3, <3>2 DEF IInv, RequestInv, RequestOk
  <2> QED
    BY <2>2, <2>3
<1>4. CASE GiveUp
  BY <1>2, <1>4 DEF GiveUp, IInv, TypeOK, Shipment
<1>5. CASE ReadFails \/ \E q \in requests : TimeOut(q)
  <2>1. PICK x : shipments' = [shipments EXCEPT ![x].attempts = @ + 1]
    BY <1>5 DEF ReadFails, TimeOut
  <2>2. shipments \in [Replicas \X Segments -> Shipment]
    BY DEF IInv, TypeOK
  <2>3. shipments'[<<r, s>>].status = shipments[<<r, s>>].status
    BY <2>1, <2>2 DEF Shipment
  <2> QED
    BY <1>2, <2>3
<1>6. CASE \E u \in Replicas : Enqueue(u)
  BY <1>2, <1>6 DEF Enqueue, IInv, TypeOK, Shipment
<1>7. CASE shipments' = shipments
  BY <1>2, <1>7
<1> QED
  BY <1>3, <1>4, <1>6, <1>7, <1>5
     DEF vars, Next, ProcessPass, ShipPass, Handler, Environment, ArchiveBegin,
         ArchiveEnd, AddReplica, BeginPass, CopyOut, SkipFile, AbortPass, Seal, Record,
         Clean, EndShipping, Send, Check, WriteBlob, InsertRow, ReadFails, HandlerFails, Forget, Crash

-----------------------------------------------------------------------------
(* The theorems. *)

LEMMA InitInv ==
    Init => IInv
<1> SUFFICES ASSUME Init PROVE IInv
  OBVIOUS
<1>1. wal = << >> /\ DOMAIN wal = {} /\ pc = "idle" /\ requests = {} /\ queue = {}
  BY DEF Init
<1>2. NamesUnique /\ PrimaryChain /\ BlobMatchesRow /\ PassInv /\ RequestInv
  BY <1>1 DEF NamesUnique, PrimaryChain, BlobMatchesRow, PassInv, RequestInv
<1>3. ShipInv /\ ShippedIsHeld
  BY DEF Init, ShipInv, ShippedIsHeld
<1>4. ReplicaAgrees /\ ReplicaBlobs /\ ArchiveInv
  BY DEF Init, ReplicaAgrees, ReplicaBlobs, ArchiveInv
<1> QED
  BY <1>2, <1>3, <1>4, InitType DEF IInv

LEMMA StepInv ==
    IInv /\ [Next]_vars => IInv'
  BY TypeStep, ArchiveStep, ChainStep, PassStep, ShipStep, RequestStep, ReplicaStep,
     BlobsStep, ShippedStep DEF IInv

LEMMA Invariance ==
    Spec => []IInv
  BY InitInv, StepInv, PTL DEF Spec

\* Every variable keeps its type, whatever the node, its replicas and the
\* faults do.
THEOREM TypeCorrect ==
    Spec => []TypeOK
<1>1. IInv => TypeOK
  BY DEF IInv
<1> QED
  BY <1>1, Invariance, PTL

\* wal_segments is one hash chain numbered from 0, across crashes, skipped
\* files and aborted passes.
THEOREM ChainIsLinked ==
    Spec => []PrimaryChain
<1>1. IInv => PrimaryChain
  BY DEF IInv
<1> QED
  BY <1>1, Invariance, PTL

\* The blob of every recorded segment is the one the chain covers and opens
\* under its row's name and index.
THEOREM BlobsAreChained ==
    Spec => []BlobMatchesRow
<1>1. IInv => BlobMatchesRow
  BY DEF IInv
<1> QED
  BY <1>1, Invariance, PTL

\* No replica ever holds a row that the primary did not record, even when
\* requests overlap.
THEOREM ReplicasAgree ==
    Spec => []ReplicaAgrees
<1>1. IInv => ReplicaAgrees
  BY DEF IInv
<1> QED
  BY <1>1, Invariance, PTL

\* As long as no write on a replica fails, the blob of every row a replica
\* holds is the one the row's hash covers.
THEOREM ReplicaBlobsMatch ==
    ASSUME MaxFaults["disk"] = 0
    PROVE  Spec => []ReplicaBlobMatches
<1>1. IInv => ReplicaBlobMatches
  <2> SUFFICES ASSUME IInv, NEW r \in Replicas, NEW row \in store[r]
               PROVE  /\ blobs[r][row.name] \in Body
                      /\ row.hash = ChainHash(row.prev, blobs[r][row.name])
    BY DEF ReplicaBlobMatches
  <2>1. PICK i \in DOMAIN wal : wal[i] = row
    BY DEF IInv, ReplicaAgrees
  <2>2. blobs[r][row.name] = encrypted[row.name]
    BY DEF IInv, ReplicaBlobs
  <2> QED
    BY <2>1, <2>2 DEF IInv, BlobMatchesRow
<1> QED
  BY <1>1, Invariance, PTL

\* A segment marked shipped to a replica is held by it for ever.
THEOREM ShippedMeansHeld ==
    Spec => []ShippedIsHeld
<1>1. IInv => ShippedIsHeld
  BY DEF IInv
<1> QED
  BY <1>1, Invariance, PTL
=============================================================================
