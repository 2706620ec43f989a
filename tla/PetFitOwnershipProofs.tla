----------------------- MODULE PetFitOwnershipProofs -----------------------
(***************************************************************************)
(* Who may write a row, and what follows from it.  When a device has one   *)
(* request at a time, every analysis under way belongs to one worker or to *)
(* one handler that is about to submit it, whatever crashes and whatever   *)
(* session fails: an object that a session holds is the row of the table,  *)
(* so that no write is refused or overtaken.  For any number of devices    *)
(* and clients, several clients of one device included, any pipeline, any  *)
(* queue, and any number of analyses, crashes and faults.                  *)
(***************************************************************************)
EXTENDS PetFitBackendProofs

(* The assumption on clients, and the only one: nobody sends a second      *)
(* request for a device before the first one is answered.  The code does   *)
(* not enforce it (double_create and double_retry show what happens then). *)
OneRequestPerDevice ==
    \A c, d \in Clients :
        DeviceOf[c] = DeviceOf[d] /\ req[c].pc # "idle" /\ req[d].pc # "idle" => c = d

DeviceBusy(d) == \E i \in Ids : Exists(i) /\ IsActive(db[i]) /\ db[i].device = d

RowFits(i) ==
    /\ i \in children <=> Exists(i) /\ db[i].status = "COMPLETED"
    /\ Exists(i) => i <= lastId /\ RowSound(db[i])

(* A handler holds the row as it is in the table, a row of its own device; *)
(* what it found out before its await is still so.                         *)
RequestFits(c) ==
    LET r == req[c]
    IN  /\ r.pc \in {"insert", "retry"} => ~DeviceBusy(DeviceOf[c])
        /\ r.pc \in {"retry", "submit", "full", "delete"} =>
                db[r.id] = r.snap /\ r.snap.device = DeviceOf[c]
        /\ r.pc = "retry" => r.snap.status = "FAILED"
        /\ r.pc \in {"submit", "full"} =>
                r.snap.status = "PENDING" /\ \A t \in Live : task[t].id # r.id
        /\ r.pc = "delete" => ~IsActive(r.snap)

(* A worker has an active row, which shows the stage the worker is in.     *)
WorkerFits(t) ==
    LET w == task[t]
        row == db[w.id]
    IN  /\ Exists(w.id) /\ IsActive(row)
        /\ w.pc \in {"stage", "saving"} => w.snap = row
        /\ w.pc \in {"run", "stage"} =>
                IF w.k = 0 THEN row.status = "PENDING"
                ELSE row.status = "PROCESSING" /\ row.stage = PipelineStages[w.k]
        /\ w.pc \in {"save", "saving"} =>
                /\ w.outcome.error = NoError => row.status = "PROCESSING"
                /\ w.outcome.stage # NoStage => row.stage = w.outcome.stage

OneWorkerPerRow == \A t, u \in Live : task[t].id = task[u].id => t = u

DownIsIdle == ~up => Live = {} /\ \A c \in Clients : req[c].pc = "idle"

Owned(i) ==
    \/ \E t \in Live : task[t].id = i
    \/ \E c \in Clients : req[c].pc \in {"submit", "full"} /\ req[c].id = i

ActiveIsOwned ==
    up /\ faults = 0 => \A i \in Ids : Exists(i) /\ IsActive(db[i]) => Owned(i)

(* No conjunct is inductive without the others: a worker's object is       *)
(* current because nobody else writes its row, nobody else does because    *)
(* the row is active, and it is because its worker is the only one.        *)
OwnershipInv ==
    /\ \A i \in Ids : RowFits(i)
    /\ \A c \in Clients : RequestFits(c)
    /\ \A t \in Live : WorkerFits(t)
    /\ OneWorkerPerRow
    /\ OneActivePerDevice
    /\ DownIsIdle
    /\ ActiveIsOwned

-----------------------------------------------------------------------------
(* Steps that write no row *)

(* Nothing is asked of a client whose handler holds nothing. *)
LEMMA IdleFits ==
    ASSUME NEW c \in Clients, req[c].pc \in {"idle", "upload"}
    PROVE  RequestFits(c)
BY DEF RequestFits

(* One request moves on.  The last condition is about the row it owned.    *)
LEMMA RequestMoves ==
    ASSUME BackendInv, OwnershipInv, NEW c \in Clients, NEW r,
           UNCHANGED <<storeVars, queueVars, task, up>>,
           req' = [req EXCEPT ![c] = r],
           up \/ r.pc = "idle",
           RequestFits(c)',
           faults' = 0 => /\ faults = 0
                          /\ req[c].pc \in {"submit", "full"} =>
                                r.pc \in {"submit", "full"} /\ r.id = req[c].id
    PROVE  OwnershipInv'
<1> USE DEF OwnershipInv, BackendInv
<1>1. Live' = Live
    BY QueueFrame
<1>2. req'[c] = r /\ \A d \in Clients : d # c => req'[d] = req[d]
    BY DEF RequestInv
<1>3. \A i \in Ids : RowFits(i)'
    BY DEF RowFits, Exists, storeVars
<1>4. ASSUME NEW d \in Clients
      PROVE  RequestFits(d)'
    <2>1. CASE d = c
        BY <2>1
    <2>2. CASE d # c
        BY <1>1, <1>2, <2>2 DEF RequestFits, DeviceBusy, Exists, storeVars
    <2> QED
        BY <2>1, <2>2
<1>5. \A t \in Live' : WorkerFits(t)'
    BY <1>1 DEF WorkerFits, Exists, storeVars
<1>6. OneWorkerPerRow' /\ OneActivePerDevice'
    BY <1>1 DEF OneWorkerPerRow, OneActivePerDevice, Exists, storeVars
<1>7. DownIsIdle'
    BY <1>1, <1>2 DEF DownIsIdle
<1>8. ActiveIsOwned'
    <2> SUFFICES ASSUME up, faults = 0, faults' = 0,
                        NEW i \in Ids, Exists(i), IsActive(db[i])
                 PROVE  Owned(i)'
        BY DEF ActiveIsOwned, Exists, storeVars
    <2>1. Owned(i)
        BY DEF ActiveIsOwned
    <2> QED
        BY <1>1, <1>2, <2>1 DEF Owned
<1> QED
    BY <1>3, <1>4, <1>5, <1>6, <1>7, <1>8

(* One worker moves on, with the same row. *)
LEMMA WorkerMoves ==
    ASSUME BackendInv, OwnershipInv, NEW t \in Live, NEW w,
           UNCHANGED <<storeVars, req, up>>, Live' = Live,
           task' = [task EXCEPT ![t] = w], w.id = task[t].id,
           WorkerFits(t)', faults' = 0 => faults = 0
    PROVE  OwnershipInv'
<1> USE DEF OwnershipInv, BackendInv
<1>1. t \in Tasks
    BY DEF Live, Waiting, QueueInv, QueueTypeOK
<1>2. /\ \A u \in Live : task'[u].id = task[u].id
      /\ \A u \in Live : u # t => task'[u] = task[u]
    BY <1>1 DEF WorkerInv, Live, Waiting, QueueInv, QueueTypeOK
<1>3. \A i \in Ids : RowFits(i)'
    BY DEF RowFits, Exists, storeVars
<1>4. \A d \in Clients : RequestFits(d)'
    BY <1>2 DEF RequestFits, DeviceBusy, Exists, storeVars
<1>5. ASSUME NEW u \in Live'
      PROVE  WorkerFits(u)'
    <2>1. CASE u = t
        BY <2>1
    <2>2. CASE u # t
        BY <1>2, <2>2 DEF WorkerFits, Exists, storeVars
    <2> QED
        BY <2>1, <2>2
<1>6. OneWorkerPerRow' /\ OneActivePerDevice' /\ DownIsIdle'
    BY <1>2 DEF OneWorkerPerRow, OneActivePerDevice, DownIsIdle, Exists, storeVars
<1>7. ActiveIsOwned'
    <2> SUFFICES ASSUME up, faults = 0, NEW i \in Ids, Exists(i), IsActive(db[i])
                 PROVE  Owned(i)'
        BY DEF ActiveIsOwned, Exists, storeVars
    <2>1. Owned(i)
        BY DEF ActiveIsOwned
    <2> QED
        BY <1>2, <2>1 DEF Owned
<1> QED
    BY <1>3, <1>4, <1>5, <1>6, <1>7

-----------------------------------------------------------------------------
(* Steps that write a row *)

(* A flush of an object that is current stores the object. *)
LEMMA OwnedWrite ==
    ASSUME StoreInv, NEW i \in Ids, NEW snap \in Row, NEW new \in Row,
           db[i] = snap, RowChecks(new)
    PROVE  Accepts(i, snap, new) /\ Updated(i, snap, new) = [db EXCEPT ![i] = new]
<1>1. Merged(db[i], snap, new) = new /\ db[i] # NoRow
    BY MergeOfUnchangedRow, RowAssumption
<1> QED
    BY <1>1 DEF Accepts, Updated, Exists, StoreInv

LEMMA OtherRowsFit ==
    ASSUME OwnershipInv, BackendInv, BackendInv', NEW i \in Ids, RowFits(i)',
           \A j \in Ids : j # i => db'[j] = db[j] /\ (j \in children' <=> j \in children),
           lastId <= lastId'
    PROVE  \A j \in Ids : RowFits(j)'
<1> SUFFICES ASSUME NEW j \in Ids, j # i PROVE RowFits(j)'
    OBVIOUS
<1>1. RowFits(j) /\ db'[j] = db[j] /\ (j \in children' <=> j \in children)
    BY DEF OwnershipInv
<1>2. j <= lastId => j <= lastId'
    BY DEF BackendInv, StoreInv, Ids
<1> QED
    BY <1>1, <1>2 DEF RowFits, Exists

(* A handler writes a row of its device.  The device's other clients are   *)
(* idle, and the rows of other devices are not touched.                    *)
LEMMA ClientWrites ==
    ASSUME BackendInv, BackendInv', OwnershipInv, OneRequestPerDevice,
           NEW c \in Clients, req[c].pc # "idle", NEW i \in Ids,
           UNCHANGED <<queueVars, task, up>>,
           \A d \in Clients : d # c => req'[d] = req[d],
           \A j \in Ids : j # i => db'[j] = db[j] /\ (j \in children' <=> j \in children),
           lastId <= lastId',
           Exists(i) => db[i].device = DeviceOf[c],
           Exists(i)' => db'[i].device = DeviceOf[c],
           \A t \in Live : task[t].id # i,
           RowFits(i)', RequestFits(c)',
           req[c].pc \in {"submit", "full"} => req[c].id = i,
           Exists(i)' /\ IsActive(db[i])' =>
                /\ ~DeviceBusy(DeviceOf[c])
                /\ req'[c].pc \in {"submit", "full"} /\ req'[c].id = i,
           faults' = faults
    PROVE  OwnershipInv'
<1> USE DEF OwnershipInv, BackendInv
<1>1. Live' = Live
    BY QueueFrame
<1>2. \A j \in Ids : RowFits(j)'
    BY OtherRowsFit
<1>3. ASSUME NEW d \in Clients
      PROVE  RequestFits(d)'
    <2>1. CASE d = c
        BY <2>1
    <2>2. CASE d # c /\ req[d].pc = "idle"
        BY <2>2 DEF RequestFits
    <2>3. CASE d # c /\ req[d].pc # "idle"
        <3>1. DeviceOf[d] # DeviceOf[c] /\ req'[d] = req[d] /\ RequestFits(d)
            BY <2>3 DEF OneRequestPerDevice
        <3>2. DeviceBusy(DeviceOf[d])' => DeviceBusy(DeviceOf[d])
            BY <3>1 DEF DeviceBusy, Exists
        <3>3. ASSUME req[d].pc \in {"retry", "submit", "full", "delete"}
              PROVE  db'[req[d].id] = db[req[d].id]
            <4>1. req[d].id \in Ids /\ req[d].snap \in Row
                BY <3>3 DEF RequestInv, RequestOK
            <4>2. db[req[d].id].device = DeviceOf[d] /\ Exists(req[d].id)
                BY <3>1, <3>3, <4>1, RowAssumption DEF RequestFits, Exists
            <4> QED
                BY <3>1, <4>1, <4>2
        <3> QED
            BY <1>1, <3>1, <3>2, <3>3 DEF RequestFits
    <2> QED
        BY <2>1, <2>2, <2>3
<1>4. ASSUME NEW t \in Live'
      PROVE  WorkerFits(t)'
    <2>1. WorkerFits(t) /\ task[t].id \in Ids /\ task[t].id # i
        BY <1>1 DEF WorkerInv
    <2> QED
        BY <2>1 DEF WorkerFits, Exists
<1>5. OneWorkerPerRow' /\ DownIsIdle'
    <2>1. up
        BY DEF DownIsIdle
    <2> QED
        BY <1>1, <2>1 DEF OneWorkerPerRow, DownIsIdle
<1>6. OneActivePerDevice'
    BY DEF OneActivePerDevice, DeviceBusy, Exists
<1>7. ActiveIsOwned'
    <2> SUFFICES ASSUME up, faults = 0, NEW j \in Ids, Exists(j)', IsActive(db[j])'
                 PROVE  Owned(j)'
        BY DEF ActiveIsOwned
    <2>1. CASE j = i
        BY <2>1 DEF Owned
    <2>2. CASE j # i
        <3>1. Owned(j)
            BY <2>2 DEF ActiveIsOwned, Exists
        <3> QED
            BY <1>1, <2>2, <3>1 DEF Owned
    <2> QED
        BY <2>1, <2>2
<1> QED
    BY <1>2, <1>3, <1>4, <1>5, <1>6, <1>7

(* A worker writes its row: no handler holds it, and no other worker.  The *)
(* row stays active with its worker, or both are done.                     *)
LEMMA WorkerWrites ==
    ASSUME BackendInv, BackendInv', OwnershipInv, NEW t \in Live, NEW i \in Ids,
           i = task[t].id,
           UNCHANGED <<req, up, lastId>>,
           Live' \subseteq Live, Live \ {t} \subseteq Live',
           \A u \in Live' : u # t => task'[u] = task[u],
           \A j \in Ids : j # i => db'[j] = db[j] /\ (j \in children' <=> j \in children),
           Exists(i)', db'[i].device = db[i].device,
           RowFits(i)',
           IF IsActive(db[i])' THEN t \in Live' /\ task'[t].id = i /\ WorkerFits(t)'
                               ELSE t \notin Live',
           faults' = faults
    PROVE  OwnershipInv'
<1> USE DEF OwnershipInv, BackendInv
<1>1. Exists(i) /\ IsActive(db[i])
    BY DEF WorkerFits
<1>2. \A j \in Ids : RowFits(j)'
    BY OtherRowsFit DEF StoreInv
<1>3. ASSUME NEW d \in Clients
      PROVE  RequestFits(d)'
    <2>1. RequestFits(d) /\ req'[d] = req[d]
        OBVIOUS
    <2>2. DeviceBusy(DeviceOf[d])' => DeviceBusy(DeviceOf[d])
        BY <1>1 DEF DeviceBusy, Exists
    <2>3. ASSUME req[d].pc \in {"retry", "submit", "full", "delete"}
          PROVE  db'[req[d].id] = db[req[d].id]
        <3>1. req[d].id \in Ids /\ req[d].snap \in Row
            BY <2>3 DEF RequestInv, RequestOK
        <3>2. req[d].id # i
            BY <1>1, <2>1, <2>3 DEF RequestFits, IsActive, ActiveStatuses
        <3> QED
            BY <3>1, <3>2
    <2>4. ASSUME NEW u \in Live', req[d].pc \in {"submit", "full"}
          PROVE  task'[u].id # req[d].id
        BY <2>1, <2>4 DEF RequestFits
    <2> QED
        BY <2>1, <2>2, <2>3, <2>4 DEF RequestFits
<1>4. ASSUME NEW u \in Live'
      PROVE  WorkerFits(u)' /\ task'[u].id = task[u].id
    <2>1. CASE u = t
        BY <2>1
    <2>2. CASE u # t
        <3>1. WorkerFits(u) /\ task[u].id \in Ids /\ task[u].id # i
            BY <2>2 DEF WorkerInv, OneWorkerPerRow
        <3> QED
            BY <2>2, <3>1 DEF WorkerFits, Exists
    <2> QED
        BY <2>1, <2>2
<1>5. OneWorkerPerRow' /\ DownIsIdle'
    BY <1>4 DEF OneWorkerPerRow, DownIsIdle
<1>6. OneActivePerDevice'
    BY <1>1 DEF OneActivePerDevice, Exists
<1>7. ActiveIsOwned'
    <2> SUFFICES ASSUME up, faults = 0, NEW j \in Ids, Exists(j)', IsActive(db[j])'
                 PROVE  Owned(j)'
        BY DEF ActiveIsOwned
    <2>1. CASE j = i
        BY <2>1 DEF Owned
    <2>2. CASE j # i
        <3>1. Owned(j)
            BY <2>2 DEF ActiveIsOwned, Exists
        <3>2. ASSUME NEW u \in Live, task[u].id = j
              PROVE  u \in Live' /\ task'[u].id = j
            BY <2>2, <3>2
        <3> QED
            BY <3>1, <3>2 DEF Owned
    <2> QED
        BY <2>1, <2>2
<1> QED
    BY <1>2, <1>3, <1>4, <1>5, <1>6, <1>7

-----------------------------------------------------------------------------
(* The requests, action by action *)

LEMMA ServingIsUp ==
    ASSUME OwnershipInv, NEW c \in Clients, req[c].pc # "idle"
    PROVE  up
BY DEF OwnershipInv, DownIsIdle

LEMMA BeginUploadOwned ==
    ASSUME BackendInv, OwnershipInv, NEW c \in Clients, BeginUpload(c)
    PROVE  OwnershipInv'
<1> DEFINE r == [req[c] EXCEPT !.pc = "upload"]
<1>1. req' = [req EXCEPT ![c] = r] /\ r.pc = "upload" /\ req[c].pc = "idle"
    BY DEF BeginUpload, BackendInv, RequestInv, Request
<1>2. RequestFits(c)'
    BY <1>1 DEF RequestFits, BackendInv, RequestInv
<1> HIDE DEF r
<1> QED
    BY <1>1, <1>2, RequestMoves DEF BeginUpload, boundVars

LEMMA RejectUploadOwned ==
    ASSUME BackendInv, OwnershipInv, NEW c \in Clients, RejectUpload(c)
    PROVE  OwnershipInv'
<1>1. RequestFits(c)'
    BY DEF RejectUpload, EndRequest, NoRequest, RequestFits, BackendInv, RequestInv
<1> QED
    BY <1>1, RequestMoves DEF RejectUpload, EndRequest, NoRequest, boundVars

LEMMA CheckDeviceOwned ==
    ASSUME BackendInv, OwnershipInv, NEW c \in Clients, CheckDevice(c)
    PROVE  OwnershipInv'
<1>1. req[c].pc = "upload" /\ up
    BY ServingIsUp DEF CheckDevice
<1>2. CASE EndRequest(c)
    <2>1. RequestFits(c)'
        BY <1>2 DEF EndRequest, NoRequest, RequestFits, BackendInv, RequestInv
    <2> QED
        BY <1>1, <1>2, <2>1, RequestMoves DEF CheckDevice, EndRequest, NoRequest, boundVars
<1>3. CASE ~HasActive(DeviceOf[c], NoId) /\ req' = [req EXCEPT ![c].pc = "insert"]
    <2> DEFINE r == [req[c] EXCEPT !.pc = "insert"]
    <2>1. req' = [req EXCEPT ![c] = r] /\ r.pc = "insert"
        BY <1>3 DEF BackendInv, RequestInv, Request
    <2>2. ~DeviceBusy(DeviceOf[c])
        BY <1>3 DEF HasActive, DeviceBusy, Ids, NoId
    <2>3. RequestFits(c)'
        BY <2>1, <2>2 DEF RequestFits, DeviceBusy, Exists, CheckDevice, storeVars,
                          BackendInv, RequestInv
    <2> HIDE DEF r
    <2> QED
        BY <1>1, <2>1, <2>3, RequestMoves DEF CheckDevice, boundVars
<1> QED
    BY <1>2, <1>3 DEF CheckDevice

LEMMA InsertRowOwned ==
    ASSUME BackendInv, BackendInv', OwnershipInv, OneRequestPerDevice,
           NEW c \in Clients, InsertRow(c)
    PROVE  OwnershipInv'
<1>0. lastId + 1 \in Ids /\ lastId \in Nat
    BY BackendAssumption DEF InsertRow, BackendInv, StoreInv, Ids
<1> PICK i \in Ids : i = lastId + 1
    BY <1>0
<1> DEFINE row == NewRow(DeviceOf[c])
           r == [pc |-> "submit", id |-> i, snap |-> row]
<1>1. lastId <= i /\ lastId \in Nat /\ ~(i <= lastId)
    BY <1>0
<1>2. ~Exists(i) /\ i \notin children
    BY <1>1 DEF OwnershipInv, RowFits
<1>3. /\ row \in Row /\ RowSound(row)
      /\ row.device = DeviceOf[c] /\ row.status = "PENDING" /\ row # NoRow
    BY NewRowType, NewRowSound, BackendAssumption, RowAssumption DEF NewRow
<1> HIDE DEF row
<1>4. /\ db'[i] = row /\ \A j \in Ids : j # i => db'[j] = db[j]
      /\ lastId' = i /\ children' = children /\ req[c].pc = "insert"
    BY <1>1 DEF InsertRow, BackendInv, StoreInv, row
<1>5. req'[c] = r /\ \A d \in Clients : d # c => req'[d] = req[d]
    BY DEF InsertRow, BackendInv, RequestInv, row
<1>6. ~DeviceBusy(DeviceOf[c])
    BY <1>4 DEF OwnershipInv, RequestFits
<1>7. \A t \in Live : task[t].id # i
    BY <1>2 DEF OwnershipInv, WorkerFits
<1>8. RowFits(i)'
    BY <1>1, <1>2, <1>3, <1>4 DEF RowFits, Exists
<1>9. Live' = Live /\ task' = task
    BY QueueFrame DEF InsertRow, BackendInv
<1>10. RequestFits(c)'
    BY <1>3, <1>4, <1>5, <1>7, <1>9 DEF RequestFits
<1>11. UNCHANGED <<queueVars, task, up>> /\ faults' = faults
    BY DEF InsertRow, boundVars
<1>12. r.pc = "submit" /\ r.id = i
    OBVIOUS
<1> HIDE DEF r
<1> QED
    BY <1>1, <1>2, <1>3, <1>4, <1>5, <1>6, <1>7, <1>8, <1>10, <1>11, <1>12, ClientWrites
    DEF Exists

LEMMA BeginRetryOwned ==
    ASSUME BackendInv, OwnershipInv, NEW c \in Clients, NEW i \in Ids, BeginRetry(c, i)
    PROVE  OwnershipInv'
<1> DEFINE r == [pc |-> "retry", id |-> i, snap |-> db[i]]
<1>1. req' = [req EXCEPT ![c] = r] /\ req[c].pc = "idle" /\ up
    BY DEF BeginRetry
<1>2. Exists(i) /\ db[i].device = DeviceOf[c] /\ db[i].status = "FAILED"
    BY DEF BeginRetry, Owns, CanRetry
<1>3. ~DeviceBusy(DeviceOf[c])
    BY <1>2 DEF BeginRetry, CanRetry, HasActive, DeviceBusy, IsActive, ActiveStatuses
<1>4. RequestFits(c)'
    BY <1>1, <1>2, <1>3 DEF RequestFits, DeviceBusy, Exists, BeginRetry, storeVars,
                            BackendInv, RequestInv
<1> HIDE DEF r
<1> QED
    BY <1>1, <1>4, RequestMoves DEF BeginRetry, boundVars

LEMMA CommitRetryAccepted ==
    ASSUME BackendInv, OwnershipInv, NEW c \in Clients, req[c].pc = "retry"
    PROVE  LET new == PrepareRetry(req[c].snap)
           IN  /\ Accepts(req[c].id, req[c].snap, new)
               /\ Updated(req[c].id, req[c].snap, new) = [db EXCEPT ![req[c].id] = new]
               /\ new \in Row /\ RowSound(new)
<1> DEFINE i == req[c].id
           snap == req[c].snap
           new == PrepareRetry(snap)
<1>1. i \in Ids /\ snap \in Row /\ snap.retries < MaxRetryCount
    BY DEF BackendInv, RequestInv, RequestOK
<1>2. db[i] = snap /\ snap.status = "FAILED"
    BY DEF OwnershipInv, RequestFits
<1>3. RowSound(snap)
    BY <1>1, <1>2, RowAssumption DEF OwnershipInv, RowFits, Exists
<1>4. new \in Row /\ RowSound(new)
    BY <1>1, <1>2, <1>3, PrepareRetryType, PrepareRetrySound
<1>5. RowChecks(new)
    BY <1>4 DEF RowSound
<1> HIDE DEF i, snap, new
<1>6. Accepts(i, snap, new) /\ Updated(i, snap, new) = [db EXCEPT ![i] = new]
    BY <1>1, <1>2, <1>4, <1>5, OwnedWrite DEF BackendInv
<1> QED
    BY <1>4, <1>6 DEF i, snap, new

LEMMA CommitRetryOwned ==
    ASSUME BackendInv, BackendInv', OwnershipInv, OneRequestPerDevice,
           NEW c \in Clients, CommitRetry(c)
    PROVE  OwnershipInv'
<1>0. req[c].id \in Ids
    BY DEF CommitRetry, BackendInv, RequestInv, RequestOK
<1> PICK i \in Ids : i = req[c].id
    BY <1>0
<1> DEFINE snap == req[c].snap
           new == PrepareRetry(snap)
<1>1. snap \in Row /\ req[c].pc = "retry"
    BY DEF CommitRetry, BackendInv, RequestInv, RequestOK
<1>2. /\ db[i] = snap /\ snap.device = DeviceOf[c] /\ snap.status = "FAILED"
      /\ ~DeviceBusy(DeviceOf[c])
    BY <1>1 DEF OwnershipInv, RequestFits
<1>3. Accepts(i, snap, new) /\ Updated(i, snap, new) = [db EXCEPT ![i] = new]
      /\ new \in Row /\ RowSound(new)
    BY <1>1, CommitRetryAccepted
<1>4. /\ db' = [db EXCEPT ![i] = new]
      /\ children' = children \ {i}
      /\ req' = [req EXCEPT ![c].pc = "submit", ![c].snap = new]
      /\ lastId' = lastId
    BY <1>3 DEF CommitRetry
<1>5. new.device = DeviceOf[c] /\ new.status = "PENDING" /\ new # NoRow
    BY <1>1, <1>2, <1>3, RowAssumption DEF PrepareRetry, Row
<1> HIDE DEF new
<1>6. db'[i] = new /\ \A j \in Ids : j # i => db'[j] = db[j]
    BY <1>1, <1>4 DEF BackendInv, StoreInv
<1>7. /\ req'[c].pc = "submit" /\ req'[c].id = i /\ req'[c].snap = new
      /\ \A d \in Clients : d # c => req'[d] = req[d]
    BY <1>4 DEF BackendInv, RequestInv, RequestOK, Request
<1>8. \A t \in Live : task[t].id # i
    BY <1>2 DEF OwnershipInv, WorkerFits, IsActive, ActiveStatuses
<1>9. Exists(i) /\ i <= lastId
    BY <1>1, <1>2, RowAssumption DEF OwnershipInv, RowFits, Exists
<1>10. RowFits(i)'
    BY <1>3, <1>4, <1>5, <1>6, <1>9 DEF RowFits, Exists
<1>11. Live' = Live /\ task' = task
    BY QueueFrame DEF CommitRetry, BackendInv
<1>12. RequestFits(c)'
    BY <1>5, <1>6, <1>7, <1>8, <1>11 DEF RequestFits
<1>13. UNCHANGED <<queueVars, task, up>> /\ faults' = faults
    BY DEF CommitRetry, boundVars
<1>14. lastId <= lastId'
    BY <1>4 DEF BackendInv, StoreInv
<1> HIDE DEF snap
<1> QED
    BY <1>1, <1>2, <1>4, <1>5, <1>6, <1>7, <1>8, <1>10, <1>12, <1>13, <1>14, ClientWrites
    DEF Exists

(* The row of a client that is about to submit its analysis. *)
LEMMA SubmittedRow ==
    ASSUME BackendInv, OwnershipInv, NEW c \in Clients, req[c].pc \in {"submit", "full"}
    PROVE  /\ req[c].id \in Ids /\ req[c].snap \in Row /\ db[req[c].id] = req[c].snap
           /\ req[c].snap.device = DeviceOf[c] /\ req[c].snap.status = "PENDING"
           /\ Exists(req[c].id) /\ IsActive(req[c].snap) /\ RowSound(req[c].snap)
           /\ \A t \in Live : task[t].id # req[c].id
<1>1. req[c].id \in Ids /\ req[c].snap \in Row
    BY DEF BackendInv, RequestInv, RequestOK
<1>2. RequestFits(c)
    BY DEF OwnershipInv
<1>3. db[req[c].id] = req[c].snap /\ Exists(req[c].id)
    BY <1>1, <1>2, RowAssumption DEF RequestFits, Exists
<1>4. RowSound(req[c].snap)
    BY <1>1, <1>3 DEF OwnershipInv, RowFits
<1> QED
    BY <1>1, <1>2, <1>3, <1>4 DEF RequestFits, IsActive, ActiveStatuses

LEMMA SubmitAnalysisOwned ==
    ASSUME BackendInv, OwnershipInv, OneRequestPerDevice,
           NEW c \in Clients, SubmitAnalysis(c)
    PROVE  OwnershipInv'
<1>1. req[c].pc = "submit" /\ up
    BY ServingIsUp DEF SubmitAnalysis
<1>2. CASE /\ IsFull
           /\ req' = [req EXCEPT ![c].pc = "full"]
           /\ UNCHANGED <<queueVars, task>>
    <2> DEFINE r == [req[c] EXCEPT !.pc = "full"]
    <2>1. req' = [req EXCEPT ![c] = r] /\ r.pc = "full" /\ r.id = req[c].id
          /\ r.snap = req[c].snap
        BY <1>2 DEF BackendInv, RequestInv, Request
    <2>2. RequestFits(c) /\ req'[c] = r /\ db' = db /\ Live' = Live /\ task' = task
        BY <1>2, <2>1, QueueFrame DEF OwnershipInv, BackendInv, RequestInv,
                                      SubmitAnalysis, storeVars
    <2> HIDE DEF r
    <2>3. RequestFits(c)'
        BY <1>1, <2>1, <2>2 DEF RequestFits
    <2> QED
        BY <1>1, <1>2, <2>1, <2>3, RequestMoves DEF SubmitAnalysis, boundVars
<1>3. CASE /\ Submit(FreeSlot)
           /\ task' = [task EXCEPT ![FreeSlot] = NewWorker(req[c].id)]
           /\ EndRequest(c)
    <2> USE DEF OwnershipInv, BackendInv
    <2>1. FreeSlot \in Tasks /\ FreeSlot \notin Live
        BY <1>3, FreeSlotType DEF Submit
    <2> PICK t \in Tasks : t = FreeSlot
        BY <2>1
    <2>2. Live' = Live \cup {t}
        BY <1>3, SubmitLive
    <2>3. /\ task'[t] = NewWorker(req[c].id) /\ task'[t].id = req[c].id
          /\ \A u \in Live : u # t /\ task'[u] = task[u]
        BY <1>3, <2>1 DEF WorkerInv, NewWorker, Live, Waiting, QueueInv, QueueTypeOK
    <2>4. /\ req'[c].pc = "idle"
          /\ \A d \in Clients : d # c => req'[d] = req[d]
        BY <1>3 DEF EndRequest, NoRequest, RequestInv
    <2>5. UNCHANGED <<db, children, lastId, up, faults>>
        BY DEF SubmitAnalysis, storeVars, boundVars
    <2>6. \A i \in Ids : RowFits(i)'
        BY <2>5 DEF RowFits, Exists
    <2>7. ASSUME NEW d \in Clients
          PROVE  RequestFits(d)'
        <3>1. CASE d = c
            BY <2>4, <3>1 DEF RequestFits
        <3>2. CASE d # c
            <4>1. RequestFits(d) /\ req'[d] = req[d]
                BY <2>4, <3>2
            <4>2. req[d].pc \in {"submit", "full"} => req[d].id # req[c].id
                BY <1>1, <3>2, SubmittedRow DEF OneRequestPerDevice
            <4> QED
                BY <2>2, <2>3, <2>5, <4>1, <4>2 DEF RequestFits, DeviceBusy, Exists
        <3> QED
            BY <3>1, <3>2
    <2>8. WorkerFits(t)'
        <3>1. /\ task'[t].pc = "run" /\ task'[t].k = 0 /\ task'[t].id = req[c].id
              /\ db'[req[c].id] = req[c].snap
            BY <1>1, <2>3, <2>5, SubmittedRow DEF NewWorker
        <3>2. req[c].snap # NoRow /\ IsActive(req[c].snap) /\ req[c].snap.status = "PENDING"
            BY <1>1, SubmittedRow, RowAssumption
        <3> QED
            BY <3>1, <3>2 DEF WorkerFits, Exists, IsActive
    <2>9. ASSUME NEW u \in Live'
          PROVE  WorkerFits(u)'
        BY <2>2, <2>3, <2>5, <2>8, <2>9 DEF WorkerFits, Exists
    <2>10. OneWorkerPerRow'
        BY <1>1, <2>2, <2>3, SubmittedRow DEF OneWorkerPerRow
    <2>11. OneActivePerDevice' /\ DownIsIdle'
        BY <1>1, <2>5 DEF OneActivePerDevice, DownIsIdle, Exists
    <2>12. ActiveIsOwned'
        <3> SUFFICES ASSUME up, faults = 0, NEW j \in Ids, Exists(j), IsActive(db[j])
                     PROVE  Owned(j)'
            BY <2>5 DEF ActiveIsOwned, Exists
        <3>1. Owned(j)
            BY DEF ActiveIsOwned
        <3> QED
            BY <2>2, <2>3, <2>4, <3>1 DEF Owned
    <2> QED
        BY <2>6, <2>7, <2>9, <2>10, <2>11, <2>12
<1> QED
    BY <1>2, <1>3 DEF SubmitAnalysis

LEMMA RecordQueueFullAccepted ==
    ASSUME BackendInv, OwnershipInv, NEW c \in Clients, req[c].pc = "full"
    PROVE  LET new == MarkFailed(req[c].snap, "queue full", NoStage)
           IN  /\ Accepts(req[c].id, req[c].snap, new)
               /\ Updated(req[c].id, req[c].snap, new) = [db EXCEPT ![req[c].id] = new]
               /\ new \in Row /\ RowSound(new)
<1> DEFINE i == req[c].id
           snap == req[c].snap
           new == MarkFailed(snap, "queue full", NoStage)
<1>1. i \in Ids /\ snap \in Row /\ db[i] = snap /\ IsActive(snap) /\ RowSound(snap)
    BY SubmittedRow
<1>2. new \in Row /\ RowSound(new)
    BY <1>1, MarkFailedType, MarkFailedSound DEF Errors
<1>3. RowChecks(new)
    BY <1>2 DEF RowSound
<1> HIDE DEF i, snap, new
<1>4. Accepts(i, snap, new) /\ Updated(i, snap, new) = [db EXCEPT ![i] = new]
    BY <1>1, <1>2, <1>3, OwnedWrite DEF BackendInv
<1> QED
    BY <1>2, <1>4 DEF i, snap, new

LEMMA RecordQueueFullOwned ==
    ASSUME BackendInv, BackendInv', OwnershipInv, OneRequestPerDevice,
           NEW c \in Clients, RecordQueueFull(c)
    PROVE  OwnershipInv'
<1>0. req[c].id \in Ids /\ req[c].pc = "full"
    BY DEF RecordQueueFull, BackendInv, RequestInv, RequestOK
<1> PICK i \in Ids : i = req[c].id
    BY <1>0
<1> DEFINE snap == req[c].snap
           new == MarkFailed(snap, "queue full", NoStage)
<1>1. /\ snap \in Row /\ db[i] = snap /\ snap.device = DeviceOf[c]
      /\ Exists(i) /\ IsActive(snap)
      /\ \A t \in Live : task[t].id # i
    BY <1>0, SubmittedRow
<1>2. Accepts(i, snap, new) /\ Updated(i, snap, new) = [db EXCEPT ![i] = new]
      /\ new \in Row /\ RowSound(new)
    BY <1>0, RecordQueueFullAccepted
<1>3. db' = [db EXCEPT ![i] = new] /\ UNCHANGED <<children, lastId, queueVars, task, up, faults>>
    BY <1>2 DEF RecordQueueFull, boundVars
<1>4. new.device = DeviceOf[c] /\ new.status = "FAILED" /\ ~IsActive(new) /\ new # NoRow
    BY <1>1, <1>2, RowAssumption DEF MarkFailed, Row, IsActive, ActiveStatuses
<1> HIDE DEF new
<1>5. db'[i] = new /\ \A j \in Ids : j # i => db'[j] = db[j]
    BY <1>3 DEF BackendInv, StoreInv
<1>6. req'[c].pc = "idle" /\ \A d \in Clients : d # c => req'[d] = req[d]
    BY DEF RecordQueueFull, EndRequest, NoRequest, BackendInv, RequestInv
<1>7. i \notin children /\ i <= lastId
    BY <1>1 DEF OwnershipInv, RowFits, IsActive, ActiveStatuses
<1>8. RowFits(i)'
    BY <1>2, <1>3, <1>4, <1>5, <1>7 DEF RowFits, Exists
<1>9. RequestFits(c)'
    BY <1>6 DEF RequestFits
<1>10. lastId <= lastId'
    BY <1>3 DEF BackendInv, StoreInv
<1> HIDE DEF snap
<1> QED
    BY <1>0, <1>1, <1>3, <1>4, <1>5, <1>6, <1>8, <1>9, <1>10, ClientWrites DEF Exists

LEMMA BeginDeleteOwned ==
    ASSUME BackendInv, OwnershipInv, NEW c \in Clients, NEW i \in Ids, BeginDelete(c, i)
    PROVE  OwnershipInv'
<1> DEFINE r == [pc |-> "delete", id |-> i, snap |-> db[i]]
<1>1. req' = [req EXCEPT ![c] = r] /\ req[c].pc = "idle" /\ up
    BY DEF BeginDelete
<1>2. db[i].device = DeviceOf[c] /\ ~IsActive(db[i])
    BY DEF BeginDelete, Owns
<1>3. RequestFits(c)'
    BY <1>1, <1>2 DEF RequestFits, BeginDelete, storeVars, BackendInv, RequestInv
<1> HIDE DEF r
<1> QED
    BY <1>1, <1>3, RequestMoves DEF BeginDelete, boundVars

LEMMA CommitDeleteOwned ==
    ASSUME BackendInv, BackendInv', OwnershipInv, OneRequestPerDevice,
           NEW c \in Clients, CommitDelete(c)
    PROVE  OwnershipInv'
<1>0. req[c].id \in Ids /\ req[c].snap \in Row /\ req[c].pc = "delete"
    BY DEF CommitDelete, BackendInv, RequestInv, RequestOK
<1> PICK i \in Ids : i = req[c].id
    BY <1>0
<1>1. db[i] = req[c].snap /\ db[i].device = DeviceOf[c] /\ ~IsActive(db[i])
    BY <1>0 DEF OwnershipInv, RequestFits
<1>2. /\ db' = [db EXCEPT ![i] = NoRow] /\ children' = children \ {i}
      /\ UNCHANGED <<lastId, queueVars, task, up, faults>>
    BY DEF CommitDelete, boundVars
<1>3. db'[i] = NoRow /\ \A j \in Ids : j # i => db'[j] = db[j]
    BY <1>2 DEF BackendInv, StoreInv
<1>4. req'[c].pc = "idle" /\ \A d \in Clients : d # c => req'[d] = req[d]
    BY DEF CommitDelete, EndRequest, NoRequest, BackendInv, RequestInv
<1>5. \A t \in Live : task[t].id # i
    BY <1>1 DEF OwnershipInv, WorkerFits
<1>6. RowFits(i)'
    BY <1>2, <1>3 DEF RowFits, Exists
<1>7. RequestFits(c)'
    BY <1>4 DEF RequestFits
<1>8. lastId <= lastId'
    BY <1>2 DEF BackendInv, StoreInv
<1> QED
    BY <1>0, <1>1, <1>2, <1>3, <1>4, <1>5, <1>6, <1>7, <1>8, ClientWrites DEF Exists

LEMMA RequestFaultOwned ==
    ASSUME BackendInv, OwnershipInv, NEW c \in Clients, RequestFault(c)
    PROVE  OwnershipInv'
<1>1. RequestFits(c)'
    BY DEF RequestFault, EndRequest, NoRequest, RequestFits, BackendInv, RequestInv
<1>2. faults' # 0
    BY DEF RequestFault, CountFault, BackendInv, BoundsInv
<1> QED
    BY <1>1, <1>2, RequestMoves DEF RequestFault, EndRequest, NoRequest

-----------------------------------------------------------------------------
(* The workers, action by action *)

(* The row of a worker. *)
LEMMA OwnedRow ==
    ASSUME BackendInv, OwnershipInv, NEW t \in running
    PROVE  /\ t \in Tasks /\ t \in Live /\ WorkerOK(task[t]) /\ WorkerFits(t)
           /\ task[t].id \in Ids /\ db[task[t].id] \in Row /\ Exists(task[t].id)
           /\ IsActive(db[task[t].id]) /\ RowSound(db[task[t].id])
           /\ task[t].id <= lastId /\ task[t].id \notin children
<1>1. t \in Tasks /\ t \in Live /\ WorkerOK(task[t]) /\ task[t].id \in Ids
    BY RunningWorker DEF BackendInv
<1>2. WorkerFits(t)
    BY <1>1 DEF OwnershipInv
<1>3. Exists(task[t].id) /\ IsActive(db[task[t].id])
    BY <1>2 DEF WorkerFits
<1>4. db[task[t].id] \in Row
    BY <1>1, <1>3 DEF BackendInv, StoreInv, Exists
<1>5. RowFits(task[t].id)
    BY <1>1 DEF OwnershipInv
<1> QED
    BY <1>1, <1>2, <1>3, <1>4, <1>5 DEF RowFits, IsActive, ActiveStatuses

LEMMA LiveAreTasks ==
    ASSUME QueueInv
    PROVE  Live \subseteq Tasks
BY DEF QueueInv, QueueTypeOK, Live, Waiting

LEMMA StartTaskOwned ==
    ASSUME BackendInv, OwnershipInv, NEW t \in Tasks, StartTask(t)
    PROVE  OwnershipInv'
<1>1. Live' = Live
    BY AcquireLive DEF StartTask, BackendInv
<1>2. UNCHANGED <<db, children, lastId, req, task, up, faults>>
    BY DEF StartTask, storeVars, boundVars
<1>3. \A i \in Ids : RowFits(i)'
    BY <1>2 DEF OwnershipInv, RowFits, Exists
<1>4. \A c \in Clients : RequestFits(c)'
    BY <1>1, <1>2 DEF OwnershipInv, RequestFits, DeviceBusy, Exists
<1>5. \A u \in Live' : WorkerFits(u)'
    BY <1>1, <1>2 DEF OwnershipInv, WorkerFits, Exists
<1>6. ActiveIsOwned'
    BY <1>1, <1>2 DEF OwnershipInv, ActiveIsOwned, Owned, Exists
<1> QED
    BY <1>1, <1>2, <1>3, <1>4, <1>5, <1>6
    DEF OwnershipInv, OneWorkerPerRow, OneActivePerDevice, DownIsIdle, Exists

LEMMA SettleOwned ==
    ASSUME BackendInv, OwnershipInv, NEW t \in running, NEW error, NEW stage,
           Settle(t, error, stage),
           UNCHANGED <<queueVars, storeVars, req, up>>, faults' = 0 => faults = 0,
           error = NoError => db[task[t].id].status = "PROCESSING",
           stage # NoStage => db[task[t].id].stage = stage
    PROVE  OwnershipInv'
<1> DEFINE w == [task[t] EXCEPT !.pc = "save", !.snap = NoRow,
                                !.outcome = [error |-> error, stage |-> stage]]
<1>1. WorkerFits(t) /\ t \in Live /\ t \in Tasks /\ task[t] \in Worker
    BY OwnedRow DEF WorkerOK
<1>2. /\ task' = [task EXCEPT ![t] = w]
      /\ w.pc = "save" /\ w.id = task[t].id
      /\ w.outcome.error = error /\ w.outcome.stage = stage
    BY <1>1 DEF Settle, BackendInv, WorkerInv, Worker
<1>3. task'[t] = w /\ Live' = Live /\ db' = db
    BY <1>1, <1>2, QueueFrame DEF BackendInv, WorkerInv, storeVars
<1> HIDE DEF w
<1>4. WorkerFits(t)'
    BY <1>1, <1>2, <1>3 DEF WorkerFits, Exists
<1> QED
    BY <1>1, <1>2, <1>3, <1>4, WorkerMoves

LEMMA ReadStageOwned ==
    ASSUME BackendInv, OwnershipInv, NEW t \in Tasks, ReadStage(t)
    PROVE  OwnershipInv'
<1> DEFINE w == [task[t] EXCEPT !.pc = "stage", !.snap = db[task[t].id]]
<1>1. t \in running /\ task[t].pc = "run"
    BY DEF ReadStage
<1>2. WorkerFits(t) /\ t \in Live /\ task[t] \in Worker /\ Exists(task[t].id)
    BY <1>1, OwnedRow DEF WorkerOK
<1>3. /\ task' = [task EXCEPT ![t] = w]
      /\ w.pc = "stage" /\ w.id = task[t].id /\ w.k = task[t].k /\ w.snap = db[task[t].id]
    BY <1>2 DEF ReadStage, Worker
<1>4. task'[t] = w /\ Live' = Live
    BY <1>3, QueueFrame DEF ReadStage, BackendInv, WorkerInv
<1>5. UNCHANGED <<storeVars, req, up>> /\ db' = db /\ faults' = faults
    BY DEF ReadStage, storeVars, boundVars
<1> HIDE DEF w
<1>6. WorkerFits(t)'
    BY <1>1, <1>2, <1>3, <1>4, <1>5 DEF WorkerFits, Exists
<1> QED
    BY <1>2, <1>3, <1>4, <1>5, <1>6, WorkerMoves

LEMMA WriteStageAccepted ==
    ASSUME BackendInv, OwnershipInv, NEW t \in running, task[t].pc = "stage"
    PROVE  LET w == task[t]
               new == MarkStage(w.snap, PipelineStages[w.k + 1])
           IN  /\ w.snap = db[w.id]
               /\ Accepts(w.id, w.snap, new)
               /\ Updated(w.id, w.snap, new) = [db EXCEPT ![w.id] = new]
               /\ new \in Row /\ RowSound(new)
               /\ w.k \in Nat /\ PipelineStages[w.k + 1] \in Stages
<1> DEFINE i == task[t].id
           snap == task[t].snap
           s == PipelineStages[task[t].k + 1]
           new == MarkStage(snap, s)
<1>1. i \in Ids /\ snap = db[i] /\ snap \in Row /\ IsActive(snap) /\ RowSound(snap)
    BY OwnedRow DEF WorkerFits
<1>2. task[t].k + 1 \in 1..Len(PipelineStages) /\ task[t].k \in Nat
    BY OwnedRow, BackendAssumption, LenProperties DEF WorkerOK, Worker
<1>3. s \in Stages
    BY <1>2, BackendAssumption, ElementOfSeq
<1> HIDE DEF i, snap, s
<1>4. new \in Row /\ RowSound(new)
    BY <1>1, <1>3, MarkStageType, MarkStageSound
<1>5. RowChecks(new)
    BY <1>4 DEF RowSound
<1> HIDE DEF new
<1>6. Accepts(i, snap, new) /\ Updated(i, snap, new) = [db EXCEPT ![i] = new]
    BY <1>1, <1>4, <1>5, OwnedWrite DEF BackendInv
<1> QED
    BY <1>1, <1>2, <1>3, <1>4, <1>6 DEF i, snap, s, new

LEMMA WriteStageOwned ==
    ASSUME BackendInv, BackendInv', OwnershipInv, NEW t \in Tasks, WriteStage(t)
    PROVE  OwnershipInv'
<1>1. t \in running /\ task[t].pc = "stage"
    BY DEF WriteStage
<1>2. /\ WorkerFits(t) /\ t \in Live /\ task[t] \in Worker
      /\ task[t].id \in Ids /\ Exists(task[t].id) /\ task[t].id \notin children
      /\ task[t].id <= lastId
    BY <1>1, OwnedRow DEF WorkerOK
<1> PICK i \in Ids : i = task[t].id
    BY <1>2
<1> DEFINE s == PipelineStages[task[t].k + 1]
           new == MarkStage(task[t].snap, s)
<1>3. /\ task[t].snap = db[i]
      /\ Accepts(i, task[t].snap, new)
      /\ Updated(i, task[t].snap, new) = [db EXCEPT ![i] = new]
      /\ new \in Row /\ RowSound(new) /\ task[t].k \in Nat
    BY <1>1, WriteStageAccepted
<1>4. /\ db' = [db EXCEPT ![i] = new]
      /\ task' = [task EXCEPT ![t].pc = "run", ![t].k = @ + 1, ![t].snap = NoRow]
      /\ UNCHANGED <<queueVars, children, lastId, req, up, faults>>
    BY <1>3 DEF WriteStage, boundVars
<1>5. task[t].snap \in Row
    BY <1>1, OwnedRow DEF WorkerOK
<1>6. /\ new.device = db[i].device /\ new.status = "PROCESSING" /\ new.stage = s
      /\ new # NoRow /\ IsActive(new)
    BY <1>3, <1>5, RowAssumption DEF MarkStage, Row, IsActive, ActiveStatuses
<1> HIDE DEF new
<1>7. db'[i] = new /\ \A j \in Ids : j # i => db'[j] = db[j]
    BY <1>4 DEF BackendInv, StoreInv
<1>8. /\ task'[t].pc = "run" /\ task'[t].k = task[t].k + 1 /\ task'[t].id = i
      /\ \A u \in Tasks : u # t => task'[u] = task[u]
    BY <1>2, <1>4 DEF BackendInv, WorkerInv, Worker
<1>9. Live' = Live /\ Live \subseteq Tasks
    BY <1>4, QueueFrame, LiveAreTasks DEF BackendInv
<1>10. RowFits(i)'
    BY <1>2, <1>3, <1>4, <1>6, <1>7 DEF RowFits, Exists
<1>11. WorkerFits(t)'
    <2>1. task[t].k + 1 # 0 /\ s = PipelineStages[task'[t].k]
        BY <1>3, <1>8
    <2> QED
        BY <1>6, <1>7, <1>8, <2>1 DEF WorkerFits, Exists
<1> HIDE DEF s
<1> QED
    BY <1>2, <1>4, <1>6, <1>7, <1>8, <1>9, <1>10, <1>11, WorkerWrites DEF Exists

LEMMA PipelineReturnsOwned ==
    ASSUME BackendInv, OwnershipInv, NEW t \in Tasks, PipelineReturns(t)
    PROVE  OwnershipInv'
<1>1. t \in running /\ task[t].pc = "run" /\ task[t].k = Len(PipelineStages)
    BY DEF PipelineReturns
<1>2. Len(PipelineStages) # 0
    BY BackendAssumption, EmptySeq
<1>3. db[task[t].id].status = "PROCESSING"
    BY <1>1, <1>2, OwnedRow DEF WorkerFits
<1> QED
    BY <1>1, <1>3, SettleOwned DEF PipelineReturns, boundVars

LEMMA PipelineRaisesOwned ==
    ASSUME BackendInv, OwnershipInv, NEW t \in Tasks, PipelineRaises(t)
    PROVE  OwnershipInv'
<1>1. t \in running /\ task[t].pc = "run" /\ task[t].k # 0
    BY DEF PipelineRaises
<1>2. db[task[t].id].stage = PipelineStages[task[t].k]
    BY <1>1, OwnedRow DEF WorkerFits
<1> QED
    BY <1>1, <1>2, SettleOwned DEF PipelineRaises, boundVars, NoError

LEMMA TimeOutOwned ==
    ASSUME BackendInv, OwnershipInv, NEW t \in Tasks, TimeOut(t)
    PROVE  OwnershipInv'
BY SettleOwned DEF TimeOut, InPipeline, boundVars, NoError

LEMMA StageFaultOwned ==
    ASSUME BackendInv, OwnershipInv, NEW t \in Tasks, StageFault(t)
    PROVE  OwnershipInv'
<1>1. faults' # 0
    BY DEF StageFault, CountFault, BackendInv, BoundsInv
<1> QED
    BY <1>1, SettleOwned DEF StageFault, InPipeline, NoError

LEMMA ReadForSaveOwned ==
    ASSUME BackendInv, OwnershipInv, NEW t \in Tasks, ReadForSave(t)
    PROVE  OwnershipInv'
<1> DEFINE w == [task[t] EXCEPT !.pc = "saving", !.snap = db[task[t].id]]
<1>1. t \in running /\ task[t].pc = "save"
    BY DEF ReadForSave
<1>2. WorkerFits(t) /\ t \in Live /\ task[t] \in Worker /\ Exists(task[t].id)
    BY <1>1, OwnedRow DEF WorkerOK
<1>3. /\ task' = [task EXCEPT ![t] = w]
      /\ w.pc = "saving" /\ w.id = task[t].id /\ w.outcome = task[t].outcome
      /\ w.snap = db[task[t].id]
    BY <1>2 DEF ReadForSave, Worker, BackendInv, WorkerInv
<1>4. task'[t] = w /\ Live' = Live
    BY <1>2, <1>3, QueueFrame DEF ReadForSave, BackendInv, WorkerInv
<1>5. UNCHANGED <<storeVars, req, up>> /\ db' = db /\ faults' = faults
    BY DEF ReadForSave, storeVars, boundVars
<1> HIDE DEF w
<1>6. WorkerFits(t)'
    BY <1>1, <1>2, <1>3, <1>4, <1>5 DEF WorkerFits, Exists
<1> QED
    BY <1>2, <1>3, <1>4, <1>5, <1>6, WorkerMoves

(* The worker is done, and so is its row. *)
LEMMA EndedTask ==
    ASSUME BackendInv, NEW t \in Tasks, EndTask(t)
    PROVE  /\ Live' = Live \ {t}
           /\ \A u \in Live' : task'[u] = task[u]
<1>1. Live' = Live \ {t} /\ Live \subseteq Tasks
    BY FinishLive, LiveAreTasks DEF EndTask, BackendInv
<1>2. \A u \in Tasks : u # t => task'[u] = task[u]
    BY DEF EndTask, BackendInv, WorkerInv
<1> QED
    BY <1>1, <1>2

LEMMA SaveFailureAccepted ==
    ASSUME BackendInv, OwnershipInv, NEW t \in running,
           task[t].pc = "saving", task[t].outcome.error # NoError
    PROVE  LET w == task[t]
               new == MarkFailed(w.snap, w.outcome.error, w.outcome.stage)
           IN  /\ w.snap = db[w.id]
               /\ Accepts(w.id, w.snap, new)
               /\ Updated(w.id, w.snap, new) = [db EXCEPT ![w.id] = new]
               /\ new \in Row /\ RowSound(new)
               /\ new.status = "FAILED" /\ new.device = w.snap.device
<1> DEFINE i == task[t].id
           snap == task[t].snap
           e == task[t].outcome.error
           s == task[t].outcome.stage
           new == MarkFailed(snap, e, s)
<1>1. i \in Ids /\ snap = db[i] /\ snap \in Row /\ IsActive(snap) /\ RowSound(snap)
    BY OwnedRow DEF WorkerFits
<1>2. e \in Errors /\ s \in Stages \cup {NoStage}
    BY OwnedRow DEF WorkerOK, Worker, Outcome
<1> HIDE DEF i, snap, e, s
<1>3. new \in Row /\ RowSound(new)
    BY <1>1, <1>2, MarkFailedType, MarkFailedSound
<1>4. RowChecks(new)
    BY <1>3 DEF RowSound
<1>5. new.status = "FAILED" /\ new.device = snap.device
    BY <1>1 DEF MarkFailed, Row
<1> HIDE DEF new
<1>6. Accepts(i, snap, new) /\ Updated(i, snap, new) = [db EXCEPT ![i] = new]
    BY <1>1, <1>3, <1>4, OwnedWrite DEF BackendInv
<1> QED
    BY <1>1, <1>3, <1>5, <1>6 DEF i, snap, e, s, new

LEMMA SaveFailureOwned ==
    ASSUME BackendInv, BackendInv', OwnershipInv, NEW t \in Tasks, SaveFailure(t)
    PROVE  OwnershipInv'
<1>1. t \in running /\ task[t].pc = "saving" /\ task[t].outcome.error # NoError /\ EndTask(t)
    BY DEF SaveFailure
<1>2. /\ t \in Live /\ task[t].id \in Ids /\ Exists(task[t].id)
      /\ task[t].id \notin children /\ task[t].id <= lastId
    BY <1>1, OwnedRow
<1> PICK i \in Ids : i = task[t].id
    BY <1>2
<1> DEFINE new == MarkFailed(task[t].snap, task[t].outcome.error, task[t].outcome.stage)
<1>3. /\ task[t].snap = db[i]
      /\ Accepts(i, task[t].snap, new)
      /\ Updated(i, task[t].snap, new) = [db EXCEPT ![i] = new]
      /\ new \in Row /\ RowSound(new) /\ new.status = "FAILED" /\ new.device = db[i].device
    BY <1>1, SaveFailureAccepted
<1>4. db' = [db EXCEPT ![i] = new] /\ UNCHANGED <<children, lastId, req, up, faults>>
    BY <1>3 DEF SaveFailure, boundVars
<1> HIDE DEF new
<1>5. db'[i] = new /\ \A j \in Ids : j # i => db'[j] = db[j]
    BY <1>4 DEF BackendInv, StoreInv
<1>6. new # NoRow /\ ~IsActive(new)
    BY <1>3, RowAssumption DEF IsActive, ActiveStatuses
<1>7. RowFits(i)'
    BY <1>2, <1>3, <1>4, <1>5, <1>6 DEF RowFits, Exists
<1>8. Live' = Live \ {t} /\ \A u \in Live' : task'[u] = task[u]
    BY <1>1, EndedTask
<1>9. ~IsActive(db[i])'
    BY <1>5, <1>6 DEF IsActive
<1> QED
    BY <1>2, <1>3, <1>4, <1>5, <1>6, <1>7, <1>8, <1>9, WorkerWrites DEF Exists

(* The result of a worker can be stored, and stored it is the row object.  *)
LEMMA SaveResultAccepted ==
    ASSUME BackendInv, OwnershipInv, NEW t \in running,
           task[t].pc = "saving", task[t].outcome.error = NoError
    PROVE  LET w == task[t]
               new == MarkCompleted(w.snap)
           IN  /\ w.snap = db[w.id] /\ w.snap.status = "PROCESSING"
               /\ StorableResult(w)
               /\ MergedCompletion(db[w.id], w.snap) = new
               /\ new \in Row /\ RowSound(new)
               /\ new.status = "COMPLETED" /\ new.device = w.snap.device
<1> DEFINE i == task[t].id
           snap == task[t].snap
           new == MarkCompleted(snap)
<1>1. /\ i \in Ids /\ snap = db[i] /\ snap \in Row /\ IsActive(snap) /\ RowSound(snap)
      /\ Exists(i) /\ i \notin children /\ snap.status = "PROCESSING"
    BY OwnedRow DEF WorkerFits
<1> HIDE DEF i, snap
<1>2. new \in Row /\ RowSound(new)
    BY <1>1, MarkCompletedType, MarkCompletedSound
<1>3. /\ new.status = "COMPLETED" /\ new.device = snap.device
      /\ new.completed = TRUE /\ new.results = TRUE
    BY <1>1 DEF MarkCompleted, Row
<1>4. Merged(snap, snap, new) = new
    BY <1>1, <1>2, MergeOfUnchangedRow
<1>5. MergedCompletion(db[i], snap) = [new EXCEPT !.completed = TRUE, !.results = TRUE]
    BY <1>1, <1>4 DEF MergedCompletion
<1> HIDE DEF new
<1>6. MergedCompletion(db[i], snap) = new
    BY <1>2, <1>3, <1>5 DEF Row
<1>7. StorableResult(task[t])
    BY <1>1, <1>2, <1>6 DEF StorableResult, RowSound, i, snap
<1> QED
    BY <1>1, <1>2, <1>3, <1>6, <1>7 DEF i, snap, new

LEMMA SaveResultOwned ==
    ASSUME BackendInv, BackendInv', OwnershipInv, NEW t \in Tasks, SaveResult(t)
    PROVE  OwnershipInv'
<1>1. t \in running /\ task[t].pc = "saving" /\ task[t].outcome.error = NoError /\ EndTask(t)
    BY DEF SaveResult
<1>2. t \in Live /\ task[t].id \in Ids /\ Exists(task[t].id) /\ task[t].id <= lastId
    BY <1>1, OwnedRow
<1> PICK i \in Ids : i = task[t].id
    BY <1>2
<1> DEFINE new == MarkCompleted(task[t].snap)
<1>3. /\ task[t].snap = db[i] /\ StorableResult(task[t])
      /\ MergedCompletion(db[i], task[t].snap) = new
      /\ new \in Row /\ RowSound(new) /\ new.status = "COMPLETED"
      /\ new.device = db[i].device
    BY <1>1, SaveResultAccepted
<1> HIDE DEF new
<1>4. /\ db' = [db EXCEPT ![i] = new] /\ children' = children \cup {i}
      /\ UNCHANGED <<lastId, req, up, faults>>
    BY <1>3 DEF SaveResult, boundVars
<1>5. db'[i] = new /\ \A j \in Ids : j # i => db'[j] = db[j]
    BY <1>4 DEF BackendInv, StoreInv
<1>6. new # NoRow /\ ~IsActive(new)
    BY <1>3, RowAssumption DEF IsActive, ActiveStatuses
<1>7. RowFits(i)'
    BY <1>2, <1>3, <1>4, <1>5, <1>6 DEF RowFits, Exists
<1>8. Live' = Live \ {t} /\ \A u \in Live' : task'[u] = task[u]
    BY <1>1, EndedTask
<1>9. ~IsActive(db[i])'
    BY <1>5, <1>6 DEF IsActive
<1> QED
    BY <1>2, <1>3, <1>4, <1>5, <1>6, <1>7, <1>8, <1>9, WorkerWrites DEF Exists

(* The outcome is lost: the row stays active with nobody behind it. *)
LEMMA SaveFaultOwned ==
    ASSUME BackendInv, OwnershipInv, NEW t \in Tasks, SaveFault(t)
    PROVE  OwnershipInv'
<1>1. Live' = Live \ {t} /\ \A u \in Live' : task'[u] = task[u]
    BY EndedTask DEF SaveFault
<1>2. UNCHANGED <<db, children, lastId, req, up>>
    BY DEF SaveFault, storeVars
<1>3. faults' # 0
    BY DEF SaveFault, CountFault, BackendInv, BoundsInv
<1>4. \A i \in Ids : RowFits(i)'
    BY <1>2 DEF OwnershipInv, RowFits, Exists
<1>5. \A c \in Clients : RequestFits(c)'
    BY <1>1, <1>2 DEF OwnershipInv, RequestFits, DeviceBusy, Exists
<1>6. \A u \in Live' : WorkerFits(u)'
    BY <1>1, <1>2 DEF OwnershipInv, WorkerFits, Exists
<1>7. ActiveIsOwned'
    BY <1>3 DEF ActiveIsOwned
<1> QED
    BY <1>1, <1>2, <1>4, <1>5, <1>6, <1>7
    DEF OwnershipInv, OneWorkerPerRow, OneActivePerDevice, DownIsIdle, Exists

-----------------------------------------------------------------------------
(* Crash and restart *)

LEMMA CrashOwned ==
    ASSUME BackendInv, OwnershipInv, Crash
    PROVE  OwnershipInv'
<1>1. Live' = {}
    BY DEF Crash, Discard, Live, Waiting
<1>2. ~up' /\ \A c \in Clients : req'[c].pc = "idle"
    BY DEF Crash, NoRequest
<1>3. UNCHANGED <<db, children, lastId>>
    BY DEF Crash, storeVars
<1>4. \A i \in Ids : RowFits(i)'
    BY <1>3 DEF OwnershipInv, RowFits, Exists
<1>5. \A c \in Clients : RequestFits(c)'
    BY <1>2 DEF RequestFits
<1> QED
    BY <1>1, <1>2, <1>3, <1>4, <1>5
    DEF OwnershipInv, OneWorkerPerRow, OneActivePerDevice, DownIsIdle, ActiveIsOwned, Exists

LEMMA StartupOwned ==
    ASSUME BackendInv, OwnershipInv, Startup
    PROVE  OwnershipInv'
<1>1. ~up /\ UNCHANGED <<pending, waiting, running, children, lastId, req, task, faults>>
    BY DEF Startup, queueVars, requestVars
<1>2. Live' = {} /\ \A c \in Clients : req'[c].pc = "idle"
    BY <1>1 DEF OwnershipInv, DownIsIdle, Live, Waiting
<1>3. ASSUME NEW i \in Ids
      PROVE  RowFits(i)' /\ ~(Exists(i)' /\ IsActive(db[i])')
    <2>1. CASE Exists(i) /\ IsActive(db[i])
        <3> DEFINE new == FailInterrupted(db[i])
        <3>1. db'[i] = new
            BY <2>1 DEF Startup
        <3>2. db[i] \in Row /\ RowSound(db[i]) /\ i <= lastId /\ i \notin children
            BY <2>1 DEF BackendInv, StoreInv, Exists, OwnershipInv, RowFits, IsActive,
                        ActiveStatuses
        <3>3. new \in Row /\ RowSound(new)
            BY <2>1, <3>2, FailInterruptedType, FailInterruptedSound
        <3>4. new.status = "FAILED" /\ new # NoRow
            BY <3>2, <3>3, RowAssumption DEF FailInterrupted, Row
        <3> HIDE DEF new
        <3> QED
            BY <1>1, <3>1, <3>2, <3>3, <3>4 DEF RowFits, Exists, IsActive, ActiveStatuses
    <2>2. CASE ~(Exists(i) /\ IsActive(db[i]))
        <3>1. db'[i] = db[i] /\ RowFits(i)
            BY <2>2 DEF Startup, OwnershipInv
        <3> QED
            BY <1>1, <2>2, <3>1 DEF RowFits, Exists, IsActive
    <2> QED
        BY <2>1, <2>2
<1>4. \A c \in Clients : RequestFits(c)'
    BY <1>2 DEF RequestFits
<1>5. OneActivePerDevice' /\ ActiveIsOwned'
    BY <1>3 DEF OneActivePerDevice, ActiveIsOwned
<1> QED
    BY <1>2, <1>3, <1>4, <1>5 DEF OwnershipInv, OneWorkerPerRow, DownIsIdle

LEMMA StartupFaultOwned ==
    ASSUME BackendInv, OwnershipInv, StartupFault
    PROVE  OwnershipInv'
<1>1. ~up /\ UNCHANGED <<pending, waiting, running, db, children, lastId, req, task>>
    BY DEF StartupFault, queueVars, storeVars, requestVars
<1>2. Live' = {} /\ \A c \in Clients : req'[c].pc = "idle"
    BY <1>1 DEF OwnershipInv, DownIsIdle, Live, Waiting
<1>3. faults' # 0
    BY DEF StartupFault, CountFault, BackendInv, BoundsInv
<1>4. \A i \in Ids : RowFits(i)'
    BY <1>1 DEF OwnershipInv, RowFits, Exists
<1>5. \A c \in Clients : RequestFits(c)'
    BY <1>2 DEF RequestFits
<1> QED
    BY <1>1, <1>2, <1>3, <1>4, <1>5
    DEF OwnershipInv, OneWorkerPerRow, OneActivePerDevice, DownIsIdle, ActiveIsOwned, Exists

LEMMA OwnershipInitInv == Init => OwnershipInv
<1> SUFFICES ASSUME Init PROVE OwnershipInv
    OBVIOUS
<1>1. Live = {} /\ up /\ \A c \in Clients : req[c].pc = "idle"
    BY DEF Init, QueueInit, Live, Waiting, NoRequest
<1>2. \A i \in Ids : ~Exists(i) /\ i \notin children
    BY DEF Init, Exists
<1> QED
    BY <1>1, <1>2 DEF OwnershipInv, RowFits, RequestFits, OneWorkerPerRow,
                      OneActivePerDevice, DownIsIdle, ActiveIsOwned

LEMMA OwnershipNextInv ==
    BackendInv /\ BackendInv' /\ OwnershipInv /\ OneRequestPerDevice /\ [Next]_vars
        => OwnershipInv'
<1> SUFFICES ASSUME BackendInv, BackendInv', OwnershipInv, OneRequestPerDevice, [Next]_vars
             PROVE  OwnershipInv'
    OBVIOUS
<1>1. ASSUME NEW c \in Clients, BeginUpload(c) \/ RequestFault(c) PROVE OwnershipInv'
    BY <1>1, BeginUploadOwned, RequestFaultOwned
<1>2. ASSUME NEW c \in Clients, RequestStep(c) PROVE OwnershipInv'
    BY <1>2, RejectUploadOwned, CheckDeviceOwned, InsertRowOwned, CommitRetryOwned,
       SubmitAnalysisOwned, RecordQueueFullOwned, CommitDeleteOwned DEF RequestStep
<1>3. ASSUME NEW c \in Clients, NEW i \in Ids, BeginRetry(c, i) \/ BeginDelete(c, i)
      PROVE  OwnershipInv'
    BY <1>3, BeginRetryOwned, BeginDeleteOwned
<1>4. ASSUME NEW t \in Tasks, StartTask(t) \/ TimeOut(t) PROVE OwnershipInv'
    BY <1>4, StartTaskOwned, TimeOutOwned
<1>5. ASSUME NEW t \in Tasks, PipelineStep(t) PROVE OwnershipInv'
    BY <1>5, ReadStageOwned, WriteStageOwned, PipelineReturnsOwned, PipelineRaisesOwned
    DEF PipelineStep
<1>6. ASSUME NEW t \in Tasks, SaveStep(t) PROVE OwnershipInv'
    BY <1>6, ReadForSaveOwned, SaveFailureOwned, SaveResultOwned DEF SaveStep
<1>7. ASSUME NEW t \in Tasks, StageFault(t) \/ SaveFault(t) PROVE OwnershipInv'
    BY <1>7, StageFaultOwned, SaveFaultOwned
<1>8. CASE Crash \/ Startup \/ StartupFault
    BY <1>8, CrashOwned, StartupOwned, StartupFaultOwned
<1>9. CASE UNCHANGED vars
    <2>1. UNCHANGED <<pending, waiting, running, db, children, lastId, req, task, up, faults>>
        BY <1>9 DEF vars, queueVars
    <2>2. Live' = Live
        BY <2>1 DEF Live, Waiting
    <2>3. \A i \in Ids : RowFits(i)'
        BY <2>1 DEF OwnershipInv, RowFits, Exists
    <2>4. \A c \in Clients : RequestFits(c)'
        BY <2>1, <2>2 DEF OwnershipInv, RequestFits, DeviceBusy, Exists
    <2>5. \A t \in Live' : WorkerFits(t)'
        BY <2>1, <2>2 DEF OwnershipInv, WorkerFits, Exists
    <2> QED
        BY <2>1, <2>2, <2>3, <2>4, <2>5
        DEF OwnershipInv, OneWorkerPerRow, OneActivePerDevice, DownIsIdle, ActiveIsOwned,
            Owned, Exists
<1> QED
    BY <1>1, <1>2, <1>3, <1>4, <1>5, <1>6, <1>7, <1>8, <1>9 DEF Next

(* The invariant of the whole system under the assumption on clients. *)
THEOREM OwnershipInvariant == Safety /\ []OneRequestPerDevice => []OwnershipInv
BY OwnershipInitInv, OwnershipNextInv, BackendInvariant, PTL DEF Safety

(* It is enough that no two clients act for one device, as in the runs     *)
(* backend_full and backend_waiting.                                       *)
LEMMA OwnDeviceSuffices ==
    ASSUME \A c, d \in Clients : DeviceOf[c] = DeviceOf[d] => c = d
    PROVE  OneRequestPerDevice
BY DEF OneRequestPerDevice

-----------------------------------------------------------------------------
(* A device never has two analyses under way, though nothing in the tables *)
(* forbids it: between the look at the table and the INSERT, or between    *)
(* the look and the reset of a retry, only the same device could have      *)
(* started another one.                                                    *)
THEOREM OneActiveAnalysis == Safety /\ []OneRequestPerDevice => []OneActivePerDevice
<1>1. OwnershipInv => OneActivePerDevice
    BY DEF OwnershipInv
<1> QED
    BY <1>1, OwnershipInvariant, PTL

(* The database never refuses a write: the row an object was loaded from   *)
(* is still as it was, and no result finds children in its way.  So the    *)
(* rollbacks of refused writes, which would leave an analysis under way    *)
(* for ever, are never taken.                                              *)
THEOREM NoWriteRefused == Safety /\ []OneRequestPerDevice => []WritesAccepted
<1>1. BackendInv /\ OwnershipInv => WritesAccepted
    <2> SUFFICES ASSUME BackendInv, OwnershipInv PROVE WritesAccepted
        OBVIOUS
    <2>1. ASSUME NEW t \in running, task[t].pc = "stage"
          PROVE  Accepts(task[t].id, task[t].snap,
                         MarkStage(task[t].snap, PipelineStages[task[t].k + 1]))
        BY <2>1, WriteStageAccepted
    <2>2. ASSUME NEW t \in running, task[t].pc = "saving", task[t].outcome.error = NoError
          PROVE  StorableResult(task[t])
        BY <2>2, SaveResultAccepted
    <2>3. ASSUME NEW t \in running, task[t].pc = "saving", task[t].outcome.error # NoError
          PROVE  Accepts(task[t].id, task[t].snap,
                         MarkFailed(task[t].snap, task[t].outcome.error,
                                    task[t].outcome.stage))
        BY <2>3, SaveFailureAccepted
    <2>4. ASSUME NEW c \in Clients, req[c].pc = "retry"
          PROVE  Accepts(req[c].id, req[c].snap, PrepareRetry(req[c].snap))
        BY <2>4, CommitRetryAccepted
    <2>5. ASSUME NEW c \in Clients, req[c].pc = "full"
          PROVE  Accepts(req[c].id, req[c].snap,
                         MarkFailed(req[c].snap, "queue full", NoStage))
        BY <2>5, RecordQueueFullAccepted
    <2> QED
        BY <2>1, <2>2, <2>3, <2>4, <2>5 DEF WritesAccepted
<1> QED
    BY <1>1, BackendInvariant, OwnershipInvariant, PTL

(* A flush of an object that nobody has overtaken: what is stored is the   *)
(* object, not a merge of it with another session's columns.               *)
StoresExactly(i, snap, new) ==
    snap = db[i] /\ Updated(i, snap, new) = [db EXCEPT ![i] = new]

(* The same for every session that is about to write.                      *)
FlushesAreExact ==
    /\ \A t \in running :
        LET w == task[t]
        IN  /\ w.pc = "stage" =>
                    StoresExactly(w.id, w.snap, MarkStage(w.snap, PipelineStages[w.k + 1]))
            /\ w.pc = "saving" /\ w.outcome.error # NoError =>
                    StoresExactly(w.id, w.snap,
                                  MarkFailed(w.snap, w.outcome.error, w.outcome.stage))
            /\ w.pc = "saving" /\ w.outcome.error = NoError =>
                    /\ w.snap = db[w.id]
                    /\ MergedCompletion(db[w.id], w.snap) = MarkCompleted(w.snap)
    /\ \A c \in Clients :
        LET r == req[c]
        IN  /\ r.pc = "retry" => StoresExactly(r.id, r.snap, PrepareRetry(r.snap))
            /\ r.pc = "full" =>
                    StoresExactly(r.id, r.snap, MarkFailed(r.snap, "queue full", NoStage))

(* Between a session's read and its write, across any await, nobody else   *)
(* writes the row, neither a handler, a worker nor the cleanup at startup, *)
(* and nobody removes it: no stage report and no final write is stale.     *)
THEOREM NoStaleWrite == Safety /\ []OneRequestPerDevice => []FlushesAreExact
<1>1. BackendInv /\ OwnershipInv => FlushesAreExact
    <2> SUFFICES ASSUME BackendInv, OwnershipInv PROVE FlushesAreExact
        OBVIOUS
    <2>1. ASSUME NEW t \in running, task[t].pc = "stage"
          PROVE  StoresExactly(task[t].id, task[t].snap,
                               MarkStage(task[t].snap, PipelineStages[task[t].k + 1]))
        BY <2>1, WriteStageAccepted DEF StoresExactly
    <2>2. ASSUME NEW t \in running, task[t].pc = "saving", task[t].outcome.error # NoError
          PROVE  StoresExactly(task[t].id, task[t].snap,
                               MarkFailed(task[t].snap, task[t].outcome.error,
                                          task[t].outcome.stage))
        BY <2>2, SaveFailureAccepted DEF StoresExactly
    <2>3. ASSUME NEW t \in running, task[t].pc = "saving", task[t].outcome.error = NoError
          PROVE  /\ task[t].snap = db[task[t].id]
                 /\ MergedCompletion(db[task[t].id], task[t].snap) = MarkCompleted(task[t].snap)
        BY <2>3, SaveResultAccepted
    <2>4. ASSUME NEW c \in Clients, req[c].pc = "retry"
          PROVE  StoresExactly(req[c].id, req[c].snap, PrepareRetry(req[c].snap))
        <3>1. req[c].snap = db[req[c].id]
            BY <2>4 DEF OwnershipInv, RequestFits
        <3> QED
            BY <2>4, <3>1, CommitRetryAccepted DEF StoresExactly
    <2>5. ASSUME NEW c \in Clients, req[c].pc = "full"
          PROVE  StoresExactly(req[c].id, req[c].snap,
                               MarkFailed(req[c].snap, "queue full", NoStage))
        <3>1. req[c].snap = db[req[c].id]
            BY <2>5, SubmittedRow
        <3> QED
            BY <2>5, <3>1, RecordQueueFullAccepted DEF StoresExactly
    <2> QED
        BY <2>1, <2>2, <2>3, <2>4, <2>5 DEF FlushesAreExact
<1> QED
    BY <1>1, BackendInvariant, OwnershipInvariant, PTL

(* Children and result columns belong to completed analyses and to no      *)
(* others: a retry leaves nothing of the attempt before, a deletion leaves *)
(* no orphan, and every row satisfies the constraints.                     *)
THEOREM ResultsOfCompleted == Safety /\ []OneRequestPerDevice => []ResultsIffCompleted
<1>1. OwnershipInv => ResultsIffCompleted
    BY DEF OwnershipInv, RowFits, RowSound, ResultsIffCompleted
<1> QED
    BY <1>1, OwnershipInvariant, PTL

(* As long as no session has failed, an analysis under way has exactly one *)
(* owner, through crashes and restarts, and nobody owns any other one.     *)
THEOREM ExactlyOneOwner ==
    Safety /\ []OneRequestPerDevice => [](faults = 0 => ActiveIffOwned)
<1>1. BackendInv /\ OwnershipInv /\ OneRequestPerDevice => (faults = 0 => ActiveIffOwned)
    <2> SUFFICES ASSUME BackendInv, OwnershipInv, OneRequestPerDevice, faults = 0, up,
                        NEW i \in Ids
                 PROVE  Cardinality(WorkersOf(i)) + Cardinality(SubmittersOf(i))
                            = IF Exists(i) /\ IsActive(db[i]) THEN 1 ELSE 0
        BY DEF ActiveIffOwned
    <2>1. Cardinality({}) = 0 /\ \A x : Cardinality({x}) = 1
        BY FS_EmptySet, FS_Singleton
    <2>2. ASSUME NEW t \in WorkersOf(i)
          PROVE  WorkersOf(i) = {t} /\ Exists(i) /\ IsActive(db[i])
        BY <2>2 DEF OwnershipInv, WorkersOf, OneWorkerPerRow, WorkerFits
    <2>3. ASSUME NEW c \in SubmittersOf(i)
          PROVE  SubmittersOf(i) = {c} /\ WorkersOf(i) = {} /\ Exists(i) /\ IsActive(db[i])
        <3>1. /\ c \in Clients /\ Exists(i) /\ IsActive(db[i]) /\ db[i].device = DeviceOf[c]
              /\ \A t \in Live : task[t].id # i
            BY <2>3, SubmittedRow DEF SubmittersOf
        <3>2. ASSUME NEW d \in SubmittersOf(i)
              PROVE  d = c
            <4>1. d \in Clients /\ db[i].device = DeviceOf[d]
                BY <3>2, SubmittedRow DEF SubmittersOf
            <4> QED
                BY <2>3, <3>1, <3>2, <4>1 DEF OneRequestPerDevice, SubmittersOf
        <3> QED
            BY <2>3, <3>1, <3>2 DEF WorkersOf
    <2>4. CASE WorkersOf(i) # {}
        <3>1. PICK t \in WorkersOf(i) : TRUE
            BY <2>4
        <3>2. SubmittersOf(i) = {}
            BY <2>3, <2>4
        <3>3. Cardinality(WorkersOf(i)) = 1 /\ Cardinality(SubmittersOf(i)) = 0
            BY <2>1, <2>2, <3>1, <3>2
        <3> QED
            BY <2>2, <3>1, <3>3
    <2>5. CASE SubmittersOf(i) # {}
        <3>1. PICK c \in SubmittersOf(i) : TRUE
            BY <2>5
        <3>2. Cardinality(SubmittersOf(i)) = 1 /\ Cardinality(WorkersOf(i)) = 0
            BY <2>1, <2>3, <3>1
        <3> QED
            BY <2>3, <3>1, <3>2
    <2>6. CASE WorkersOf(i) = {} /\ SubmittersOf(i) = {}
        <3>1. ~Owned(i)
            BY <2>6 DEF Owned, WorkersOf, SubmittersOf
        <3>2. ~(Exists(i) /\ IsActive(db[i]))
            BY <3>1 DEF OwnershipInv, ActiveIsOwned
        <3> QED
            BY <2>1, <2>6, <3>2
    <2> QED
        BY <2>4, <2>5, <2>6
<1> QED
    BY <1>1, BackendInvariant, OwnershipInvariant, PTL

-----------------------------------------------------------------------------
(* What the table goes through.  With owners, the interleaved writes of    *)
(* handlers, workers and restarts are these steps on the rows, each taken  *)
(* from the row that is there.                                             *)
Inserted ==
    \E d \in Devices :
        /\ ~DeviceBusy(d)
        /\ lastId' = lastId + 1 /\ lastId' \in Ids /\ ~Exists(lastId')
        /\ db' = [db EXCEPT ![lastId'] = NewRow(d)]

Staged(i) ==
    \E k \in 1..Len(PipelineStages) :
        /\ IF k = 1 THEN db[i].status = "PENDING"
           ELSE db[i].status = "PROCESSING" /\ db[i].stage = PipelineStages[k - 1]
        /\ db' = [db EXCEPT ![i] = MarkStage(db[i], PipelineStages[k])]

Completed(i) ==
    /\ db[i].status = "PROCESSING"
    /\ db' = [db EXCEPT ![i] = MarkCompleted(db[i])]

Failed(i) ==
    \E e \in Errors, s \in Stages \cup {NoStage} :
        /\ IsActive(db[i])
        /\ s # NoStage => db[i].stage = s
        /\ db' = [db EXCEPT ![i] = MarkFailed(db[i], e, s)]

Retried(i) ==
    /\ db[i].status = "FAILED" /\ db[i].retries < MaxRetryCount
    /\ ~DeviceBusy(db[i].device)
    /\ db' = [db EXCEPT ![i] = PrepareRetry(db[i])]

Deleted(i) == ~IsActive(db[i]) /\ db' = [db EXCEPT ![i] = NoRow]

Interrupted ==
    db' = [i \in Ids |-> IF Exists(i) /\ IsActive(db[i]) THEN FailInterrupted(db[i])
                         ELSE db[i]]

TableStep ==
    \/ UNCHANGED <<db, lastId>>
    \/ Inserted
    \/ /\ lastId' = lastId
       /\ \/ \E i \in Ids : /\ Exists(i)
                            /\ \/ Staged(i) \/ Completed(i) \/ Failed(i) \/ Retried(i)
                               \/ Deleted(i)
          \/ Interrupted

LEMMA StepOfTable ==
    ASSUME BackendInv, OwnershipInv, [Next]_vars
    PROVE  TableStep
<1>1. ASSUME NEW c \in Clients, InsertRow(c) PROVE TableStep
    <2>1. ~DeviceBusy(DeviceOf[c]) /\ DeviceOf[c] \in Devices
        BY <1>1, BackendAssumption DEF InsertRow, OwnershipInv, RequestFits
    <2>2. lastId + 1 \in Ids /\ ~(lastId + 1 <= lastId)
        BY <1>1, BackendAssumption DEF InsertRow, BackendInv, StoreInv, Ids
    <2>3. ~Exists(lastId + 1)
        BY <2>2 DEF OwnershipInv, RowFits
    <2> QED
        BY <1>1, <2>1, <2>2, <2>3 DEF InsertRow, Inserted, TableStep
<1>2. ASSUME NEW c \in Clients, RecordQueueFull(c) PROVE TableStep
    <2> DEFINE i == req[c].id
    <2>1. req[c].pc = "full"
        BY <1>2 DEF RecordQueueFull
    <2>2. i \in Ids /\ db[i] = req[c].snap /\ Exists(i) /\ IsActive(db[i])
        BY <2>1, SubmittedRow
    <2>3. db' = [db EXCEPT ![i] = MarkFailed(db[i], "queue full", NoStage)]
        BY <1>2, <2>1, <2>2, RecordQueueFullAccepted DEF RecordQueueFull
    <2>4. Failed(i)
        BY <2>2, <2>3 DEF Failed, Errors
    <2> QED
        BY <1>2, <2>2, <2>4 DEF RecordQueueFull, TableStep
<1>3. ASSUME NEW c \in Clients, CommitRetry(c) PROVE TableStep
    <2> DEFINE i == req[c].id
    <2>1. req[c].pc = "retry" /\ i \in Ids /\ req[c].snap \in Row
          /\ req[c].snap.retries < MaxRetryCount
        BY <1>3 DEF CommitRetry, BackendInv, RequestInv, RequestOK
    <2>2. db[i] = req[c].snap /\ db[i].status = "FAILED" /\ db[i].device = DeviceOf[c]
          /\ ~DeviceBusy(DeviceOf[c])
        BY <2>1 DEF OwnershipInv, RequestFits
    <2>3. db' = [db EXCEPT ![i] = PrepareRetry(db[i])]
        BY <1>3, <2>1, <2>2, CommitRetryAccepted DEF CommitRetry
    <2>4. Exists(i) /\ Retried(i)
        BY <2>1, <2>2, <2>3, RowAssumption DEF Retried, Exists
    <2> QED
        BY <1>3, <2>1, <2>4 DEF CommitRetry, TableStep
<1>4. ASSUME NEW c \in Clients, CommitDelete(c) PROVE TableStep
    <2> DEFINE i == req[c].id
    <2>1. req[c].pc = "delete" /\ i \in Ids /\ req[c].snap \in Row
        BY <1>4 DEF CommitDelete, BackendInv, RequestInv, RequestOK
    <2>2. db[i] = req[c].snap /\ ~IsActive(db[i])
        BY <2>1 DEF OwnershipInv, RequestFits
    <2>3. Exists(i) /\ Deleted(i)
        BY <1>4, <2>1, <2>2, RowAssumption DEF CommitDelete, Deleted, Exists
    <2> QED
        BY <1>4, <2>1, <2>3 DEF CommitDelete, TableStep
<1>5. ASSUME NEW t \in Tasks, WriteStage(t) PROVE TableStep
    <2> DEFINE i == task[t].id
               k == task[t].k + 1
    <2>1. t \in running /\ task[t].pc = "stage"
        BY <1>5 DEF WriteStage
    <2>2. i \in Ids /\ Exists(i) /\ WorkerFits(t) /\ WorkerOK(task[t])
        BY <2>1, OwnedRow
    <2>3. k \in 1..Len(PipelineStages) /\ (k = 1 <=> task[t].k = 0) /\ k - 1 = task[t].k
        BY <2>1, <2>2, BackendAssumption, LenProperties DEF WorkerOK, Worker
    <2>4. db' = [db EXCEPT ![i] = MarkStage(db[i], PipelineStages[k])] /\ lastId' = lastId
        BY <1>5, <2>1, WriteStageAccepted DEF WriteStage
    <2>5. IF k = 1 THEN db[i].status = "PENDING"
          ELSE db[i].status = "PROCESSING" /\ db[i].stage = PipelineStages[k - 1]
        BY <2>1, <2>2, <2>3 DEF WorkerFits
    <2> HIDE DEF k
    <2>6. Staged(i)
        BY <2>3, <2>4, <2>5 DEF Staged
    <2> QED
        BY <2>2, <2>4, <2>6 DEF TableStep
<1>6. ASSUME NEW t \in Tasks, SaveFailure(t) PROVE TableStep
    <2> DEFINE i == task[t].id
               e == task[t].outcome.error
               s == task[t].outcome.stage
    <2>1. t \in running /\ task[t].pc = "saving" /\ e # NoError /\ lastId' = lastId
        BY <1>6 DEF SaveFailure
    <2>2. i \in Ids /\ Exists(i) /\ IsActive(db[i]) /\ WorkerFits(t) /\ WorkerOK(task[t])
        BY <2>1, OwnedRow
    <2>3. e \in Errors /\ s \in Stages \cup {NoStage}
        BY <2>1, <2>2 DEF WorkerOK, Worker, Outcome
    <2>4. s # NoStage => db[i].stage = s
        BY <2>1, <2>2 DEF WorkerFits
    <2>5. db' = [db EXCEPT ![i] = MarkFailed(db[i], e, s)]
        BY <1>6, <2>1, SaveFailureAccepted DEF SaveFailure
    <2> HIDE DEF e, s
    <2>6. Failed(i)
        BY <2>2, <2>3, <2>4, <2>5 DEF Failed
    <2> QED
        BY <2>1, <2>2, <2>6 DEF TableStep
<1>7. ASSUME NEW t \in Tasks, SaveResult(t) PROVE TableStep
    <2> DEFINE i == task[t].id
    <2>1. t \in running /\ task[t].pc = "saving" /\ task[t].outcome.error = NoError
          /\ lastId' = lastId
        BY <1>7 DEF SaveResult
    <2>2. i \in Ids /\ Exists(i)
        BY <2>1, OwnedRow
    <2>3. task[t].snap = db[i] /\ db[i].status = "PROCESSING" /\ StorableResult(task[t])
          /\ MergedCompletion(db[i], task[t].snap) = MarkCompleted(db[i])
        BY <2>1, SaveResultAccepted
    <2>4. Completed(i)
        BY <1>7, <2>3 DEF SaveResult, Completed
    <2> QED
        BY <2>1, <2>2, <2>4 DEF TableStep
<1>8. CASE Startup
    BY <1>8 DEF Startup, TableStep, Interrupted
<1>9. ASSUME NEW c \in Clients,
             \/ BeginUpload(c) \/ RejectUpload(c) \/ CheckDevice(c) \/ SubmitAnalysis(c)
             \/ RequestFault(c) \/ \E i \in Ids : BeginRetry(c, i) \/ BeginDelete(c, i)
      PROVE  TableStep
    BY <1>9 DEF BeginUpload, RejectUpload, CheckDevice, SubmitAnalysis, RequestFault,
                BeginRetry, BeginDelete, storeVars, TableStep
<1>10. ASSUME NEW t \in Tasks,
              \/ StartTask(t) \/ ReadStage(t) \/ PipelineReturns(t) \/ PipelineRaises(t)
              \/ TimeOut(t) \/ ReadForSave(t) \/ StageFault(t) \/ SaveFault(t)
       PROVE  TableStep
    BY <1>10 DEF StartTask, ReadStage, PipelineReturns, PipelineRaises, TimeOut,
                 ReadForSave, StageFault, SaveFault, storeVars, TableStep
<1>11. CASE Crash \/ StartupFault \/ UNCHANGED vars
    BY <1>11 DEF Crash, StartupFault, vars, storeVars, TableStep
<1> QED
    BY <1>1, <1>2, <1>3, <1>4, <1>5, <1>6, <1>7, <1>8, <1>9, <1>10, <1>11
    DEF Next, RequestStep, PipelineStep, SaveStep

(* A completed analysis never changes again, short of being deleted: a     *)
(* worker that could still report, fail or save has an active row, and a   *)
(* retry that could still be committed a failed one.                       *)
THEOREM CompletedStays == Safety /\ []OneRequestPerDevice => CompletedIsFinal
<1> DEFINE Kept == \A i \in Ids : Exists(i) /\ db[i].status = "COMPLETED" =>
                        db'[i] = db[i] \/ db'[i] = NoRow
<1>1. BackendInv /\ OwnershipInv /\ [Next]_vars => [Kept]_db
    <2> SUFFICES ASSUME BackendInv, TableStep, NEW i \in Ids, Exists(i),
                        db[i].status = "COMPLETED"
                 PROVE  db'[i] = db[i] \/ db'[i] = NoRow
        BY StepOfTable
    <2>1. ~IsActive(db[i])
        BY DEF IsActive, ActiveStatuses
    <2>2. CASE Inserted
        BY <2>2 DEF Inserted, BackendInv, StoreInv
    <2>3. ASSUME NEW j \in Ids,
                 Staged(j) \/ Completed(j) \/ Failed(j) \/ Retried(j) \/ Deleted(j)
          PROVE  db'[i] = db[i] \/ db'[i] = NoRow
        BY <2>1, <2>3 DEF Staged, Completed, Failed, Retried, Deleted, BackendInv, StoreInv
    <2>4. CASE Interrupted
        BY <2>1, <2>4 DEF Interrupted
    <2> QED
        BY <2>2, <2>3, <2>4 DEF TableStep
<1> QED
    BY <1>1, BackendInvariant, OwnershipInvariant, PTL DEF Safety, CompletedIsFinal

-----------------------------------------------------------------------------
(* The assumption on the pipeline under which progress grows: it reports   *)
(* its stages in the order of their progress.                              *)
StagesInOrder ==
    \A k \in 2..Len(PipelineStages) :
        StageProgress[PipelineStages[k - 1]] <= StageProgress[PipelineStages[k]]

(* The pipeline of the code does. *)
LEMMA AllStagesInOrder ==
    ASSUME PipelineStages = <<"FRAME_EXTRACTION", "OBJECT_DETECTION", "OBJECT_TRACKING",
                              "FRAME_SELECTION", "RISK_MARKING", "SCORE_CALCULATION",
                              "ENVIRONMENT_ANALYSIS">>
    PROVE  StagesInOrder
<1>1. Len(PipelineStages) = 7
    OBVIOUS
<1>2. ASSUME NEW k \in 2..7
      PROVE  StageProgress[PipelineStages[k - 1]] <= StageProgress[PipelineStages[k]]
    <2>1. k = 2 \/ k = 3 \/ k = 4 \/ k = 5 \/ k = 6 \/ k = 7
        BY <1>2
    <2> QED
        BY <2>1 DEF StageProgress
<1> QED
    BY <1>1, <1>2 DEF StagesInOrder

(* Within one attempt the progress a client polls never goes back.  It     *)
(* takes both halves of the invariant: a report follows the one of the     *)
(* stage before, and a failure that names a stage names the one shown.     *)
THEOREM ProgressGrows ==
    StagesInOrder => (Safety /\ []OneRequestPerDevice => ProgressNeverFalls)
<1> SUFFICES ASSUME StagesInOrder
             PROVE  Safety /\ []OneRequestPerDevice => ProgressNeverFalls
    OBVIOUS
<1> DEFINE Kept == \A i \in Ids :
                Exists(i) /\ db'[i] # NoRow /\ db'[i].retries = db[i].retries =>
                    db'[i].progress >= db[i].progress
<1>1. BackendInv /\ OwnershipInv /\ [Next]_vars => [Kept]_db
    <2> SUFFICES ASSUME BackendInv, OwnershipInv, TableStep, NEW i \in Ids, Exists(i),
                        db'[i] # NoRow, db'[i].retries = db[i].retries
                 PROVE  db'[i].progress >= db[i].progress
        BY StepOfTable
    <2>1. db[i] \in Row /\ RowSound(db[i]) /\ db[i].progress \in 0..100
        BY DEF BackendInv, StoreInv, Exists, OwnershipInv, RowFits, Row
    <2>2. CASE db'[i] = db[i]
        BY <2>1, <2>2
    <2>3. CASE Inserted
        BY <2>1, <2>3 DEF Inserted, BackendInv, StoreInv
    <2>4. ASSUME Staged(i)
          PROVE  db'[i].progress >= db[i].progress
        <3>1. PICK k \in 1..Len(PipelineStages) :
                /\ IF k = 1 THEN db[i].status = "PENDING"
                   ELSE db[i].status = "PROCESSING" /\ db[i].stage = PipelineStages[k - 1]
                /\ db' = [db EXCEPT ![i] = MarkStage(db[i], PipelineStages[k])]
            BY <2>4 DEF Staged
        <3>2. \A j \in 1..Len(PipelineStages) : PipelineStages[j] \in Stages
            BY BackendAssumption, ElementOfSeq
        <3>3. db'[i].progress = StageProgress[PipelineStages[k]]
            <4>1. db'[i] = MarkStage(db[i], PipelineStages[k])
                BY <3>1 DEF BackendInv, StoreInv
            <4>2. ProgressFor("PROCESSING", PipelineStages[k]) = StageProgress[PipelineStages[k]]
                BY <3>2 DEF ProgressFor, Stages, NoStage
            <4>3. db'[i].progress = ProgressFor("PROCESSING", PipelineStages[k])
                BY <2>1, <4>1 DEF MarkStage, Row
            <4> QED
                BY <4>2, <4>3
        <3>4. StageProgress[PipelineStages[k]] \in Nat
            BY <3>2, StageProgressNatural
        <3>5. CASE k = 1
            <4>1. db[i].progress = 0
                BY <2>1, <3>1, <3>5 DEF RowSound, RowChecks
            <4> QED
                BY <3>3, <3>4, <4>1
        <3>6. CASE k # 1
            <4>1. k \in 2..Len(PipelineStages) /\ k - 1 \in 1..Len(PipelineStages)
                BY <3>6, BackendAssumption, LenProperties
            <4>2. db[i].progress = StageProgress[PipelineStages[k - 1]]
                BY <2>1, <3>1, <3>2, <3>6, <4>1
                DEF RowSound, IsActive, ActiveStatuses, ProgressFor, Stages, NoStage
            <4>3. StageProgress[PipelineStages[k - 1]] <= StageProgress[PipelineStages[k]]
                BY <4>1 DEF StagesInOrder
            <4>4. StageProgress[PipelineStages[k - 1]] \in Nat
                BY <3>2, <4>1, StageProgressNatural
            <4> QED
                BY <3>3, <3>4, <4>2, <4>3, <4>4
        <3> QED
            BY <3>5, <3>6
    <2>5. ASSUME Completed(i)
          PROVE  db'[i].progress >= db[i].progress
        <3>1. db'[i] = MarkCompleted(db[i])
            BY <2>5 DEF Completed, BackendInv, StoreInv
        <3>2. db'[i].progress = 100
            BY <2>1, <3>1 DEF MarkCompleted, ProgressFor, Row
        <3> QED
            BY <2>1, <3>2
    <2>6. ASSUME Failed(i)
          PROVE  db'[i].progress >= db[i].progress
        <3>1. PICK e \in Errors, s \in Stages \cup {NoStage} :
                /\ IsActive(db[i])
                /\ s # NoStage => db[i].stage = s
                /\ db' = [db EXCEPT ![i] = MarkFailed(db[i], e, s)]
            BY <2>6 DEF Failed
        <3>2. db'[i] = MarkFailed(db[i], e, s)
            BY <3>1 DEF BackendInv, StoreInv
        <3>3. db'[i].progress = IF s = NoStage THEN db[i].progress ELSE ProgressFor("FAILED", s)
            BY <2>1, <3>2 DEF MarkFailed, Row
        <3>4. s # NoStage => db[i].progress = ProgressFor("FAILED", s)
            BY <2>1, <3>1 DEF RowSound, RowChecks, IsActive, ActiveStatuses, ProgressFor
        <3> QED
            BY <2>1, <3>3, <3>4
    <2>7. ASSUME Retried(i)
          PROVE  FALSE
        <3>1. db'[i] = PrepareRetry(db[i])
            BY <2>7 DEF Retried, BackendInv, StoreInv
        <3>2. db'[i].retries = db[i].retries + 1 /\ db[i].retries \in Nat
            BY <2>1, <3>1, RowAssumption DEF PrepareRetry, Row
        <3> QED
            BY <3>2
    <2>8. ASSUME Deleted(i)
          PROVE  FALSE
        BY <2>8 DEF Deleted, BackendInv, StoreInv
    <2>9. ASSUME NEW j \in Ids, j # i,
                 Staged(j) \/ Completed(j) \/ Failed(j) \/ Retried(j) \/ Deleted(j)
          PROVE  db'[i] = db[i]
        BY <2>9 DEF Staged, Completed, Failed, Retried, Deleted, BackendInv, StoreInv
    <2>10. ASSUME Interrupted
           PROVE  db'[i].progress >= db[i].progress
        <3>1. db'[i] = FailInterrupted(db[i]) \/ db'[i] = db[i]
            BY <2>10 DEF Interrupted
        <3>2. db'[i].progress = db[i].progress
            BY <2>1, <3>1 DEF FailInterrupted, Row
        <3> QED
            BY <2>1, <3>2
    <2> QED
        BY <2>2, <2>3, <2>4, <2>5, <2>6, <2>7, <2>8, <2>9, <2>10 DEF TableStep
<1> QED
    BY <1>1, BackendInvariant, OwnershipInvariant, PTL DEF Safety, ProgressNeverFalls

-----------------------------------------------------------------------------
(***************************************************************************)
(* The backend implements the life cycle of AnalysisLifecycle, which knows *)
(* no queue, no session and no crash: for any number of devices, clients,  *)
(* analyses, crashes and failing sessions, provided that a device has one  *)
(* request at a time.  What a failing session takes away is only that an   *)
(* analysis ends, which is liveness; no promise about steps is broken.     *)
(***************************************************************************)

(* The life that a row stands for. *)
LifeOfRow(r) == [phase |-> r.status, device |-> r.device, retries |-> r.retries]

LEMMA LifeOf ==
    ASSUME NEW i \in Ids, Exists(i)
    PROVE  /\ lifeOf[i] = LifeOfRow(db[i])
           /\ lifeOf[i] = [phase |-> db[i].status, device |-> db[i].device,
                           retries |-> db[i].retries]
           /\ lifeOf[i].phase = db[i].status
           /\ lifeOf[i].device = db[i].device
           /\ lifeOf[i].retries = db[i].retries
<1>1. lifeOf[i] = [phase |-> db[i].status, device |-> db[i].device,
                   retries |-> db[i].retries]
    BY DEF lifeOf
<1> QED
    BY <1>1 DEF LifeOfRow

LEMMA NoLife ==
    ASSUME NEW i \in Ids, ~Exists(i)
    PROVE  lifeOf[i].phase \in {"removed", "unborn"}
<1>1. lifeOf[i].phase = IF i <= lastId THEN "removed" ELSE "unborn"
    BY DEF lifeOf
<1> QED
    BY <1>1

(* A phase under way is that of an active row. *)
LEMMA UnderWayIsActive ==
    ASSUME NEW i \in Ids
    PROVE  lifeOf[i].phase \in Lifecycle!UnderWay <=> Exists(i) /\ IsActive(db[i])
<1>1. CASE Exists(i)
    BY <1>1, LifeOf DEF Lifecycle!UnderWay, IsActive, ActiveStatuses
<1>2. CASE ~Exists(i)
    BY <1>2, NoLife DEF Lifecycle!UnderWay
<1> QED
    BY <1>1, <1>2

LEMMA BusyIsBusy ==
    ASSUME NEW d
    PROVE  Lifecycle!Busy(d) <=> DeviceBusy(d)
<1>1. ASSUME NEW i \in Ids
      PROVE  lifeOf[i].device = d /\ lifeOf[i].phase \in Lifecycle!UnderWay
                <=> Exists(i) /\ IsActive(db[i]) /\ db[i].device = d
    <2>1. Exists(i) => lifeOf[i].device = db[i].device
        BY LifeOf
    <2> QED
        BY <2>1, UnderWayIsActive
<1> QED
    BY <1>1 DEF Lifecycle!Busy, DeviceBusy

(* One row changes, and one life. *)
LEMMA OneLifeChanges ==
    ASSUME BackendInv, NEW i \in Ids, NEW r, r # NoRow,
           db' = [db EXCEPT ![i] = r], lastId' = lastId
    PROVE  lifeOf' = [lifeOf EXCEPT ![i] = LifeOfRow(r)]
<1>1. db'[i] = r /\ \A j \in Ids : j # i => db'[j] = db[j]
    BY DEF BackendInv, StoreInv
<1> QED
    BY <1>1 DEF lifeOf, LifeOfRow, Exists

(* A life in another phase. *)
LEMMA InPhase ==
    ASSUME NEW i \in Ids, Exists(i), NEW p
    PROVE  [lifeOf[i] EXCEPT !.phase = p] =
                [phase |-> p, device |-> db[i].device, retries |-> db[i].retries]
<1>1. lifeOf[i] = [phase |-> db[i].status, device |-> db[i].device,
                   retries |-> db[i].retries]
    BY LifeOf
<1> QED
    BY <1>1

LEMMA PhaseChanges ==
    ASSUME BackendInv, NEW i \in Ids, Exists(i), NEW r, r # NoRow,
           r.device = db[i].device, r.retries = db[i].retries,
           db' = [db EXCEPT ![i] = r], lastId' = lastId
    PROVE  lifeOf' = [lifeOf EXCEPT ![i].phase = r.status]
<1>1. lifeOf' = [lifeOf EXCEPT ![i] = LifeOfRow(r)]
    BY OneLifeChanges
<1>2. LifeOfRow(r) = [lifeOf[i] EXCEPT !.phase = r.status]
    BY InPhase DEF LifeOfRow
<1> QED
    BY <1>1, <1>2

LEMMA LifeInitMaps == Init => Lifecycle!LifeInit
<1> SUFFICES ASSUME Init PROVE Lifecycle!LifeInit
    OBVIOUS
<1>1. \A i \in Ids : ~Exists(i) /\ ~(i <= lastId)
    BY BackendAssumption DEF Init, Exists, Ids
<1> QED
    BY <1>1 DEF lifeOf, Lifecycle!LifeInit, Lifecycle!Unborn

LEMMA InsertIsAccept ==
    ASSUME BackendInv, Inserted
    PROVE  \E i \in Ids, d \in Devices : Lifecycle!Accept(i, d)
<1>1. PICK d \in Devices :
        /\ ~DeviceBusy(d)
        /\ lastId' = lastId + 1 /\ lastId' \in Ids /\ ~Exists(lastId')
        /\ db' = [db EXCEPT ![lastId'] = NewRow(d)]
    BY DEF Inserted
<1>2. lastId \in Nat
    BY DEF BackendInv, StoreInv
<1> PICK i \in Ids : i = lastId + 1
    BY <1>1
<1>3. db'[i] = NewRow(d) /\ \A j \in Ids : j # i => db'[j] = db[j]
    BY <1>1 DEF BackendInv, StoreInv
<1>4. NewRow(d) # NoRow
    BY NewRowType, RowAssumption
<1>5. ~(i <= lastId) /\ ~Exists(i)
    BY <1>1, <1>2
<1>6. \A j \in Ids : j # i => (j <= lastId' <=> j <= lastId)
    BY <1>1, <1>2 DEF Ids
<1>7. lifeOf[i] = Lifecycle!Unborn
    BY <1>5 DEF lifeOf, Lifecycle!Unborn
<1>8. LifeOfRow(NewRow(d)) = [phase |-> "PENDING", device |-> d, retries |-> 0]
    BY DEF LifeOfRow, NewRow
<1>9. lifeOf' = [lifeOf EXCEPT ![i] = LifeOfRow(NewRow(d))]
    BY <1>3, <1>4, <1>6 DEF lifeOf, LifeOfRow, Exists
<1> QED
    BY <1>1, <1>7, <1>8, <1>9, BusyIsBusy DEF Lifecycle!Accept

LEMMA StageIsStart ==
    ASSUME BackendInv, NEW i \in Ids, Exists(i), Staged(i), lastId' = lastId
    PROVE  Lifecycle!Start(i) \/ lifeOf' = lifeOf
<1>1. PICK k \in 1..Len(PipelineStages) :
        /\ db[i].status \in {"PENDING", "PROCESSING"}
        /\ db' = [db EXCEPT ![i] = MarkStage(db[i], PipelineStages[k])]
    BY DEF Staged
<1> DEFINE new == MarkStage(db[i], PipelineStages[k])
<1>2. db[i] \in Row
    BY DEF BackendInv, StoreInv, Exists
<1>3. new \in Row
    BY <1>2, BackendAssumption, ElementOfSeq, MarkStageType
<1>4. /\ new.status = "PROCESSING" /\ new.device = db[i].device
      /\ new.retries = db[i].retries /\ new # NoRow
    BY <1>2, <1>3, RowAssumption DEF MarkStage, Row
<1> HIDE DEF new
<1>5. lifeOf' = [lifeOf EXCEPT ![i].phase = "PROCESSING"]
    <2>1. lifeOf' = [lifeOf EXCEPT ![i].phase = new.status]
        BY <1>1, <1>4, PhaseChanges DEF new
    <2> QED
        BY <1>4, <2>1
<1>6. lifeOf[i].phase = db[i].status
    BY LifeOf
<1>7. CASE db[i].status = "PENDING"
    BY <1>5, <1>6, <1>7 DEF Lifecycle!Start
<1>8. CASE db[i].status = "PROCESSING"
    <2>1. /\ lifeOf[i] = [phase |-> "PROCESSING", device |-> db[i].device,
                          retries |-> db[i].retries]
          /\ [lifeOf[i] EXCEPT !.phase = "PROCESSING"] =
                [phase |-> "PROCESSING", device |-> db[i].device,
                 retries |-> db[i].retries]
        BY <1>8, LifeOf, InPhase
    <2>2. lifeOf' = [lifeOf EXCEPT ![i] = lifeOf[i]]
        BY <1>5, <2>1
    <2> QED
        BY <2>2 DEF lifeOf
<1> QED
    BY <1>1, <1>7, <1>8

LEMMA CompletionIsComplete ==
    ASSUME BackendInv, NEW i \in Ids, Exists(i), Completed(i), lastId' = lastId
    PROVE  Lifecycle!Complete(i)
<1> DEFINE new == MarkCompleted(db[i])
<1>1. db[i] \in Row
    BY DEF BackendInv, StoreInv, Exists
<1>2. new \in Row
    BY <1>1, MarkCompletedType
<1>3. /\ new.status = "COMPLETED" /\ new.device = db[i].device
      /\ new.retries = db[i].retries /\ new # NoRow
    BY <1>1, <1>2, RowAssumption DEF MarkCompleted, Row
<1> HIDE DEF new
<1>4. lifeOf' = [lifeOf EXCEPT ![i].phase = "COMPLETED"]
    <2>1. lifeOf' = [lifeOf EXCEPT ![i].phase = new.status]
        BY <1>3, PhaseChanges DEF Completed, new
    <2> QED
        BY <1>3, <2>1
<1>5. lifeOf[i].phase = "PROCESSING"
    BY LifeOf DEF Completed
<1> QED
    BY <1>4, <1>5 DEF Lifecycle!Complete

LEMMA FailureIsFail ==
    ASSUME BackendInv, NEW i \in Ids, Exists(i), Failed(i), lastId' = lastId
    PROVE  Lifecycle!Fail({i})
<1>1. PICK e \in Errors, s \in Stages \cup {NoStage} :
        IsActive(db[i]) /\ db' = [db EXCEPT ![i] = MarkFailed(db[i], e, s)]
    BY DEF Failed
<1> DEFINE new == MarkFailed(db[i], e, s)
<1>2. db[i] \in Row
    BY DEF BackendInv, StoreInv, Exists
<1>3. new \in Row
    BY <1>2, MarkFailedType
<1>4. /\ new.status = "FAILED" /\ new.device = db[i].device
      /\ new.retries = db[i].retries /\ new # NoRow
    BY <1>2, <1>3, RowAssumption DEF MarkFailed, Row
<1> HIDE DEF new
<1>5. lifeOf' = [lifeOf EXCEPT ![i].phase = "FAILED"]
    <2>1. lifeOf' = [lifeOf EXCEPT ![i].phase = new.status]
        BY <1>1, <1>4, PhaseChanges DEF new
    <2> QED
        BY <1>4, <2>1
<1>6. lifeOf[i].phase \in Lifecycle!UnderWay
    BY <1>1, UnderWayIsActive
<1>7. lifeOf' = [j \in Ids |-> IF j \in {i} THEN [lifeOf[j] EXCEPT !.phase = "FAILED"]
                               ELSE lifeOf[j]]
    BY <1>5 DEF lifeOf
<1> QED
    BY <1>6, <1>7 DEF Lifecycle!Fail

LEMMA RetryIsRetry ==
    ASSUME BackendInv, NEW i \in Ids, Exists(i), Retried(i), lastId' = lastId
    PROVE  Lifecycle!Retry(i)
<1> DEFINE new == PrepareRetry(db[i])
<1>1. db[i] \in Row /\ db[i].status = "FAILED" /\ db[i].retries < MaxRetryCount
      /\ ~DeviceBusy(db[i].device)
    BY DEF BackendInv, StoreInv, Exists, Retried
<1>2. new \in Row
    BY <1>1, PrepareRetryType
<1>3. /\ new.status = "PENDING" /\ new.device = db[i].device
      /\ new.retries = db[i].retries + 1 /\ new # NoRow
    BY <1>1, <1>2, RowAssumption DEF PrepareRetry, Row
<1> HIDE DEF new
<1>4. lifeOf' = [lifeOf EXCEPT ![i] = LifeOfRow(new)]
    BY <1>3, OneLifeChanges DEF Retried, new
<1>5. lifeOf[i] = [phase |-> "FAILED", device |-> db[i].device,
                   retries |-> db[i].retries]
    BY <1>1, LifeOf
<1>6. LifeOfRow(new) = [lifeOf[i] EXCEPT !.phase = "PENDING", !.retries = @ + 1]
    <2>1. PICK l, d, n, m : /\ l = lifeOf[i] /\ d = db[i].device
                            /\ n = db[i].retries /\ m = db[i].retries + 1
        OBVIOUS
    <2>2. LifeOfRow(new) = [phase |-> "PENDING", device |-> d, retries |-> m]
        BY <1>3, <2>1 DEF LifeOfRow
    <2>3. l = [phase |-> "FAILED", device |-> d, retries |-> n]
        BY <1>5, <2>1
    <2>4. [l EXCEPT !.phase = "PENDING", !.retries = m] =
            [phase |-> "PENDING", device |-> d, retries |-> m]
        <3>1. [l EXCEPT !.phase = "PENDING", !.retries = m]
                \in [phase: {"PENDING"}, device: {d}, retries: {m}]
            BY ONLY <2>3
        <3>2. ASSUME NEW x \in [phase: {"PENDING"}, device: {d}, retries: {m}]
              PROVE  x = [phase |-> "PENDING", device |-> d, retries |-> m]
            OBVIOUS
        <3> QED
            BY <3>1, <3>2
    <2>5. lifeOf[i].retries + 1 = m
        BY <2>1, LifeOf
    <2> QED
        BY <2>1, <2>2, <2>4, <2>5
<1>7. /\ lifeOf[i].phase = "FAILED" /\ lifeOf[i].retries < MaxRetryCount
      /\ ~Lifecycle!Busy(lifeOf[i].device)
    BY <1>1, <1>5, BusyIsBusy
<1>8. lifeOf' = [lifeOf EXCEPT ![i].phase = "PENDING", ![i].retries = @ + 1]
    BY <1>4, <1>6 DEF lifeOf
<1> QED
    BY <1>7, <1>8 DEF Lifecycle!Retry

LEMMA DeletionIsRemove ==
    ASSUME BackendInv, OwnershipInv, NEW i \in Ids, Exists(i), Deleted(i), lastId' = lastId
    PROVE  Lifecycle!Remove(i)
<1>1. db[i] \in Row /\ ~IsActive(db[i]) /\ i <= lastId
    BY DEF BackendInv, StoreInv, Exists, Deleted, OwnershipInv, RowFits
<1>2. db'[i] = NoRow /\ \A j \in Ids : j # i => db'[j] = db[j]
    BY DEF Deleted, BackendInv, StoreInv
<1>3. lifeOf' = [lifeOf EXCEPT ![i] = Lifecycle!Removed]
    BY <1>1, <1>2 DEF lifeOf, Exists, Lifecycle!Removed
<1>4. lifeOf[i].phase \in {"COMPLETED", "FAILED"}
    BY <1>1, LifeOf DEF LifeOfRow, Row, Statuses, IsActive, ActiveStatuses
<1> QED
    BY <1>3, <1>4 DEF Lifecycle!Remove

LEMMA InterruptionIsFail ==
    ASSUME BackendInv, Interrupted, lastId' = lastId
    PROVE  Lifecycle!Fail({i \in Ids : Exists(i) /\ IsActive(db[i])})
<1> DEFINE S == {i \in Ids : Exists(i) /\ IsActive(db[i])}
<1>1. \A i \in S : lifeOf[i].phase \in Lifecycle!UnderWay
    BY UnderWayIsActive
<1>2. ASSUME NEW i \in S
      PROVE  lifeOf'[i] = [lifeOf[i] EXCEPT !.phase = "FAILED"]
    <2> DEFINE new == FailInterrupted(db[i])
    <2>1. db[i] \in Row /\ db'[i] = new
        BY DEF Interrupted, BackendInv, StoreInv, Exists
    <2>2. new \in Row
        BY <2>1, FailInterruptedType
    <2>3. /\ new.status = "FAILED" /\ new.device = db[i].device
          /\ new.retries = db[i].retries /\ new # NoRow
        BY <2>1, <2>2, RowAssumption DEF FailInterrupted, Row
    <2> HIDE DEF new
    <2>4. lifeOf'[i] = LifeOfRow(new)
        BY <2>1, <2>3 DEF lifeOf, LifeOfRow, Exists
    <2>5. Exists(i) /\ i \in Ids
        OBVIOUS
    <2>6. [lifeOf[i] EXCEPT !.phase = "FAILED"] =
            [phase |-> "FAILED", device |-> db[i].device, retries |-> db[i].retries]
        BY <2>5, InPhase
    <2> QED
        BY <2>3, <2>4, <2>6 DEF LifeOfRow
<1>3. ASSUME NEW i \in Ids, i \notin S
      PROVE  lifeOf'[i] = lifeOf[i]
    <2>1. db'[i] = db[i]
        BY <1>3 DEF Interrupted
    <2> QED
        BY <2>1 DEF lifeOf, Exists
<1> HIDE DEF S
<1>4. lifeOf' = [i \in Ids |-> IF i \in S THEN [lifeOf[i] EXCEPT !.phase = "FAILED"]
                               ELSE lifeOf[i]]
    BY <1>2, <1>3 DEF lifeOf
<1> QED
    BY <1>1, <1>4 DEF Lifecycle!Fail, S

LEMMA LifeStepMaps ==
    BackendInv /\ OwnershipInv /\ [Next]_vars => [Lifecycle!LifeNext]_lifeOf
<1> SUFFICES ASSUME BackendInv, OwnershipInv, TableStep
             PROVE  [Lifecycle!LifeNext]_lifeOf
    BY StepOfTable
<1>1. CASE UNCHANGED <<db, lastId>>
    BY <1>1 DEF lifeOf, Exists
<1>2. CASE Inserted
    BY <1>2, InsertIsAccept DEF Lifecycle!LifeNext
<1>3. ASSUME NEW i \in Ids, Exists(i), lastId' = lastId,
             Staged(i) \/ Completed(i) \/ Retried(i) \/ Deleted(i)
      PROVE  [Lifecycle!LifeNext]_lifeOf
    BY <1>3, StageIsStart, CompletionIsComplete, RetryIsRetry, DeletionIsRemove
    DEF Lifecycle!LifeNext
<1>4. ASSUME NEW i \in Ids, Exists(i), lastId' = lastId, Failed(i)
      PROVE  Lifecycle!LifeNext
    <2>1. Lifecycle!Fail({i}) /\ {i} \in SUBSET Ids
        BY <1>4, FailureIsFail
    <2> QED
        BY <2>1 DEF Lifecycle!LifeNext
<1>5. CASE Interrupted /\ lastId' = lastId
    <2>1. {i \in Ids : Exists(i) /\ IsActive(db[i])} \in SUBSET Ids
        OBVIOUS
    <2> QED
        BY <1>5, <2>1, InterruptionIsFail DEF Lifecycle!LifeNext
<1> QED
    BY <1>1, <1>2, <1>3, <1>4, <1>5 DEF TableStep

(* The backend keeps every promise about steps that the API makes to the   *)
(* owner of an analysis: what it accepts, retries and removes it accepts,  *)
(* retries and removes when it may, whatever handlers, workers, failing    *)
(* sessions, crashes and restarts do meanwhile.                            *)
THEOREM BackendKeepsLifecycle == Safety /\ []OneRequestPerDevice => ImplementsLifecycle
BY LifeInitMaps, LifeStepMaps, BackendInvariant, OwnershipInvariant, PTL
DEF Safety, ImplementsLifecycle, Lifecycle!LifeSafety
=============================================================================
