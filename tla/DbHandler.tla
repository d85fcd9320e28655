------------------------------ MODULE DbHandler ------------------------------
(***************************************************************************)
(* The DB_TH thread of the gateway (src/src/dynamodb_utilities.c), between *)
(* the queue the timer callback fills (src/src/main.c) and two external    *)
(* stores: the SQLite file and the DynamoDB table.                         *)
(*                                                                         *)
(* A reading is the number of its push, so the order of readings is the    *)
(* order of the numbers.  A row of the SQLite table is a place in rows     *)
(* (autoincrement ids are places); synced holds the ids with sync_status 1.*)
(***************************************************************************)
EXTENDS Naturals, Sequences

CONSTANTS
    NO_INTERNET_CHECK_FREQUENCY,  \* readings between two upload attempts
    PutOutcomes,    \* what may become of a PutItem request, see below
    CheckMayHang,   \* may the peer of check_internet fall silent
    DbFaults,       \* may a SQLite call fail for want of disk, memory, ...
    MaxReadings,    \* bound: readings pushed in a behaviour
    MaxCrashes      \* bound: restarts of the process in a behaviour

(***************************************************************************)
(* accepted    "200 OK" with date and body, in time                        *)
(* rejected    an answer that says anything else                           *)
(* refused     no address, no socket or no connection                      *)
(* unanswered  applied by the service, no whole answer in time             *)
(* lost        applied late or never, no whole answer in time              *)
(* closed      the service closes the connection                           *)
(***************************************************************************)
Outcomes ==
    {"accepted", "rejected", "refused", "unanswered", "lost", "closed"}

ASSUME FrequencyAssumption == NO_INTERNET_CHECK_FREQUENCY \in Nat \ {0}
ASSUME EnvironmentAssumption ==
    PutOutcomes \subseteq Outcomes /\ {CheckMayHang, DbFaults} \subseteq BOOLEAN
ASSUME BoundsAssumption == MaxReadings \in Nat /\ MaxCrashes \in Nat

VARIABLES
    queue,      \* data_queue, the GAsyncQueue between the two threads
    pc,         \* where the thread stands in db_data_handler
    cur,        \* data_set, the reading in hand (0: none)
    no_internet_count,
    row,        \* the row the SELECT cursor of sync_hx_data is on
    leaked,     \* a connection was left open with its SELECT unfinished
    resp,       \* what http_response, never initialised, still holds
    rows,       \* the table of the SQLite file
    synced,     \* the ids of rows with sync_status = 1
    cloud,      \* the readings in the DynamoDB table
    late,       \* readings nobody waits for that the service may yet apply
    pushed,     \* history: readings pushed so far
    boot,       \* history: readings pushed before the process last started
    crashes,    \* history: restarts so far
    quiet       \* history: readings handled since the last upload attempt

disk == <<rows, synced>>
thread == <<pc, cur, no_internet_count, row, leaked, resp>>
history == <<pushed, boot, crashes, quiet>>
service == <<cloud, late>>
vars == <<queue, thread, disk, service, history>>

Attempt == {"sync", "scan", "put", "mark"}
Places == {"pop", "write", "gate", "stuck"} \cup Attempt

Pending == DOMAIN rows \ synced

Init ==
    /\ queue = <<>> /\ pc = "pop" /\ cur = 0 /\ no_internet_count = 0
    /\ row = 0 /\ leaked = FALSE /\ resp = "unset"
    /\ rows = <<>> /\ synced = {} /\ cloud = {} /\ late = {}
    /\ pushed = 0 /\ boot = 0 /\ crashes = 0 /\ quiet = 0

-----------------------------------------------------------------------------
(* The timer callback's end of the queue. *)

\* A plausible bug: the reading is pushed to the wrong end of the queue.
PushFront ==
    /\ pushed < MaxReadings
    /\ pushed' = pushed + 1
    /\ queue' = <<pushed + 1>> \o queue
    /\ UNCHANGED <<thread, disk, service, boot, crashes, quiet>>

\* One iteration of the sensor loop: a data_set is filled in and queued.
Push ==
    /\ pushed < MaxReadings
    /\ pushed' = pushed + 1
    /\ queue' = Append(queue, pushed + 1)
    /\ UNCHANGED <<thread, disk, service, boot, crashes, quiet>>

-----------------------------------------------------------------------------
(* db_data_handler: pop a reading, write it, perhaps attempt an upload. *)

\* A plausible bug: readings are not written while the network is away.
PopSkipsWrite ==
    /\ pc = "pop" /\ queue # <<>>
    /\ cur' = Head(queue)
    /\ queue' = Tail(queue)
    /\ pc' = IF no_internet_count = 0 THEN "write" ELSE "gate"
    /\ UNCHANGED <<no_internet_count, row, leaked, resp, disk, service, history>>

\* g_async_queue_pop blocks until the queue has a reading.
Pop ==
    /\ pc = "pop" /\ queue # <<>>
    /\ cur' = Head(queue)
    /\ queue' = Tail(queue)
    /\ pc' = "write"
    /\ UNCHANGED <<no_internet_count, row, leaked, resp, disk, service, history>>

\* The INSERT commits: nobody else holds a lock on the file.
WriteSucceeds ==
    /\ pc = "write" /\ ~leaked
    /\ rows' = Append(rows, cur)
    /\ pc' = "gate"
    /\ UNCHANGED <<queue, cur, no_internet_count, row, leaked, resp, synced,
                   service, history>>

\* A SHARED lock held by a leaked connection, or a fault, fails the INSERT;
\* the handler reports it and goes on without the reading.
WriteFails ==
    /\ pc = "write" /\ (leaked \/ DbFaults)
    /\ pc' = "gate"
    /\ UNCHANGED <<queue, cur, no_internet_count, row, leaked, resp, disk,
                   service, history>>

TrySync ==
    /\ pc = "gate" /\ no_internet_count = 0
    /\ pc' = "sync" /\ quiet' = 0
    /\ UNCHANGED <<queue, cur, no_internet_count, row, leaked, resp, disk,
                   service, pushed, boot, crashes>>

\* A plausible bug: the counter is never reset.
SkipSyncNoReset ==
    /\ pc = "gate" /\ no_internet_count # 0
    /\ no_internet_count' = no_internet_count + 1
    /\ quiet' = quiet + 1
    /\ pc' = "pop" /\ cur' = 0
    /\ UNCHANGED <<queue, row, leaked, resp, disk, service, pushed, boot, crashes>>

\* A plausible bug: the counter restarts one past the value that tries.
SkipSyncResetsToOne ==
    /\ pc = "gate" /\ no_internet_count # 0
    /\ no_internet_count' =
         IF no_internet_count + 1 > NO_INTERNET_CHECK_FREQUENCY
         THEN 1 ELSE no_internet_count + 1
    /\ quiet' = quiet + 1
    /\ pc' = "pop" /\ cur' = 0
    /\ UNCHANGED <<queue, row, leaked, resp, disk, service, pushed, boot, crashes>>

\* While the counter runs readings are only stored; past the limit it resets.
SkipSync ==
    /\ pc = "gate" /\ no_internet_count # 0
    /\ no_internet_count' =
         IF no_internet_count + 1 > NO_INTERNET_CHECK_FREQUENCY
         THEN 0 ELSE no_internet_count + 1
    /\ quiet' = quiet + 1
    /\ pc' = "pop" /\ cur' = 0
    /\ UNCHANGED <<queue, row, leaked, resp, disk, service, pushed, boot, crashes>>

\* sync_hx_data returns ret to the handler, which frees the reading.
Finish(ret) ==
    /\ no_internet_count' = no_internet_count + (IF ret = 0 THEN 0 ELSE 1)
    /\ pc' = "pop" /\ cur' = 0
    /\ UNCHANGED <<queue, row, history>>

-----------------------------------------------------------------------------
(* sync_hx_data: upload every pending row, oldest first. *)

\* check_internet fails: return 2, nothing is open yet.
SyncOffline ==
    /\ pc = "sync"
    /\ Finish(2)
    /\ UNCHANGED <<leaked, resp, disk, service>>

\* check_internet reads its answer without a timeout.
SyncHangs ==
    /\ pc = "sync" /\ CheckMayHang
    /\ pc' = "stuck"
    /\ UNCHANGED <<queue, cur, no_internet_count, row, leaked, resp, disk,
                   service, history>>

\* sqlite3_open fails: the connection is closed, return 1.
SyncNoDb ==
    /\ pc = "sync" /\ DbFaults
    /\ Finish(1)
    /\ UNCHANGED <<leaked, resp, disk, service>>

\* The database is open and the SELECT prepared.
SyncOpen ==
    /\ pc = "sync"
    /\ row' = 0 /\ pc' = "scan"
    /\ UNCHANGED <<queue, cur, no_internet_count, leaked, resp, disk, service,
                   history>>

\* sqlite3_step yields the next pending row, in the order of the ids.
StepRow ==
    /\ pc = "scan"
    /\ \E id \in Pending :
         /\ id > row
         /\ \A other \in Pending : other > row => id <= other
         /\ row' = id
    /\ pc' = "put"
    /\ UNCHANGED <<queue, cur, no_internet_count, leaked, resp, disk, service,
                   history>>

\* A plausible bug: the loop ends after the first row.
StepDoneEarly ==
    /\ pc = "scan" /\ (row # 0 \/ \A id \in Pending : id <= row)
    /\ Finish(0)
    /\ UNCHANGED <<leaked, resp, disk, service>>

\* sqlite3_step says SQLITE_DONE: finalize, close, return 0.
StepDone ==
    /\ pc = "scan" /\ \A id \in Pending : id <= row
    /\ Finish(0)
    /\ UNCHANGED <<leaked, resp, disk, service>>

\* sqlite3_step fails: the columns read as NULL and 0, and sync_hx_data
\* returns 0 with the connection open.  The failed statement holds no lock.
StepError ==
    /\ pc = "scan" /\ DbFaults
    /\ Finish(0)
    /\ UNCHANGED <<leaked, resp, disk, service>>

-----------------------------------------------------------------------------
(* sync_single_raw_data: one PutItem request for the row under the cursor. *)

\* The request was taken for a failure: sync_hx_data returns 2 at once, its
\* SELECT unfinished and its connection open.
GiveUp ==
    /\ Finish(2)
    /\ leaked' = TRUE

PutAccepted ==
    /\ pc = "put" /\ "accepted" \in PutOutcomes
    /\ cloud' = cloud \cup {rows[row]}
    /\ resp' = "ok" /\ pc' = "mark"
    /\ UNCHANGED <<queue, cur, no_internet_count, row, leaked, disk, late,
                   history>>

\* A plausible bug: any answer is taken for success.
PutRejectedUnseen ==
    /\ pc = "put" /\ "rejected" \in PutOutcomes
    /\ resp' = "error" /\ pc' = "mark"
    /\ UNCHANGED <<queue, cur, no_internet_count, row, leaked, disk, service,
                   history>>

PutRejected ==
    /\ pc = "put" /\ "rejected" \in PutOutcomes
    /\ resp' = "error"
    /\ GiveUp
    /\ UNCHANGED <<disk, service>>

\* A plausible bug: a row that cannot be sent is skipped.
PutRefusedSkips ==
    /\ pc = "put" /\ "refused" \in PutOutcomes
    /\ pc' = "scan"
    /\ UNCHANGED <<queue, cur, no_internet_count, row, leaked, resp, disk,
                   service, history>>

\* A plausible bug: the attempt is repeated instead of given up.
PutRefusedRetries ==
    /\ pc = "put" /\ "refused" \in PutOutcomes
    /\ pc' = "sync"
    /\ UNCHANGED <<queue, cur, no_internet_count, row, leaked, resp, disk,
                   service, history>>

PutRefused ==
    /\ pc = "put" /\ "refused" \in PutOutcomes
    /\ GiveUp
    /\ UNCHANGED <<resp, disk, service>>

\* Nothing or the beginning of an answer is received, and the rest of
\* http_response keeps what its stack bytes held: an earlier "200 OK" may still
\* be there and is then taken for the answer, or be overwritten.
PutSilent ==
    /\ pc = "put"
    /\ \/ /\ "lost" \in PutOutcomes
          /\ resp' \in {resp, "error"}
          /\ late' \in {late, late \cup {rows[row]}}
          /\ UNCHANGED cloud
       \/ /\ "unanswered" \in PutOutcomes
          /\ resp' \in {resp, "error", "ok"}
          /\ cloud' = cloud \cup {rows[row]}
          /\ UNCHANGED late
    /\ \/ /\ resp' = "ok" /\ pc' = "mark"
          /\ UNCHANGED <<queue, cur, no_internet_count, row, leaked, history>>
       \/ GiveUp
    /\ UNCHANGED disk

\* recv_timeout restarts its clock at every read of the end of the stream,
\* so once the service has closed the connection it never returns.
PutHangs ==
    /\ pc = "put" /\ "closed" \in PutOutcomes
    /\ late' \in {late, late \cup {rows[row]}}
    /\ pc' = "stuck"
    /\ UNCHANGED <<queue, cur, no_internet_count, row, leaked, resp, disk,
                   cloud, history>>

\* A plausible bug: the UPDATE has no WHERE clause.
MarkAll ==
    /\ pc = "mark" /\ ~leaked
    /\ synced' = DOMAIN rows
    /\ pc' = "scan"
    /\ UNCHANGED <<queue, cur, no_internet_count, row, leaked, resp, rows,
                   service, history>>

\* The UPDATE commits beside the connection's own SELECT.
MarkSucceeds ==
    /\ pc = "mark" /\ ~leaked
    /\ synced' = synced \cup {row}
    /\ pc' = "scan"
    /\ UNCHANGED <<queue, cur, no_internet_count, row, leaked, resp, rows,
                   service, history>>

\* A plausible bug: a failed UPDATE is reported and the loop goes on.
MarkFailsGoesOn ==
    /\ pc = "mark" /\ (leaked \/ DbFaults)
    /\ pc' = "scan"
    /\ UNCHANGED <<queue, cur, no_internet_count, row, leaked, resp, disk,
                   service, history>>

\* A lock of an earlier leak, or a fault, fails the UPDATE: return 1, with
\* the SELECT unfinished and the connection open.
MarkFails ==
    /\ pc = "mark" /\ (leaked \/ DbFaults)
    /\ Finish(1)
    /\ leaked' = TRUE
    /\ UNCHANGED <<resp, disk, service>>

-----------------------------------------------------------------------------
(* The process dies anywhere and is started again: what was in memory is   *)
(* gone, locks are released, the file and the table stay.  A request it    *)
(* had sent is on its way still.                                           *)

Crash ==
    /\ crashes < MaxCrashes
    /\ crashes' = crashes + 1
    /\ boot' = pushed
    /\ queue' = <<>> /\ pc' = "pop" /\ cur' = 0 /\ no_internet_count' = 0
    /\ row' = 0 /\ leaked' = FALSE /\ resp' = "unset" /\ quiet' = 0
    /\ \/ UNCHANGED late
       \/ pc = "put" /\ late' = late \cup {rows[row]}
    /\ UNCHANGED <<disk, cloud, pushed>>

\* The service comes to a request whose sender has given up, died or hung.
AppliedLate ==
    /\ \E n \in late : cloud' = cloud \cup {n} /\ late' = late \ {n}
    /\ UNCHANGED <<queue, thread, disk, history>>

HandleStep == Pop \/ WriteSucceeds \/ WriteFails \/ TrySync \/ SkipSync
SyncStep ==
    \/ SyncOffline \/ SyncHangs \/ SyncNoDb \/ SyncOpen
    \/ StepRow \/ StepDone \/ StepError
PutStep ==
    \/ PutAccepted \/ PutRejected \/ PutRefused \/ PutSilent \/ PutHangs
    \/ MarkSucceeds \/ MarkFails
DbStep == HandleStep \/ SyncStep \/ PutStep

Next == Push \/ DbStep \/ Crash \/ AppliedLate

\* The kernel schedules the thread; nothing obliges sensors to be read.
Spec == Init /\ [][Next]_vars /\ WF_vars(DbStep)

-----------------------------------------------------------------------------
(* Properties. *)

InHand == IF pc = "write" THEN {cur} ELSE {}
Queued == {queue[i] : i \in DOMAIN queue}
Stored == {rows[id] : id \in DOMAIN rows}

\* The type invariant.  The retry counter stays within its limit, the cursor
\* is on a row of the table while one is sent or marked, and no reading is
\* in hand between two pops.
TypeOK ==
    /\ queue \in Seq(1..pushed)
    /\ pc \in Places
    /\ cur \in 0..pushed /\ (pc = "pop" <=> cur = 0)
    /\ no_internet_count \in 0..NO_INTERNET_CHECK_FREQUENCY
    /\ row \in Nat /\ (pc \in {"put", "mark"} => row \in DOMAIN rows)
    /\ leaked \in BOOLEAN
    /\ resp \in {"unset", "ok", "error"}
    /\ rows \in Seq(1..pushed)
    /\ synced \in SUBSET DOMAIN rows
    /\ cloud \in SUBSET (1..pushed) /\ late \in SUBSET (1..pushed)
    /\ pushed \in 0..MaxReadings
    /\ boot \in 0..pushed
    /\ crashes \in 0..MaxCrashes
    /\ quiet \in Nat

\* Whatever fails, and wherever the process dies, rows are marked oldest
\* first: no row is marked while an older one still waits (sync_hx_data
\* stops at the first row that cannot be sent or marked).
UploadInOrder ==
    \A id \in synced : \A older \in 1..id : older \in synced

\* At most one reading can be uploaded a second time, however late a request
\* is applied: a row that is in the cloud, or on its way there, without being
\* marked is the first the next attempt will send, and nothing gets to the
\* cloud that is not in the table.
AtMostOneUnmarkedUpload ==
    /\ cloud \cup late \subseteq Stored
    /\ \A id \in Pending :
         rows[id] \in cloud \cup late => \A other \in Pending : id <= other

\* The table holds readings in the order they were taken, each once, and
\* all of them older than what is in hand before its INSERT or queued.
StoredInOrder ==
    /\ \A i, j \in DOMAIN rows : i < j => rows[i] < rows[j]
    /\ \A id \in DOMAIN rows : \A n \in Queued \cup InHand : rows[id] < n

\* Between two upload attempts of one run of the process at most
\* NO_INTERNET_CHECK_FREQUENCY readings are stored without an attempt.
RetryBudget == quiet <= NO_INTERNET_CHECK_FREQUENCY

\* A row is marked only when its reading is in the DynamoDB table.
SyncedIsInCloud == \A id \in synced : rows[id] \in cloud

\* Until a connection is leaked, no reading pushed since the process started
\* is dropped: it is queued, in hand before its INSERT, or in the table.
NothingLostBeforeALeak ==
    ~leaked => (boot + 1)..pushed \subseteq Queued \cup InHand \cup Stored

\* Every reading pushed since the process started reaches the table or is
\* still on its way there.
EveryReadingIsSaved == (boot + 1)..pushed \subseteq Queued \cup InHand \cup Stored

\* sync_hx_data reports success after opening the database only when it has
\* left no row pending, those stored during earlier outages included.
SuccessLeavesNoBacklog ==
    [][(pc = "scan" /\ pc' = "pop" /\ crashes' = crashes) => Pending' = {}]_vars

\* Every queued reading is taken out of the queue, whatever becomes of the
\* attempts made meanwhile: the upload loop and its retries never starve it.
EveryReadingIsHandled ==
    \A n \in 1..MaxReadings : n \in Queued ~> n \notin Queued

\* The thread does what the abstract store-and-forward promises.
Promise == INSTANCE Outbox
             WITH Readings <- 1..MaxReadings, stored <- rows, confirmed <- synced
ImplementsOutbox == Promise!Spec
=============================================================================
