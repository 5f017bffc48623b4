------------------------------ MODULE StoreQueue ------------------------------
(***************************************************************************)
(* The relayer's durable store queue: the staged_intent table              *)
(* (StagedIntentStore), the claim loop and store pipeline of               *)
(* IntentProcessor, the reaper (StagedReaper), the ops ledger              *)
(* (StorageOpLedger), and the effects these have on Walrus, on Sui and on  *)
(* the origin chain.                                                       *)
(*                                                                         *)
(* A relayer process is a claimant identity: the code draws a fresh one on *)
(* every boot, so a restart is another element of Procs.  Each await of    *)
(* the pipeline is a step of its own; every row a tick drained is an       *)
(* attempt with its own copy of the columns it read.  Time is a set of     *)
(* events: a backoff, a lease, an attempt timeout, the tick watchdog or an *)
(* intent's deadline elapses.                                              *)
(***************************************************************************)
EXTENDS Integers, FiniteSets

CONSTANTS
    Intents,            \* intent ids
    Procs,              \* claimant identities, one per boot of a relayer
    Ticks,              \* tick slots of a process: bound on overlapping ticks
    Objects,            \* Walrus blob objects: bound on uploads
    None,               \* SQL NULL
    MaxStoreAttempts,   \* MAX_STORE_ATTEMPTS
    ReturnMaxAttempts,  \* RETURN_MAX_ATTEMPTS
    BatchSize,          \* STORE_BATCH_SIZE
    StoreConcurrency,   \* STORE_CONCURRENCY
    Outlasted           \* the time limits a hung await may outlast

ASSUME ConstantsAssumption ==
    /\ None \notin Procs \union Objects \union Intents
    /\ MaxStoreAttempts \in Nat \ {0}
    /\ ReturnMaxAttempts \in Nat \ {0}
    /\ BatchSize \in Nat \ {0}
    /\ StoreConcurrency \in Nat \ {0}
    /\ Outlasted \subseteq {"watchdog", "lease", "retention"}

VARIABLES
    rows,       \* the staged_intent table
    ledger,     \* intents the durable storage_op_ledger has recorded
    committed,  \* intents whose sender the lifecycle store knows
    past,       \* intents whose deadline has passed
    life,       \* a process is not booted yet, up, or down
    inProcess,  \* IntentProcessor.inProcess of each process
    task,       \* the attempts in flight, by process, tick slot and row
    uploaded,   \* Walrus blob objects the relayer has paid for, each for an intent
    recorded,   \* executed_intents on Sui: the blob object recorded, or None
    proofSent,  \* intents with a LayerZero proof packet sent from Sui
    confirmed   \* intents marked by confirmExecution on the origin chain

table     == <<rows, ledger>>
processes == <<life, inProcess, task>>
chains    == <<uploaded, recorded, proofSent, confirmed>>
vars      == <<table, committed, past, processes, chains>>

-----------------------------------------------------------------------------
(* State.                                                                  *)

Terminal == {"done", "dead", "expired"}

Row == [state     : {"absent", "active"} \union Terminal,
        received  : BOOLEAN,
        bytes     : BOOLEAN,             \* bytes IS NOT NULL
        blob      : BOOLEAN,             \* blob_id IS NOT NULL
        deadline  : BOOLEAN,             \* deadline IS NOT NULL
        object    : Objects \union {None},
        stored    : BOOLEAN,             \* store_digest IS NOT NULL
        ledgered  : BOOLEAN,
        returned  : BOOLEAN,
        attempts  : Nat,
        due       : BOOLEAN,             \* next_attempt_at <= now
        claimedBy : Procs \union {None}, \* claimed_by, None once the lease is over
        lastError : {"none", "rejected", "preStore", "return"}]

NewRow == [state |-> "active", received |-> FALSE, bytes |-> FALSE, blob |-> FALSE,
           deadline |-> FALSE, object |-> None, stored |-> FALSE, ledgered |-> FALSE,
           returned |-> FALSE, attempts |-> 0, due |-> TRUE, claimedBy |-> None,
           lastError |-> "none"]
NoRow == [NewRow EXCEPT !.state = "absent"]

\* A row staged by a release that did not record the deadline at ingest.
LegacyRow == [NewRow EXCEPT !.bytes = TRUE, !.blob = TRUE]

\* Where an attempt stands: in the tick's scan, in store(), or in runStore's catch.
Scanning == {"drained", "commitment", "ready"}
Storing  == {"check", "upload", "persistUpload", "executeStore", "persistStore",
             "recordLedger", "freeBytes", "sendProof", "confirm", "markReturned",
             "markDone"}
Failed   == {"failedPre", "failedPost"}
Steps    == {"idle"} \union Scanning \union Storing \union Failed

Task == [pc       : Steps,
         object   : Objects \union {None},
         stored   : BOOLEAN,
         ledgered : BOOLEAN,
         returned : BOOLEAN,
         attempts : Nat,
         timedOut : BOOLEAN,   \* runStore gave up on it, store() still runs
         overdue  : BOOLEAN]   \* its tick has outlasted the watchdog

IdleTask == [pc |-> "idle", object |-> None, stored |-> FALSE, ledgered |-> FALSE,
             returned |-> FALSE, attempts |-> 0, timedOut |-> FALSE, overdue |-> FALSE]

Attempts  == Procs \X Ticks \X Intents
Proc(a)   == a[1]
Tick(a)   == a[2]
Intent(a) == a[3]

TypeOK ==
    /\ rows \in [Intents -> Row]
    /\ ledger \in SUBSET Intents
    /\ committed \in SUBSET Intents
    /\ past \in SUBSET Intents
    /\ life \in [Procs -> {"new", "up", "down"}]
    /\ inProcess \in [Procs -> SUBSET Intents]
    /\ task \in [Attempts -> Task]
    /\ uploaded \in [Objects -> Intents \union {None}]
    /\ recorded \in [Intents -> Objects \union {None}]
    /\ proofSent \in SUBSET Intents
    /\ confirmed \in SUBSET Intents

Init ==
    /\ rows \in [Intents -> {NoRow, LegacyRow}]
    /\ ledger = {}
    /\ committed = {}
    /\ past = {}
    /\ life = [p \in Procs |-> "new"]
    /\ inProcess = [p \in Procs |-> {}]
    /\ task = [a \in Attempts |-> IdleTask]
    /\ uploaded = [o \in Objects |-> None]
    /\ recorded = [i \in Intents |-> None]
    /\ proofSent = {}
    /\ confirmed = {}

-----------------------------------------------------------------------------
(* Helpers.                                                                *)

\* UPDATE staged_intent SET ... WHERE intent_id = i: nothing on an absent row.
Update(i, new) == [rows EXCEPT ![i] = IF @.state = "absent" THEN @ ELSE new]

Dead(i, why) == Update(i, [rows[i] EXCEPT !.state = "dead", !.bytes = FALSE,
                                          !.lastError = why])

\* Mutant: rescheduling also makes the row active again.
RescheduleRevives(i, n) == Update(i, [rows[i] EXCEPT !.attempts = n, !.due = FALSE,
                                                     !.claimedBy = None, !.state = "active"])

Reschedule(i, n) == Update(i, [rows[i] EXCEPT !.attempts = n, !.due = FALSE,
                                              !.claimedBy = None])

\* runStore awaits it: in the tick's scan, storing within the timeout, or failed.
Unsettled(a) == task[a].pc # "idle" /\ ~task[a].timedOut
\* store() is running, timed out or not.
Running(a) == task[a].pc \in Storing

Goto(a, pc) == task' = [task EXCEPT ![a].pc = pc]

\* store() settled: its finally() frees the in-process slot.
Release(a) == inProcess' = [inProcess EXCEPT ![Proc(a)] = @ \ {Intent(a)}]

Finish(a) == Release(a) /\ task' = [task EXCEPT ![a] = IdleTask]

\* store() rejected.  After a timeout nobody is left to see the rejection.
Throw(a, phase) ==
    /\ Release(a)
    /\ task' = [task EXCEPT ![a] = IF @.timedOut THEN IdleTask ELSE [@ EXCEPT !.pc = phase]]

\* An owned object can only be passed to execute_store by its owner, and
\* execute_store hands the object it records to the user.
RelayerOwns(o) == uploaded[o] # None /\ \A i \in Intents : recorded[i] # o

-----------------------------------------------------------------------------
(* Producers: the lifecycle watchers, the ingest API and the Sui           *)
(* checkpoint stream.                                                      *)

ObserveCommitment(i) ==
    /\ i \notin committed
    /\ committed' = committed \union {i}
    /\ UNCHANGED <<table, past, processes, chains>>

\* ingest(), from the API or the byte-recovery sweep, up to upsertBytes().  The
\* "already executed" refusal reads a best-effort status, so it may not happen.
UpsertBytes(i) ==
    /\ i \in committed
    /\ i \notin past
    /\ rows[i].state \in {"absent", "active"}
    /\ LET old == IF rows[i].state = "absent" THEN NewRow ELSE rows[i]
       IN  rows' = [rows EXCEPT ![i] = [old EXCEPT !.bytes = TRUE, !.blob = TRUE,
                                                   !.deadline = TRUE]]
    /\ UNCHANGED <<ledger, committed, past, processes, chains>>

\* onReceived() -> markReceived(), delivered at least once and in any order.
MarkReceived(i) ==
    /\ rows[i].state \in {"absent", "active"}
    /\ LET old == IF rows[i].state = "absent" THEN NewRow ELSE rows[i]
       IN  rows' = [rows EXCEPT ![i] = [old EXCEPT !.received = TRUE, !.deadline = TRUE]]
    /\ UNCHANGED <<ledger, committed, past, processes, chains>>

-----------------------------------------------------------------------------
(* The claim loop.                                                         *)

\* Mutant: a row claimed by another process is up for grabs.
ClaimableIgnoresLease(i, p) ==
    /\ rows[i].state = "active"
    /\ rows[i].due
    /\ rows[i].received
    /\ rows[i].bytes \/ rows[i].object # None

Claimable(i, p) ==
    /\ rows[i].state = "active"
    /\ rows[i].due
    /\ rows[i].received
    /\ rows[i].bytes \/ rows[i].object # None
    /\ rows[i].claimedBy \in {None, p}

\* The columns of a claimed row that the attempt goes on to use.
Snapshot(i) == [IdleTask EXCEPT !.pc = "drained", !.object = rows[i].object,
                                !.stored = rows[i].stored, !.ledgered = rows[i].ledgered,
                                !.returned = rows[i].returned, !.attempts = rows[i].attempts]

\* tick() up to its first await, and drainDue(): one statement claims the batch.
\* A row past its deadline is claimed too, and skipped.
DrainDue(p, k) ==
    /\ life[p] = "up"
    /\ \A a \in Attempts : Proc(a) = p =>
          /\ Unsettled(a) => task[a].overdue
          /\ Tick(a) = k => task[a].pc = "idle"
    /\ \E batch \in SUBSET {i \in Intents : Claimable(i, p)} :
          /\ batch # {}
          /\ Cardinality(batch) <= BatchSize
          /\ Cardinality(batch) < BatchSize => \A i \in Intents : Claimable(i, p) => i \in batch
          /\ rows' = [i \in Intents |-> IF i \in batch THEN [rows[i] EXCEPT !.claimedBy = p]
                                                       ELSE rows[i]]
          /\ task' = [a \in Attempts |->
                        IF Proc(a) = p /\ Tick(a) = k /\ Intent(a) \in batch \ past
                        THEN Snapshot(Intent(a)) ELSE task[a]]
    /\ UNCHANGED <<ledger, committed, past, life, inProcess, chains>>

\* The scan is past row a.  After the last row, in the same turn of the event loop,
\* runStore() starts for every ready one and takes its in-process slot.
ScanPast(a, t) ==
    LET tick    == {b \in Attempts : Proc(b) = Proc(a) /\ Tick(b) = Tick(a)}
        over    == \A b \in tick \ {a} : task[b].pc # "drained"
        scanned == [task EXCEPT ![a] = t]
        start   == {b \in tick : over /\ scanned[b].pc = "ready"}
    IN  /\ task' = [b \in Attempts |-> IF b \in start THEN [scanned[b] EXCEPT !.pc = "check"]
                                                      ELSE scanned[b]]
        /\ inProcess' = [inProcess EXCEPT ![Proc(a)] = @ \union {Intent(b) : b \in start}]

\* Mutant: a row that is already in process is considered again.
ConsiderIgnoresInProcess(a) ==
    LET tick  == {b \in Attempts : Proc(b) = Proc(a) /\ Tick(b) = Tick(a)}
        ready == {b \in tick : task[b].pc = "ready"}
    IN  /\ task[a].pc = "drained"
        /\ \A b \in tick : task[b].pc # "commitment"
        /\ IF Cardinality(ready) >= StoreConcurrency
           THEN ScanPast(a, IdleTask)
           ELSE Goto(a, "commitment") /\ UNCHANGED inProcess
        /\ UNCHANGED <<table, committed, past, life, chains>>

\* Mutant: one store too many is started.
ConsiderOneTooMany(a) ==
    LET tick  == {b \in Attempts : Proc(b) = Proc(a) /\ Tick(b) = Tick(a)}
        ready == {b \in tick : task[b].pc = "ready"}
    IN  /\ task[a].pc = "drained"
        /\ \A b \in tick : task[b].pc # "commitment"
        /\ IF Cardinality(ready) > StoreConcurrency \/ Intent(a) \in inProcess[Proc(a)]
           THEN ScanPast(a, IdleTask)
           ELSE Goto(a, "commitment") /\ UNCHANGED inProcess
        /\ UNCHANGED <<table, committed, past, life, chains>>

\* One turn of the scan: concurrency and double-start guards, then getCommitment().
Consider(a) ==
    LET tick  == {b \in Attempts : Proc(b) = Proc(a) /\ Tick(b) = Tick(a)}
        ready == {b \in tick : task[b].pc = "ready"}
    IN  /\ task[a].pc = "drained"
        /\ \A b \in tick : task[b].pc # "commitment"
        /\ IF Cardinality(ready) >= StoreConcurrency \/ Intent(a) \in inProcess[Proc(a)]
           THEN ScanPast(a, IdleTask)
           ELSE Goto(a, "commitment") /\ UNCHANGED inProcess
        /\ UNCHANGED <<table, committed, past, life, chains>>

\* original_sender comes from the lifecycle store; without it the row waits.
GetCommitment(a) ==
    /\ task[a].pc = "commitment"
    /\ ScanPast(a, IF Intent(a) \in committed THEN [task[a] EXCEPT !.pc = "ready"]
                                              ELSE IdleTask)
    /\ UNCHANGED <<table, committed, past, life, chains>>

\* getCommitment() rejects: the tick is abandoned, its rows stay claimed.
TickFails(p, k) ==
    LET mine == {a \in Attempts : Proc(a) = p /\ Tick(a) = k}
    IN  /\ \E a \in mine : task[a].pc = "commitment"
        /\ task' = [a \in Attempts |-> IF a \in mine /\ task[a].pc \in Scanning THEN IdleTask
                                       ELSE task[a]]
        /\ UNCHANGED <<table, committed, past, life, inProcess, chains>>

\* The tick has been in flight longer than tickWatchdogMs, twice the attempt
\* timeout: some await of it that has no timeout of its own hangs.
WatchdogElapses(p, k) ==
    LET mine == {a \in Attempts : Proc(a) = p /\ Tick(a) = k /\ Unsettled(a)}
    IN  /\ "watchdog" \in Outlasted
        /\ \E a \in mine : ~task[a].overdue
        /\ task' = [a \in Attempts |-> IF a \in mine THEN [task[a] EXCEPT !.overdue = TRUE]
                                       ELSE task[a]]
        /\ UNCHANGED <<table, committed, past, life, inProcess, chains>>

-----------------------------------------------------------------------------
(* store(): the per-step idempotent pipeline.                              *)

\* Mutant: an intent that was uploaded is taken to be recorded too.
CheckSkipsRecord(a) ==
    LET i == Intent(a)
    IN  /\ task[a].pc = "check"
        /\ \/ /\ task[a].object = None
              /\ rows[i].bytes /\ rows[i].state # "absent"
              /\ Goto(a, "upload")
           \/ /\ task[a].object # None
              /\ Goto(a, "recordLedger")
        /\ UNCHANGED <<table, committed, past, life, inProcess, chains>>

\* Steps 1 to 1b, ensureWal() and fetchBytes().  The blob id, the storage epochs
\* and the break-even guard can reject an intent only before its upload.
Check(a) ==
    LET i == Intent(a)
    IN  /\ task[a].pc = "check"
        /\ \/ /\ task[a].object = None
              /\ rows[i].bytes /\ rows[i].state # "absent"
              /\ Goto(a, "upload")
              /\ UNCHANGED <<rows, inProcess>>
           \/ /\ task[a].object # None
              /\ Goto(a, IF task[a].stored THEN "recordLedger" ELSE "executeStore")
              /\ UNCHANGED <<rows, inProcess>>
           \/ /\ task[a].object = None
              /\ rows' = Dead(i, "rejected")
              /\ Finish(a)
        /\ UNCHANGED <<ledger, committed, past, life, chains>>

\* walrus.upload(): a fresh object for every call, writeBlob is not idempotent.
Upload(a) ==
    /\ task[a].pc = "upload"
    /\ \E o \in Objects :
          /\ uploaded[o] = None
          /\ uploaded' = [uploaded EXCEPT ![o] = Intent(a)]
          /\ task' = [task EXCEPT ![a].pc = "persistUpload", ![a].object = o]
    /\ UNCHANGED <<table, committed, past, life, inProcess, recorded, proofSent, confirmed>>

\* Mutant: the bytes are freed as soon as the blob is on Walrus.
PersistUploadFreesBytes(a) ==
    /\ task[a].pc = "persistUpload"
    /\ rows' = Update(Intent(a), [rows[Intent(a)] EXCEPT !.object = task[a].object, !.bytes = FALSE])
    /\ Goto(a, IF task[a].stored THEN "recordLedger" ELSE "executeStore")
    /\ UNCHANGED <<ledger, committed, past, life, inProcess, chains>>

PersistUpload(a) ==
    /\ task[a].pc = "persistUpload"
    /\ rows' = Update(Intent(a), [rows[Intent(a)] EXCEPT !.object = task[a].object])
    /\ Goto(a, IF task[a].stored THEN "recordLedger" ELSE "executeStore")
    /\ UNCHANGED <<ledger, committed, past, life, inProcess, chains>>

\* Mutant: every abort of execute_store is taken for "already executed".
ExecuteStoreSwallowsAborts(a) ==
    /\ task[a].pc = "executeStore"
    /\ Goto(a, "persistStore")
    /\ UNCHANGED <<table, committed, past, life, inProcess, chains>>

\* sui.executeStore() and waitForTransaction(): recorded now (the answer may be
\* lost), or abort code 2 because another attempt's object was recorded before.
ExecuteStore(a) ==
    LET i == Intent(a)
        o == task[a].object
    IN  /\ task[a].pc = "executeStore"
        /\ RelayerOwns(o)
        /\ \/ /\ recorded[i] = None
              /\ i \notin past
              /\ recorded' = [recorded EXCEPT ![i] = o]
              /\ \/ Goto(a, "persistStore") /\ UNCHANGED inProcess
                 \/ Throw(a, "failedPre")
           \/ /\ recorded[i] # None
              /\ Goto(a, "persistStore")
              /\ UNCHANGED <<inProcess, recorded>>
        /\ UNCHANGED <<table, committed, past, life, uploaded, proofSent, confirmed>>

PersistStore(a) ==
    /\ task[a].pc = "persistStore"
    /\ rows' = Update(Intent(a), [rows[Intent(a)] EXCEPT !.stored = TRUE])
    /\ Goto(a, "recordLedger")
    /\ UNCHANGED <<ledger, committed, past, life, inProcess, chains>>

\* Mutant: the row is flagged before, and without, the ledger insert.
RecordCompletedStoreFlagsFirst(i) ==
    \/ ledger' = ledger \union {i} /\ rows' = Update(i, [rows[i] EXCEPT !.ledgered = TRUE])
    \/ UNCHANGED ledger /\ rows' = Update(i, [rows[i] EXCEPT !.ledgered = TRUE])

\* recordCompletedStore(): insert, then flag the row; either may fail, quietly.
RecordCompletedStore(i) ==
    \/ ledger' = ledger \union {i} /\ rows' = Update(i, [rows[i] EXCEPT !.ledgered = TRUE])
    \/ ledger' = ledger \union {i} /\ UNCHANGED rows
    \/ UNCHANGED table

RecordLedger(a) ==
    /\ task[a].pc = "recordLedger"
    /\ IF task[a].ledgered THEN UNCHANGED table ELSE RecordCompletedStore(Intent(a))
    /\ Goto(a, "freeBytes")
    /\ UNCHANGED <<committed, past, life, inProcess, chains>>

\* Mutant: a retry of a recorded store skips the return leg.
FreeBytesSkipsReturn(a) ==
    /\ task[a].pc = "freeBytes"
    /\ rows' = Update(Intent(a), [rows[Intent(a)] EXCEPT !.bytes = FALSE])
    /\ Goto(a, IF task[a].stored THEN "markDone" ELSE "sendProof")
    /\ UNCHANGED <<ledger, committed, past, life, inProcess, chains>>

FreeBytes(a) ==
    /\ task[a].pc = "freeBytes"
    /\ rows' = Update(Intent(a), [rows[Intent(a)] EXCEPT !.bytes = FALSE])
    /\ Goto(a, IF task[a].returned THEN "markDone" ELSE "sendProof")
    /\ UNCHANGED <<ledger, committed, past, life, inProcess, chains>>

\* quoteLzFee() and lzSendProof(): sent, sent although the client saw an error,
\* or not sent; an error falls back to the owner-gated confirmation.
SendProof(a) ==
    /\ task[a].pc = "sendProof"
    /\ \/ proofSent' = proofSent \union {Intent(a)} /\ Goto(a, "markReturned")
       \/ proofSent' = proofSent \union {Intent(a)} /\ Goto(a, "confirm")
       \/ UNCHANGED proofSent /\ Goto(a, "confirm")
    /\ UNCHANGED <<table, committed, past, life, inProcess, uploaded, recorded, confirmed>>

\* confirmExecution(): mined, or mined although the client saw an error.
ConfirmExecution(a) ==
    /\ task[a].pc = "confirm"
    /\ confirmed' = confirmed \union {Intent(a)}
    /\ \/ Goto(a, "markReturned") /\ UNCHANGED inProcess
       \/ Throw(a, "failedPost")
    /\ UNCHANGED <<table, committed, past, life, uploaded, recorded, proofSent>>

MarkReturned(a) ==
    /\ task[a].pc = "markReturned"
    /\ rows' = Update(Intent(a), [rows[Intent(a)] EXCEPT !.returned = TRUE])
    /\ Goto(a, "markDone")
    /\ UNCHANGED <<ledger, committed, past, life, inProcess, chains>>

MarkDone(a) ==
    /\ task[a].pc = "markDone"
    /\ rows' = Update(Intent(a), [rows[Intent(a)] EXCEPT !.state = "done", !.bytes = FALSE])
    /\ Finish(a)
    /\ UNCHANGED <<ledger, committed, past, life, chains>>

\* The await of the step rejects without effect.  The ledger step never rejects
\* and a failed send falls back, so only the confirmation fails as a "post" error.
StepFails(a) ==
    /\ task[a].pc \in Storing \ {"recordLedger", "sendProof"}
    /\ Throw(a, IF task[a].pc = "confirm" THEN "failedPost" ELSE "failedPre")
    /\ UNCHANGED <<table, committed, past, life, chains>>

-----------------------------------------------------------------------------
(* runStore(): timeout, classification and retry.                          *)

\* Mutant: attempts are counted down.
RetryOrBuryCountsDown(a, limit, why) ==
    LET n == task[a].attempts - 1
    IN  rows' = IF n >= limit THEN Dead(Intent(a), why) ELSE Reschedule(Intent(a), n)

\* The catch block's write: attempts come from the attempt's own snapshot.
RetryOrBury(a, limit, why) ==
    LET n == task[a].attempts + 1
    IN  rows' = IF n >= limit THEN Dead(Intent(a), why) ELSE Reschedule(Intent(a), n)

\* The write itself may fail, which leaves the row claimed until its lease ends.
HandleFailure(a) ==
    /\ task[a].pc \in Failed
    /\ \/ task[a].pc = "failedPre"  /\ RetryOrBury(a, MaxStoreAttempts, "preStore")
       \/ task[a].pc = "failedPost" /\ RetryOrBury(a, ReturnMaxAttempts, "return")
       \/ UNCHANGED rows
    /\ task' = [task EXCEPT ![a] = IdleTask]
    /\ UNCHANGED <<ledger, committed, past, life, inProcess, chains>>

\* withTimeout() gives up, in whatever phase; store() keeps its slot and runs on.
TimesOut(a) ==
    /\ Running(a)
    /\ ~task[a].timedOut
    /\ RetryOrBury(a, MaxStoreAttempts, "preStore") \/ UNCHANGED rows
    /\ task' = [task EXCEPT ![a].timedOut = TRUE]
    /\ UNCHANGED <<ledger, committed, past, life, inProcess, chains>>

-----------------------------------------------------------------------------
(* The ledger backfill and the reaper.                                     *)

Backfill(i) ==
    /\ rows[i].stored
    /\ ~rows[i].ledgered
    /\ RecordCompletedStore(i)
    /\ UNCHANGED <<committed, past, processes, chains>>

Expired(i) == [rows[i] EXCEPT !.state = "expired", !.bytes = FALSE]

ExpireDue ==
    LET overdue == {i \in past : rows[i].state = "active" /\ rows[i].deadline}
    IN  /\ overdue # {}
        /\ rows' = [i \in Intents |-> IF i \in overdue THEN Expired(i) ELSE rows[i]]
        /\ UNCHANGED <<ledger, committed, past, processes, chains>>

\* A row older than the unreceived TTL.
ExpireUnreceived(i) ==
    /\ rows[i].state = "active"
    /\ ~rows[i].received
    /\ ~rows[i].deadline
    /\ rows' = [rows EXCEPT ![i] = Expired(i)]
    /\ UNCHANGED <<ledger, committed, past, processes, chains>>

\* Mutant: a completed store is purged whether it is ledgered or not.
PurgeTerminalUnledgered(i) ==
    /\ rows[i].state \in Terminal
    /\ "retention" \in Outlasted \/ \A a \in Attempts : Intent(a) = i => task[a].pc = "idle"
    /\ rows' = [rows EXCEPT ![i] = NoRow]
    /\ UNCHANGED <<ledger, committed, past, processes, chains>>

\* A row older than the retention window, which outlasts every attempt on it
\* unless an await hangs.
PurgeTerminal(i) ==
    /\ rows[i].state \in Terminal
    /\ "retention" \in Outlasted \/ \A a \in Attempts : Intent(a) = i => task[a].pc = "idle"
    /\ rows[i].stored => rows[i].ledgered
    /\ rows' = [rows EXCEPT ![i] = NoRow]
    /\ UNCHANGED <<ledger, committed, past, processes, chains>>

-----------------------------------------------------------------------------
(* Processes and time.                                                     *)

Boot(p) ==
    /\ life[p] = "new"
    /\ life' = [life EXCEPT ![p] = "up"]
    /\ UNCHANGED <<table, committed, past, inProcess, task, chains>>

\* A crash, or a shutdown whose drain ran out of time: memory is lost, rows keep
\* the claim of an identity that never comes back.  Bound: one process survives.
Crash(p) ==
    /\ life[p] = "up"
    /\ \E q \in Procs \ {p} : life[q] # "down"
    /\ life' = [life EXCEPT ![p] = "down"]
    /\ inProcess' = [inProcess EXCEPT ![p] = {}]
    /\ task' = [a \in Attempts |-> IF Proc(a) = p THEN IdleTask ELSE task[a]]
    /\ UNCHANGED <<table, committed, past, chains>>

BackoffElapses(i) ==
    /\ rows[i].state = "active"
    /\ ~rows[i].due
    /\ rows' = [rows EXCEPT ![i].due = TRUE]
    /\ UNCHANGED <<ledger, committed, past, processes, chains>>

\* Mutant: drainDue has no clause for an expired claim.
LeaseNeverExpires(i) == FALSE

\* The lease is several attempt timeouts long: it outlives every attempt that is
\* still awaited, unless some other await of the claimant hangs.
LeaseExpires(i) ==
    /\ rows[i].state = "active"
    /\ rows[i].claimedBy # None
    /\ \/ "lease" \in Outlasted
       \/ \A a \in Attempts : Proc(a) = rows[i].claimedBy /\ Intent(a) = i => ~Unsettled(a)
    /\ rows' = [rows EXCEPT ![i].claimedBy = None]
    /\ UNCHANGED <<ledger, committed, past, processes, chains>>

DeadlinePasses(i) ==
    /\ i \notin past
    /\ past' = past \union {i}
    /\ UNCHANGED <<table, committed, processes, chains>>

-----------------------------------------------------------------------------

Pipeline(a) ==
    \/ Check(a) \/ Upload(a) \/ PersistUpload(a) \/ ExecuteStore(a) \/ PersistStore(a)
    \/ RecordLedger(a) \/ FreeBytes(a) \/ SendProof(a) \/ ConfirmExecution(a)
    \/ MarkReturned(a) \/ MarkDone(a)

AttemptNext(a) ==
    \/ Consider(a) \/ GetCommitment(a) \/ Pipeline(a)
    \/ StepFails(a) \/ HandleFailure(a) \/ TimesOut(a)

TickNext(p, k) ==
    \/ DrainDue(p, k) \/ TickFails(p, k) \/ WatchdogElapses(p, k)

RowNext(i) ==
    \/ ObserveCommitment(i) \/ UpsertBytes(i) \/ MarkReceived(i)
    \/ Backfill(i) \/ ExpireUnreceived(i) \/ PurgeTerminal(i)
    \/ BackoffElapses(i) \/ LeaseExpires(i) \/ DeadlinePasses(i)

Next ==
    \/ \E a \in Attempts : AttemptNext(a)
    \/ \E p \in Procs, k \in Ticks : TickNext(p, k)
    \/ \E i \in Intents : RowNext(i)
    \/ \E p \in Procs : Boot(p) \/ Crash(p)
    \/ ExpireDue

Spec == Init /\ [][Next]_vars

\* Every live process ticks, the reaper runs, every await of the scan comes back,
\* an awaited attempt makes a step or times out, and a backoff or the lease of a
\* process that is gone runs out.  A database that is asked again and again
\* answers: a row is not scanned, nor its attempts counted, in vain for ever.  A
\* call that outlived its attempt's timeout still settles.
Fairness ==
    /\ \A p \in Procs, k \in Ticks : WF_vars(DrainDue(p, k))
    /\ \A p \in Procs : WF_vars(Boot(p))
    /\ WF_vars(ExpireDue)
    /\ \A a \in Attempts :
          /\ WF_vars(Consider(a))
          /\ SF_vars(GetCommitment(a))
          /\ WF_vars(Unsettled(a) /\ (Pipeline(a) \/ StepFails(a) \/ TimesOut(a)))
          /\ WF_vars(HandleFailure(a))
          /\ WF_vars(Pipeline(a) \/ StepFails(a))
    /\ \A i \in Intents :
          /\ WF_vars(BackoffElapses(i))
          /\ WF_vars((\E p \in Procs : rows[i].claimedBy = p /\ life[p] = "down") /\ LeaseExpires(i))
          /\ SF_rows(\E a \in Attempts : Intent(a) = i /\ (HandleFailure(a) \/ TimesOut(a)))

FairSpec == Spec /\ Fairness

-----------------------------------------------------------------------------
(* Safety.                                                                 *)

\* The origin chain has been, or will be, told: a proof packet left Sui or the
\* owner-gated confirmation was mined.
Answered(i) == i \in proofSent \/ i \in confirmed

\* Whatever ticks overlap, attempts outlive their timeout and processes crash,
\* the origin chain is told "executed" only about an intent execute_store has
\* recorded: sendProof and confirmExecution come after a persisted store only.
AnsweredMeansRecorded == \A i \in Intents : Answered(i) => recorded[i] # None

\* A row is settled as done (markDone, which no state guard protects) only when
\* its blob is recorded on Sui and its return leg was answered.
DoneMeansAnswered ==
    \A i \in Intents : rows[i].state = "done" => recorded[i] # None /\ Answered(i)

\* The only durable copy of accepted bytes outlives the need for it: freeBytes
\* leaves an active row without its bytes only once Sui has recorded the blob.
BytesKeptUntilRecorded ==
    \A i \in Intents :
        rows[i].state = "active" /\ rows[i].blob /\ ~rows[i].bytes => recorded[i] # None

\* The ops ledger is evidence: it lists no intent that Sui has not recorded, and
\* a row says so only when the entry is there (recordCompletedStore, backfill).
LedgerIsEvidence ==
    /\ \A i \in ledger : recorded[i] # None
    /\ \A i \in Intents : rows[i].ledgered => i \in ledger

\* One process never runs store() twice at the same time on one row, a store that
\* outlived its timeout included: the inProcess guard of the scan.
ProcessRunsRowOnce ==
    \A a, b \in Attempts :
        Running(a) /\ Running(b) /\ Proc(a) = Proc(b) /\ Intent(a) = Intent(b) => a = b

\* Two attempts that are still awaited never hold the same row, in one process or
\* in two: the claim lease and the in-process guard together.
AwaitedAttemptsDisjoint ==
    \A a, b \in Attempts :
        /\ Running(a) /\ ~task[a].timedOut /\ Running(b) /\ ~task[b].timedOut
        /\ Intent(a) = Intent(b)
        => a = b

\* While no tick is presumed hung, a process awaits at most STORE_CONCURRENCY
\* stores at once, however many rows its batch has claimed.
ConcurrencyBounded ==
    \A p \in Procs :
        Cardinality({a \in Attempts : Proc(a) = p /\ Running(a) /\ ~task[a].timedOut})
            <= StoreConcurrency

\* Why the pipeline is honest, as an inductive invariant.  What a row or an
\* attempt's copy of it says of Sui and of the origin chain is true there, and an
\* attempt is past a step only when that step's effect is on chain; the chains
\* forget nothing, so a stale copy stays true.
RowsTellTheTruth ==
    \A i \in Intents :
        /\ rows[i].stored   => recorded[i] # None
        /\ rows[i].returned => Answered(i)
        /\ rows[i].state = "absent" => ~rows[i].stored

AttemptsTellTheTruth ==
    \A a \in Attempts :
        /\ task[a].stored   => recorded[Intent(a)] # None
        /\ task[a].returned => Answered(Intent(a))
        /\ task[a].pc \in {"persistStore", "recordLedger", "freeBytes", "sendProof", "confirm",
                           "markReturned", "markDone"} => recorded[Intent(a)] # None
        /\ task[a].pc \in {"markReturned", "markDone"} => Answered(Intent(a))
        /\ task[a].pc \in {"persistUpload", "executeStore"} => task[a].object # None

HonestInv ==
    /\ TypeOK
    /\ RowsTellTheTruth
    /\ AttemptsTellTheTruth
    /\ AnsweredMeansRecorded
    /\ DoneMeansAnswered
    /\ BytesKeptUntilRecorded
    /\ LedgerIsEvidence

\* Per-attempt timeout: "the in-process slot is held until it truly settles, so it
\* is never driven twice at once", by any of the processes that share the table.
RowRunsOnce ==
    \A a, b \in Attempts : Running(a) /\ Running(b) /\ Intent(a) = Intent(b) => a = b

\* The reaper "expires active rows whose deadline passed before they stored".
ExpiredNeverStored ==
    \A i \in Intents : rows[i].state = "expired" => ~rows[i].stored

\* A row is dead-lettered as pre-store when "Pre-store attempts (blob not yet on
\* Walrus+Sui)" are used up: never when Sui has recorded its blob.
UnstoredDeadLetterIsUnrecorded ==
    \A i \in Intents :
        rows[i].state = "dead" /\ rows[i].lastError = "preStore" => recorded[i] = None

-----------------------------------------------------------------------------
(* What a step may never do.                                               *)

\* Nothing brings a settled row back: late events, late bytes, retries and
\* stragglers only leave it terminal, or find that the reaper has purged it.
TerminalIsFinal ==
    [][\A i \in Intents : rows[i].state \in Terminal => rows'[i].state # "active"]_vars

\* A completed store leaves the table only with its ledger entry written, however
\* often the ledger write failed (purgeTerminal).
PurgedStoreIsLedgered ==
    [][\A i \in Intents : rows[i].stored /\ ~rows'[i].stored => i \in ledger]_vars

-----------------------------------------------------------------------------
(* What must eventually happen.                                            *)

\* A row that is ready to store, its blob uploaded and its bytes freed included,
\* is settled in the end: no lost lease, failed write, crash or retry strands it.
ReadyIsSettled ==
    \A i \in Intents :
        /\ i \in committed /\ rows[i].state = "active" /\ rows[i].received
        /\ rows[i].bytes \/ rows[i].object # None
        ~> rows[i].state # "active"
=============================================================================
