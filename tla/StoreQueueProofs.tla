--------------------------- MODULE StoreQueueProofs ---------------------------
(***************************************************************************)
(* Theorems about StoreQueue, for every set of intents, processes, tick    *)
(* slots and objects and every setting of the limits.                      *)
(***************************************************************************)
EXTENDS StoreQueue, TLAPS

-----------------------------------------------------------------------------
(* What the helpers of the model return.                                   *)

\* An attempt names a process, a tick slot and an intent.
LEMMA AttemptParts ==
    ASSUME NEW a \in Attempts
    PROVE  Proc(a) \in Procs /\ Tick(a) \in Ticks /\ Intent(a) \in Intents
  BY DEF Attempts, Proc, Tick, Intent

\* The idle task, and a task moved to another step, are tasks.
LEMMA TaskTypes ==
    /\ IdleTask \in Task
    /\ \A t \in Task, pc \in Steps : [t EXCEPT !.pc = pc] \in Task
  BY DEF IdleTask, Task, Steps, Scanning, Storing, Failed

\* The rows a statement inserts are rows.
LEMMA RowTypes == NewRow \in Row /\ NoRow \in Row /\ LegacyRow \in Row
  BY DEF NewRow, NoRow, LegacyRow, Row, Terminal

\* The one-row writes of the staged_intent table keep it well typed.
LEMMA UpdateType ==
    ASSUME TypeOK, NEW i \in Intents, NEW new \in Row
    PROVE  Update(i, new) \in [Intents -> Row]
  BY DEF TypeOK, Update

LEMMA DeadType ==
    ASSUME TypeOK, NEW i \in Intents, NEW why \in {"rejected", "preStore", "return"}
    PROVE  Dead(i, why) \in [Intents -> Row]
<1>0. rows[i] \in Row
  BY DEF TypeOK
<1>1. [rows[i] EXCEPT !.state = "dead", !.bytes = FALSE, !.lastError = why] \in Row
  BY <1>0 DEF Row, Terminal
<1> QED BY <1>1, UpdateType DEF Dead

LEMMA RescheduleType ==
    ASSUME TypeOK, NEW i \in Intents, NEW n \in Nat
    PROVE  Reschedule(i, n) \in [Intents -> Row]
<1>0. rows[i] \in Row
  BY DEF TypeOK
<1>1. [rows[i] EXCEPT !.attempts = n, !.due = FALSE, !.claimedBy = None] \in Row
  BY <1>0 DEF Row
<1> QED BY <1>1, UpdateType DEF Reschedule

LEMMA RetryOrBuryType ==
    ASSUME TypeOK, NEW a \in Attempts, NEW limit \in Nat, NEW why \in {"preStore", "return"},
           RetryOrBury(a, limit, why)
    PROVE  rows' \in [Intents -> Row]
<1>1. task[a].attempts + 1 \in Nat
  BY DEF TypeOK, Task
<1> QED BY <1>1, AttemptParts, DeadType, RescheduleType DEF RetryOrBury

LEMMA RecordCompletedStoreType ==
    ASSUME TypeOK, NEW i \in Intents, RecordCompletedStore(i)
    PROVE  rows' \in [Intents -> Row] /\ ledger' \in SUBSET Intents
<1>0. rows[i] \in Row
  BY DEF TypeOK
<1>1. [rows[i] EXCEPT !.ledgered = TRUE] \in Row
  BY <1>0 DEF Row
<1>2. CASE ledger' = ledger \union {i} /\ rows' = Update(i, [rows[i] EXCEPT !.ledgered = TRUE])
  <2>1. rows' \in [Intents -> Row]
    BY <1>1, <1>2, UpdateType
  <2> QED BY <1>2, <2>1 DEF TypeOK
<1>3. CASE ledger' = ledger \union {i} /\ UNCHANGED rows
  BY <1>3 DEF TypeOK
<1>4. CASE UNCHANGED table
  BY <1>4 DEF TypeOK, table
<1> QED BY <1>2, <1>3, <1>4 DEF RecordCompletedStore

LEMMA GotoType ==
    ASSUME TypeOK, NEW a \in Attempts, NEW pc \in Steps, Goto(a, pc)
    PROVE  task' \in [Attempts -> Task]
  BY TaskTypes DEF Goto, TypeOK

LEMMA ReleaseType ==
    ASSUME TypeOK, NEW a \in Attempts, Release(a)
    PROVE  inProcess' \in [Procs -> SUBSET Intents]
  BY AttemptParts DEF Release, TypeOK

LEMMA FinishType ==
    ASSUME TypeOK, NEW a \in Attempts, Finish(a)
    PROVE  task' \in [Attempts -> Task] /\ inProcess' \in [Procs -> SUBSET Intents]
  BY TaskTypes, ReleaseType DEF Finish, TypeOK

LEMMA ThrowType ==
    ASSUME TypeOK, NEW a \in Attempts, NEW phase \in Failed, Throw(a, phase)
    PROVE  task' \in [Attempts -> Task] /\ inProcess' \in [Procs -> SUBSET Intents]
<1>1. [task[a] EXCEPT !.pc = phase] \in Task
  BY TaskTypes DEF TypeOK, Steps
<1> QED BY <1>1, TaskTypes, ReleaseType DEF Throw, TypeOK

LEMMA ScanPastType ==
    ASSUME TypeOK, NEW a \in Attempts, NEW t \in Task, ScanPast(a, t)
    PROVE  task' \in [Attempts -> Task] /\ inProcess' \in [Procs -> SUBSET Intents]
<1> DEFINE scanned == [task EXCEPT ![a] = t]
<1>1. scanned \in [Attempts -> Task]
  BY DEF TypeOK
<1>2. "check" \in Steps
  BY DEF Steps, Storing
<1>3. \A b \in Attempts : scanned[b] \in Task /\ [scanned[b] EXCEPT !.pc = "check"] \in Task
  BY <1>1, <1>2, TaskTypes
<1>4. task' \in [Attempts -> Task]
  <2> HIDE DEF scanned
  <2> QED BY <1>3 DEF ScanPast, scanned
<1>5. inProcess' \in [Procs -> SUBSET Intents]
  BY AttemptParts DEF ScanPast, TypeOK
<1> QED BY <1>4, <1>5
-----------------------------------------------------------------------------
(* Type correctness.                                                       *)

LEMMA TypeInit == Init => TypeOK
  BY TaskTypes, RowTypes DEF Init, TypeOK

\* A step of one attempt: of the scan, of store() or of runStore.
LEMMA TypeAttempt ==
    ASSUME TypeOK, NEW a \in Attempts, AttemptNext(a)
    PROVE  TypeOK'
<1> USE AttemptParts DEF table, chains
<1> DEFINE i == Intent(a)
<1>0. /\ Storing \subseteq Steps
      /\ Scanning \subseteq Steps
      /\ rows[i] \in Row
      /\ task[a] \in Task
  BY DEF Steps, TypeOK
<1>1. CASE Consider(a)
  <2>1. CASE ScanPast(a, IdleTask)
    BY <1>1, <2>1, ScanPastType, TaskTypes DEF Consider, TypeOK
  <2>2. CASE Goto(a, "commitment") /\ UNCHANGED inProcess
    <3>1. "commitment" \in Steps
      BY DEF Steps, Scanning
    <3> QED BY <1>1, <2>2, <3>1, GotoType DEF Consider, TypeOK
  <2> QED BY <1>1, <2>1, <2>2 DEF Consider
<1>2. CASE GetCommitment(a)
  <2>1. "ready" \in Steps
    BY DEF Steps, Scanning
  <2>2. IF i \in committed THEN [task[a] EXCEPT !.pc = "ready"] \in Task ELSE IdleTask \in Task
    BY <1>0, <2>1, TaskTypes
  <2> QED BY <1>2, <2>2, ScanPastType DEF GetCommitment, TypeOK
<1>3. CASE Check(a)
  <2>1. CASE Goto(a, "upload") /\ UNCHANGED <<rows, inProcess>>
    BY <1>0, <1>3, <2>1, GotoType DEF Check, TypeOK, Storing
  <2>2. CASE /\ Goto(a, IF task[a].stored THEN "recordLedger" ELSE "executeStore")
             /\ UNCHANGED <<rows, inProcess>>
    BY <1>0, <1>3, <2>2, GotoType DEF Check, TypeOK, Storing
  <2>3. CASE rows' = Dead(i, "rejected") /\ Finish(a)
    BY <1>3, <2>3, DeadType, FinishType DEF Check, TypeOK
  <2> QED BY <1>3, <2>1, <2>2, <2>3 DEF Check
<1>4. CASE Upload(a)
  <2>1. PICK o \in Objects :
           /\ uploaded' = [uploaded EXCEPT ![o] = i]
           /\ task' = [task EXCEPT ![a].pc = "persistUpload", ![a].object = o]
    BY <1>4 DEF Upload
  <2>2. [task[a] EXCEPT !.pc = "persistUpload", !.object = o] \in Task
    BY <1>0 DEF Task, Steps, Storing
  <2>3. task' = [task EXCEPT ![a] = [task[a] EXCEPT !.pc = "persistUpload", !.object = o]]
    BY <1>0, <2>1 DEF TypeOK
  <2>4. task' \in [Attempts -> Task]
    BY <2>2, <2>3 DEF TypeOK
  <2> QED BY <1>4, <2>1, <2>4 DEF Upload, TypeOK
<1>5. CASE PersistUpload(a)
  <2>1. [rows[i] EXCEPT !.object = task[a].object] \in Row
    BY <1>0 DEF Row, Task
  <2> QED BY <1>0, <1>5, <2>1, UpdateType, GotoType DEF PersistUpload, TypeOK, Storing
<1>6. CASE ExecuteStore(a)
  <2>1. recorded' \in [Intents -> Objects \union {None}]
    BY <1>0, <1>6 DEF ExecuteStore, TypeOK, Task
  <2>2. task' \in [Attempts -> Task] /\ inProcess' \in [Procs -> SUBSET Intents]
    <3>1. CASE Goto(a, "persistStore") /\ UNCHANGED inProcess
      BY <1>0, <3>1, GotoType DEF TypeOK, Storing
    <3>2. CASE Throw(a, "failedPre")
      BY <3>2, ThrowType DEF Failed
    <3> QED BY <1>6, <3>1, <3>2 DEF ExecuteStore
  <2> QED BY <1>6, <2>1, <2>2 DEF ExecuteStore, TypeOK
<1>7. CASE PersistStore(a)
  <2>1. [rows[i] EXCEPT !.stored = TRUE] \in Row
    BY <1>0 DEF Row
  <2> QED BY <1>0, <1>7, <2>1, UpdateType, GotoType DEF PersistStore, TypeOK, Storing
<1>8. CASE RecordLedger(a)
  <2>2. rows' \in [Intents -> Row] /\ ledger' \in SUBSET Intents
    <3>1. CASE UNCHANGED table
      BY <3>1 DEF TypeOK
    <3>2. CASE RecordCompletedStore(i)
      BY <3>2, RecordCompletedStoreType
    <3> QED BY <1>8, <3>1, <3>2 DEF RecordLedger
  <2> QED BY <1>0, <1>8, <2>2, GotoType DEF RecordLedger, TypeOK, Storing
<1>9. CASE FreeBytes(a)
  <2>1. [rows[i] EXCEPT !.bytes = FALSE] \in Row
    BY <1>0 DEF Row
  <2> QED BY <1>0, <1>9, <2>1, UpdateType, GotoType DEF FreeBytes, TypeOK, Storing
<1>10. CASE SendProof(a)
  <2>1. Goto(a, "markReturned") \/ Goto(a, "confirm")
    BY <1>10 DEF SendProof
  <2>2. task' \in [Attempts -> Task]
    BY <1>0, <2>1, GotoType DEF Storing
  <2> QED BY <1>10, <2>2 DEF SendProof, TypeOK
<1>11. CASE ConfirmExecution(a)
  <2>1. task' \in [Attempts -> Task] /\ inProcess' \in [Procs -> SUBSET Intents]
    <3>1. CASE Goto(a, "markReturned") /\ UNCHANGED inProcess
      BY <1>0, <3>1, GotoType DEF TypeOK, Storing
    <3>2. CASE Throw(a, "failedPost")
      BY <3>2, ThrowType DEF Failed
    <3> QED BY <1>11, <3>1, <3>2 DEF ConfirmExecution
  <2> QED BY <1>11, <2>1 DEF ConfirmExecution, TypeOK
<1>12. CASE MarkReturned(a)
  <2>1. [rows[i] EXCEPT !.returned = TRUE] \in Row
    BY <1>0 DEF Row
  <2> QED BY <1>0, <1>12, <2>1, UpdateType, GotoType DEF MarkReturned, TypeOK, Storing
<1>13. CASE MarkDone(a)
  <2>1. [rows[i] EXCEPT !.state = "done", !.bytes = FALSE] \in Row
    BY <1>0 DEF Row, Terminal
  <2> QED BY <1>13, <2>1, UpdateType, FinishType DEF MarkDone, TypeOK
<1>14. CASE StepFails(a)
  <2>1. Throw(a, "failedPre") \/ Throw(a, "failedPost")
    BY <1>14 DEF StepFails
  <2> QED BY <1>14, <2>1, ThrowType DEF StepFails, TypeOK, Failed
<1>15. CASE HandleFailure(a)
  <2>1. rows' \in [Intents -> Row]
    BY <1>15, RetryOrBuryType, ConstantsAssumption DEF HandleFailure, TypeOK
  <2> QED BY <1>15, <2>1, TaskTypes DEF HandleFailure, TypeOK
<1>16. CASE TimesOut(a)
  <2>1. rows' \in [Intents -> Row]
    BY <1>16, RetryOrBuryType, ConstantsAssumption DEF TimesOut, TypeOK
  <2>2. task' \in [Attempts -> Task]
    BY <1>0, <1>16 DEF TimesOut, TypeOK, Task
  <2> QED BY <1>16, <2>1, <2>2 DEF TimesOut, TypeOK
<1> QED
  BY <1>1, <1>2, <1>3, <1>4, <1>5, <1>6, <1>7, <1>8, <1>9, <1>10, <1>11, <1>12, <1>13,
     <1>14, <1>15, <1>16 DEF AttemptNext, Pipeline
\* A step of a tick: the claim, a failed scan or the watchdog.
LEMMA TypeTick ==
    ASSUME TypeOK, NEW p \in Procs, NEW k \in Ticks, TickNext(p, k)
    PROVE  TypeOK'
<1> USE AttemptParts DEF table, chains
<1>1. CASE DrainDue(p, k)
  <2>1. PICK batch \in SUBSET Intents :
           /\ rows' = [i \in Intents |-> IF i \in batch THEN [rows[i] EXCEPT !.claimedBy = p]
                                                        ELSE rows[i]]
           /\ task' = [a \in Attempts |->
                         IF Proc(a) = p /\ Tick(a) = k /\ Intent(a) \in batch \ past
                         THEN Snapshot(Intent(a)) ELSE task[a]]
    BY <1>1 DEF DrainDue
  <2>2. \A i \in Intents : rows[i] \in Row
    BY DEF TypeOK
  <2>3. \A i \in Intents : [rows[i] EXCEPT !.claimedBy = p] \in Row
    BY <2>2 DEF Row
  <2>4. \A i \in Intents : Snapshot(i) \in Task
    BY <2>2 DEF Snapshot, IdleTask, Task, Row, Steps, Scanning
  <2>5. rows' \in [Intents -> Row]
    BY <2>1, <2>2, <2>3
  <2>6. task' \in [Attempts -> Task]
    BY <2>1, <2>4 DEF TypeOK
  <2> QED BY <1>1, <2>5, <2>6 DEF DrainDue, TypeOK
<1>2. CASE TickFails(p, k)
  <2>1. task' \in [Attempts -> Task]
    BY <1>2, TaskTypes DEF TickFails, TypeOK
  <2> QED BY <1>2, <2>1 DEF TickFails, TypeOK
<1>3. CASE WatchdogElapses(p, k)
  <2>1. \A a \in Attempts : task[a] \in Task
    BY DEF TypeOK
  <2>2. \A a \in Attempts : [task[a] EXCEPT !.overdue = TRUE] \in Task
    BY <2>1 DEF Task
  <2>3. task' \in [Attempts -> Task]
    BY <1>3, <2>1, <2>2 DEF WatchdogElapses
  <2> QED BY <1>3, <2>3 DEF WatchdogElapses, TypeOK
<1> QED BY <1>1, <1>2, <1>3 DEF TickNext

\* A statement on one row, or the time of one row.
LEMMA TypeRow ==
    ASSUME TypeOK, NEW i \in Intents, RowNext(i)
    PROVE  TypeOK'
<1> USE DEF table, processes, chains
<1>0. rows[i] \in Row
  BY DEF TypeOK
<1>1. CASE ObserveCommitment(i)
  BY <1>1 DEF ObserveCommitment, TypeOK
<1> DEFINE old == IF rows[i].state = "absent" THEN NewRow ELSE rows[i]
<1>o. old \in Row
  BY <1>0, RowTypes
<1> HIDE DEF old
<1>2. CASE UpsertBytes(i)
  <2>1. rows' = [rows EXCEPT ![i] = [old EXCEPT !.bytes = TRUE, !.blob = TRUE, !.deadline = TRUE]]
    BY <1>2 DEF UpsertBytes, old
  <2>2. [old EXCEPT !.bytes = TRUE, !.blob = TRUE, !.deadline = TRUE] \in Row
    BY <1>o DEF Row
  <2> QED BY <1>2, <2>1, <2>2 DEF UpsertBytes, TypeOK
<1>3. CASE MarkReceived(i)
  <2>1. rows' = [rows EXCEPT ![i] = [old EXCEPT !.received = TRUE, !.deadline = TRUE]]
    BY <1>3 DEF MarkReceived, old
  <2>2. [old EXCEPT !.received = TRUE, !.deadline = TRUE] \in Row
    BY <1>o DEF Row
  <2> QED BY <1>3, <2>1, <2>2 DEF MarkReceived, TypeOK
<1>4. CASE Backfill(i)
  <2>1. rows' \in [Intents -> Row] /\ ledger' \in SUBSET Intents
    BY <1>4, RecordCompletedStoreType DEF Backfill
  <2> QED BY <1>4, <2>1 DEF Backfill, TypeOK
<1>5. CASE ExpireUnreceived(i)
  <2>1. Expired(i) \in Row
    BY <1>0 DEF Expired, Row, Terminal
  <2> QED BY <1>5, <2>1 DEF ExpireUnreceived, TypeOK
<1>6. CASE PurgeTerminal(i)
  BY <1>6, RowTypes DEF PurgeTerminal, TypeOK
<1>7. CASE BackoffElapses(i)
  <2>1. [rows[i] EXCEPT !.due = TRUE] \in Row
    BY <1>0 DEF Row
  <2>2. rows' = [rows EXCEPT ![i] = [rows[i] EXCEPT !.due = TRUE]]
    BY <1>7 DEF BackoffElapses, TypeOK
  <2> QED BY <1>7, <2>1, <2>2 DEF BackoffElapses, TypeOK
<1>8. CASE LeaseExpires(i)
  <2>1. [rows[i] EXCEPT !.claimedBy = None] \in Row
    BY <1>0 DEF Row
  <2>2. rows' = [rows EXCEPT ![i] = [rows[i] EXCEPT !.claimedBy = None]]
    BY <1>8 DEF LeaseExpires, TypeOK
  <2> QED BY <1>8, <2>1, <2>2 DEF LeaseExpires, TypeOK
<1>9. CASE DeadlinePasses(i)
  BY <1>9 DEF DeadlinePasses, TypeOK
<1> QED
  BY <1>1, <1>2, <1>3, <1>4, <1>5, <1>6, <1>7, <1>8, <1>9 DEF RowNext

LEMMA TypeStep == TypeOK /\ [Next]_vars => TypeOK'
<1> SUFFICES ASSUME TypeOK, [Next]_vars PROVE TypeOK'
  OBVIOUS
<1>1. ASSUME NEW p \in Procs, Boot(p) PROVE TypeOK'
  BY <1>1 DEF Boot, TypeOK, table, chains
<1>2. ASSUME NEW p \in Procs, Crash(p) PROVE TypeOK'
  <2>1. task' \in [Attempts -> Task]
    BY <1>2, TaskTypes DEF Crash, TypeOK
  <2> QED BY <1>2, <2>1 DEF Crash, TypeOK, table, chains
<1>3. CASE ExpireDue
  <2>1. \A i \in Intents : rows[i] \in Row
    BY DEF TypeOK
  <2>2. ASSUME NEW i \in Intents PROVE Expired(i) \in Row
    <3>1. rows[i] \in Row
      BY <2>1
    <3> QED BY <3>1 DEF Expired, Row, Terminal
  <2>3. rows' \in [Intents -> Row]
    BY <1>3, <2>1, <2>2 DEF ExpireDue
  <2> QED BY <1>3, <2>3 DEF ExpireDue, TypeOK, processes, chains
<1>4. CASE UNCHANGED vars
  BY <1>4 DEF vars, table, processes, chains, TypeOK
<1> QED
  BY <1>1, <1>2, <1>3, <1>4, TypeAttempt, TypeTick, TypeRow DEF Next

\* In every reachable state the table, the in-memory sets and the attempts of the
\* processes, and what the chains hold, are well typed.
THEOREM TypeCorrect == Spec => []TypeOK
<1> QED BY TypeInit, TypeStep, PTL DEF Spec

-----------------------------------------------------------------------------
(* Honesty: what the relayer says of a chain is true there.                *)

\* What the chains and the ledger hold is never taken back.
Grow ==
    /\ \A i \in Intents : recorded[i] # None => recorded'[i] # None
    /\ ledger \subseteq ledger'
    /\ proofSent \subseteq proofSent'
    /\ confirmed \subseteq confirmed'

\* What a row r of intent i, and an attempt t on it, claim; in the next state.
RowClaims(r, i) ==
    /\ r.stored   => recorded'[i] # None
    /\ r.returned => i \in proofSent' \/ i \in confirmed'
    /\ r.ledgered => i \in ledger'
    /\ r.state = "done" => recorded'[i] # None /\ (i \in proofSent' \/ i \in confirmed')
    /\ r.state = "active" /\ r.blob /\ ~r.bytes => recorded'[i] # None
    /\ r.state = "absent" => ~r.stored

TaskClaims(t, i) ==
    /\ t.stored   => recorded'[i] # None
    /\ t.returned => i \in proofSent' \/ i \in confirmed'
    /\ t.pc \in {"persistStore", "recordLedger", "freeBytes", "sendProof", "confirm",
                 "markReturned", "markDone"} => recorded'[i] # None
    /\ t.pc \in {"markReturned", "markDone"} => i \in proofSent' \/ i \in confirmed'
    /\ t.pc \in {"persistUpload", "executeStore"} => t.object # None

\* No step takes back what a chain or the ledger holds: executed_intents, the sent
\* packets and the confirmations only grow.
LEMMA ChainsGrow == TypeOK /\ [Next]_vars => Grow
<1> SUFFICES ASSUME TypeOK, [Next]_vars PROVE Grow
  OBVIOUS
<1> USE DEF table, processes, chains
<1>1. ASSUME NEW a \in Attempts, AttemptNext(a) PROVE Grow
  <2> USE AttemptParts
  <2>1. CASE Consider(a) \/ GetCommitment(a) \/ Check(a) \/ Upload(a) \/ PersistUpload(a)
             \/ PersistStore(a) \/ FreeBytes(a) \/ MarkReturned(a) \/ MarkDone(a)
    BY <2>1 DEF Consider, GetCommitment, Check, Upload, PersistUpload, PersistStore, FreeBytes,
                MarkReturned, MarkDone, Grow
  <2>2. CASE StepFails(a) \/ HandleFailure(a) \/ TimesOut(a)
    BY <2>2 DEF StepFails, HandleFailure, TimesOut, Grow
  <2>3. CASE ExecuteStore(a)
    <3>1. recorded' = recorded \/ \E o \in Objects : recorded' = [recorded EXCEPT ![Intent(a)] = o]
      BY <2>3 DEF ExecuteStore, RelayerOwns, TypeOK, Task
    <3> QED BY <2>3, <3>1, ConstantsAssumption DEF ExecuteStore, Grow, TypeOK
  <2>4. CASE RecordLedger(a) \/ SendProof(a) \/ ConfirmExecution(a)
    BY <2>4 DEF RecordLedger, RecordCompletedStore, SendProof, ConfirmExecution, Grow
  <2> QED BY <1>1, <2>1, <2>2, <2>3, <2>4 DEF AttemptNext, Pipeline
<1>2. ASSUME NEW p \in Procs, NEW k \in Ticks, TickNext(p, k) PROVE Grow
  BY <1>2 DEF TickNext, DrainDue, TickFails, WatchdogElapses, Grow
<1>3. ASSUME NEW i \in Intents, RowNext(i) PROVE Grow
  BY <1>3 DEF RowNext, ObserveCommitment, UpsertBytes, MarkReceived, Backfill, RecordCompletedStore,
              ExpireUnreceived, PurgeTerminal, BackoffElapses, LeaseExpires, DeadlinePasses, Grow
<1>4. ASSUME NEW p \in Procs, Boot(p) \/ Crash(p) PROVE Grow
  BY <1>4 DEF Boot, Crash, Grow
<1>5. CASE ExpireDue
  BY <1>5 DEF ExpireDue, Grow
<1>6. CASE UNCHANGED vars
  BY <1>6 DEF vars, Grow
<1> QED BY <1>1, <1>2, <1>3, <1>4, <1>5, <1>6 DEF Next

\* What is true of Sui and the origin chain stays true: a claim made before a step
\* can be made after it.
LEMMA ClaimsKept ==
    ASSUME HonestInv, Grow
    PROVE  /\ \A i \in Intents : RowClaims(rows[i], i)
           /\ \A a \in Attempts : TaskClaims(task[a], Intent(a))
<1>1. ASSUME NEW i \in Intents PROVE RowClaims(rows[i], i)
  BY DEF HonestInv, RowsTellTheTruth, DoneMeansAnswered, BytesKeptUntilRecorded, LedgerIsEvidence,
         Answered, Grow, RowClaims
<1>2. ASSUME NEW a \in Attempts PROVE TaskClaims(task[a], Intent(a))
  BY AttemptParts DEF HonestInv, AttemptsTellTheTruth, Answered, Grow, TaskClaims
<1> QED BY <1>1, <1>2

\* The invariant holds after a step when its claims do.
LEMMA HonestBuild ==
    ASSUME TypeOK',
           \A i \in Intents : RowClaims(rows'[i], i),
           \A a \in Attempts : TaskClaims(task'[a], Intent(a)),
           \A i \in Intents : i \in ledger' \/ i \in proofSent' \/ i \in confirmed'
                              => recorded'[i] # None
    PROVE  HonestInv'
  BY DEF HonestInv, RowsTellTheTruth, AttemptsTellTheTruth, AnsweredMeansRecorded,
         DoneMeansAnswered, BytesKeptUntilRecorded, LedgerIsEvidence, Answered, RowClaims,
         TaskClaims, TypeOK

\* One-row writes, and moves of one attempt, keep every claim when the new row's,
\* or the moved attempt's, own claims hold.
LEMMA UpdateClaims ==
    ASSUME HonestInv, Grow, NEW i \in Intents, NEW new \in Row,
           rows[i].state # "absent" => RowClaims(new, i),
           rows' = Update(i, new)
    PROVE  \A j \in Intents : RowClaims(rows'[j], j)
<1>0. rows' = [rows EXCEPT ![i] = IF rows[i].state = "absent" THEN rows[i] ELSE new]
  BY DEF Update, HonestInv, TypeOK
<1>1. CASE rows[i].state = "absent"
  <2>1. \A j \in Intents : rows'[j] = rows[j]
    BY <1>0, <1>1 DEF HonestInv, TypeOK
  <2> QED BY <2>1, ClaimsKept
<1>2. CASE rows[i].state # "absent"
  <2>1. \A j \in Intents : rows'[j] = rows[j] \/ (j = i /\ rows'[j] = new)
    BY <1>0, <1>2 DEF HonestInv, TypeOK
  <2> QED BY <1>2, <2>1, ClaimsKept
<1> QED BY <1>1, <1>2

LEMMA MoveClaims ==
    ASSUME HonestInv, Grow, NEW a \in Attempts, NEW t \in Task, TaskClaims(t, Intent(a)),
           task' = [task EXCEPT ![a] = t]
    PROVE  \A b \in Attempts : TaskClaims(task'[b], Intent(b))
<1>1. \A b \in Attempts : task'[b] = task[b] \/ (b = a /\ task'[b] = t)
  BY DEF HonestInv, TypeOK
<1> QED BY <1>1, ClaimsKept

\* An idle task claims nothing.
LEMMA IdleClaims == \A i \in Intents : TaskClaims(IdleTask, i)
  BY DEF IdleTask, TaskClaims

LEMMA GotoClaims ==
    ASSUME HonestInv, Grow, NEW a \in Attempts, NEW pc \in Steps, Goto(a, pc),
           pc \in {"persistStore", "recordLedger", "freeBytes", "sendProof", "confirm",
                   "markReturned", "markDone"} => recorded'[Intent(a)] # None,
           pc \in {"markReturned", "markDone"} => Intent(a) \in proofSent' \/ Intent(a) \in confirmed',
           pc \in {"persistUpload", "executeStore"} => task[a].object # None
    PROVE  \A b \in Attempts : TaskClaims(task'[b], Intent(b))
<1> DEFINE t == [task[a] EXCEPT !.pc = pc]
<1>0. task[a] \in Task
  BY DEF HonestInv, TypeOK
<1>1. t \in Task
  BY <1>0, TaskTypes
<1>2. task' = [task EXCEPT ![a] = t]
  BY DEF Goto, HonestInv, TypeOK
<1>3. /\ t.stored = task[a].stored
      /\ t.returned = task[a].returned
      /\ t.object = task[a].object
      /\ t.pc = pc
  BY <1>0 DEF Task
<1>4. TaskClaims(t, Intent(a))
  <2> HIDE DEF t
  <2>1. TaskClaims(task[a], Intent(a))
    BY ClaimsKept
  <2> QED BY <1>3, <2>1 DEF TaskClaims
<1> QED BY <1>1, <1>2, <1>4, MoveClaims

LEMMA FinishClaims ==
    ASSUME HonestInv, Grow, NEW a \in Attempts, task' = [task EXCEPT ![a] = IdleTask]
    PROVE  \A b \in Attempts : TaskClaims(task'[b], Intent(b))
  BY MoveClaims, IdleClaims, TaskTypes, AttemptParts

LEMMA ThrowClaims ==
    ASSUME HonestInv, Grow, NEW a \in Attempts, NEW phase \in Failed, Throw(a, phase)
    PROVE  \A b \in Attempts : TaskClaims(task'[b], Intent(b))
<1>1. CASE task[a].timedOut
  BY <1>1, FinishClaims DEF Throw, HonestInv, TypeOK
<1>2. CASE ~task[a].timedOut
  <2>1. Goto(a, phase)
    BY <1>2 DEF Throw, Goto, HonestInv, TypeOK
  <2> QED BY <2>1, GotoClaims DEF Failed, Steps
<1> QED BY <1>1, <1>2

LEMMA ScanPastClaims ==
    ASSUME HonestInv, Grow, NEW a \in Attempts, NEW t \in Task, TaskClaims(t, Intent(a)),
           ScanPast(a, t)
    PROVE  \A b \in Attempts : TaskClaims(task'[b], Intent(b))
<1> DEFINE scanned == [task EXCEPT ![a] = t]
<1>1. ASSUME NEW b \in Attempts PROVE TaskClaims(scanned[b], Intent(b)) /\ scanned[b] \in Task
  BY ClaimsKept DEF HonestInv, TypeOK
<1>2. ASSUME NEW b \in Attempts PROVE TaskClaims([scanned[b] EXCEPT !.pc = "check"], Intent(b))
  <2> HIDE DEF scanned
  <2> QED BY <1>1 DEF TaskClaims, Task
<1>3. \A b \in Attempts : task'[b] \in {scanned[b], [scanned[b] EXCEPT !.pc = "check"]}
  BY DEF ScanPast
<1> QED
  <2> HIDE DEF scanned
  <2> QED BY <1>1, <1>2, <1>3

\* The retry and dead-letter writes claim nothing new.
LEMMA RetryOrBuryClaims ==
    ASSUME HonestInv, Grow, NEW a \in Attempts, NEW limit \in Nat, NEW why \in {"preStore", "return"},
           RetryOrBury(a, limit, why)
    PROVE  \A j \in Intents : RowClaims(rows'[j], j)
<1> DEFINE i == Intent(a)
<1>0. i \in Intents /\ rows[i] \in Row /\ RowClaims(rows[i], i) /\ task[a].attempts + 1 \in Nat
  BY AttemptParts, ClaimsKept DEF HonestInv, TypeOK, Task
<1> HIDE DEF i
<1>1. CASE rows' = Dead(i, why)
  <2>1. [rows[i] EXCEPT !.state = "dead", !.bytes = FALSE, !.lastError = why] \in Row
    BY <1>0 DEF Row, Terminal
  <2>2. RowClaims([rows[i] EXCEPT !.state = "dead", !.bytes = FALSE, !.lastError = why], i)
    BY <1>0 DEF Row, RowClaims
  <2> QED BY <1>0, <1>1, <2>1, <2>2, UpdateClaims DEF Dead
<1>2. CASE rows' = Reschedule(i, task[a].attempts + 1)
  <2> DEFINE n == task[a].attempts + 1
  <2>0. n \in Nat
    BY <1>0
  <2> HIDE DEF n
  <2>1. [rows[i] EXCEPT !.attempts = n, !.due = FALSE, !.claimedBy = None] \in Row
    BY <1>0, <2>0 DEF Row
  <2>2. RowClaims([rows[i] EXCEPT !.attempts = n, !.due = FALSE, !.claimedBy = None], i)
    BY <1>0 DEF Row, RowClaims
  <2> QED BY <1>0, <1>2, <2>1, <2>2, UpdateClaims DEF Reschedule, n
<1> QED BY <1>1, <1>2 DEF RetryOrBury, i

\* recordCompletedStore() flags the row only after the insert.
LEMMA RecordCompletedStoreClaims ==
    ASSUME HonestInv, Grow, NEW i \in Intents, recorded'[i] # None, RecordCompletedStore(i)
    PROVE  /\ \A j \in Intents : RowClaims(rows'[j], j)
           /\ \A j \in ledger' : j \in ledger \/ j = i
<1>0. rows[i] \in Row /\ RowClaims(rows[i], i)
  BY ClaimsKept DEF HonestInv, TypeOK
<1>1. CASE ledger' = ledger \union {i} /\ rows' = Update(i, [rows[i] EXCEPT !.ledgered = TRUE])
  <2>1. [rows[i] EXCEPT !.ledgered = TRUE] \in Row
    BY <1>0 DEF Row
  <2>2. RowClaims([rows[i] EXCEPT !.ledgered = TRUE], i)
    BY <1>0, <1>1 DEF Row, RowClaims
  <2> QED BY <1>1, <2>1, <2>2, UpdateClaims
<1>2. CASE ledger' \in {ledger, ledger \union {i}} /\ UNCHANGED rows
  BY <1>2, ClaimsKept
<1> QED BY <1>1, <1>2 DEF RecordCompletedStore, table

\* A step of one attempt keeps the invariant.
LEMMA HonestAttempt ==
    ASSUME HonestInv, Grow, TypeOK', NEW a \in Attempts, AttemptNext(a)
    PROVE  HonestInv'
<1> USE DEF table, chains
<1> DEFINE i == Intent(a)
<1> DEFINE RowsOK == \A j \in Intents : RowClaims(rows'[j], j)
           TasksOK == \A b \in Attempts : TaskClaims(task'[b], Intent(b))
           ChainsOK == \A j \in Intents : j \in ledger' \/ j \in proofSent' \/ j \in confirmed'
                                          => recorded'[j] # None
<1>0. /\ Storing \subseteq Steps
      /\ Scanning \subseteq Steps
      /\ i \in Intents
      /\ rows[i] \in Row
      /\ task[a] \in Task
      /\ RowClaims(rows[i], i)
      /\ TaskClaims(task[a], i)
  BY AttemptParts, ClaimsKept DEF Steps, HonestInv, TypeOK
<1>r. UNCHANGED rows => RowsOK
  BY ClaimsKept
<1>c. UNCHANGED <<ledger, proofSent, confirmed>> => ChainsOK
  BY DEF HonestInv, AnsweredMeansRecorded, LedgerIsEvidence, Answered, Grow, TypeOK
<1>p. \A j \in Intents : j \in ledger \/ j \in proofSent \/ j \in confirmed => recorded'[j] # None
  BY DEF HonestInv, AnsweredMeansRecorded, LedgerIsEvidence, Answered, Grow, TypeOK
<1>q. RowsOK /\ TasksOK /\ ChainsOK => HonestInv'
  BY HonestBuild
<1> HIDE DEF i, RowsOK, TasksOK, ChainsOK
<1>1. CASE Consider(a)
  <2>1. TasksOK
    <3>1. CASE ScanPast(a, IdleTask)
      BY <1>0, <3>1, ScanPastClaims, IdleClaims, TaskTypes DEF TasksOK, i
    <3>2. CASE Goto(a, "commitment")
      BY <1>0, <3>2, GotoClaims DEF Scanning, TasksOK
    <3> QED BY <1>1, <3>1, <3>2 DEF Consider
  <2> QED BY <1>1, <1>r, <1>c, <1>q, <2>1 DEF Consider
<1>2. CASE GetCommitment(a)
  <2> DEFINE t == IF i \in committed THEN [task[a] EXCEPT !.pc = "ready"] ELSE IdleTask
  <2>1. t \in Task
    BY <1>0, TaskTypes DEF Steps, Scanning
  <2>2. TaskClaims(t, i)
    BY <1>0, IdleClaims DEF TaskClaims, Task
  <2>3. ScanPast(a, t)
    BY <1>2 DEF GetCommitment, i
  <2>4. TasksOK
    <3> HIDE DEF t
    <3> QED BY <2>1, <2>2, <2>3, ScanPastClaims DEF TasksOK, i
  <2> QED BY <1>2, <1>r, <1>c, <1>q, <2>4 DEF GetCommitment
<1>3. CASE Check(a)
  <2>1. CASE Goto(a, "upload") /\ UNCHANGED <<rows, inProcess>>
    <3>1. TasksOK
      BY <1>0, <2>1, GotoClaims DEF Storing, TasksOK
    <3> QED BY <1>3, <1>r, <1>c, <1>q, <2>1, <3>1 DEF Check
  <2>2. CASE /\ task[a].object # None
             /\ Goto(a, IF task[a].stored THEN "recordLedger" ELSE "executeStore")
             /\ UNCHANGED <<rows, inProcess>>
    <3>1. task[a].stored => recorded'[i] # None
      BY <1>0 DEF TaskClaims
    <3>2. TasksOK
      BY <1>0, <2>2, <3>1, GotoClaims DEF Storing, TasksOK, i
    <3> QED BY <1>3, <1>r, <1>c, <1>q, <2>2, <3>2 DEF Check
  <2>3. CASE rows' = Dead(i, "rejected") /\ Finish(a)
    <3>1. [rows[i] EXCEPT !.state = "dead", !.bytes = FALSE, !.lastError = "rejected"] \in Row
      BY <1>0 DEF Row, Terminal
    <3>2. RowClaims([rows[i] EXCEPT !.state = "dead", !.bytes = FALSE, !.lastError = "rejected"], i)
      BY <1>0 DEF Row, RowClaims
    <3>3. RowsOK
      BY <1>0, <2>3, <3>1, <3>2, UpdateClaims DEF Dead, RowsOK
    <3>4. TasksOK
      BY <2>3, FinishClaims DEF Finish, TasksOK
    <3> QED BY <1>3, <1>c, <1>q, <3>3, <3>4 DEF Check
  <2> QED BY <1>3, <2>1, <2>2, <2>3 DEF Check, i
<1>4. CASE Upload(a)
  <2>1. PICK o \in Objects : task' = [task EXCEPT ![a].pc = "persistUpload", ![a].object = o]
    BY <1>4 DEF Upload
  <2> DEFINE t == [task[a] EXCEPT !.pc = "persistUpload", !.object = o]
  <2>2. t \in Task
    BY <1>0 DEF Task, Steps, Storing
  <2>3. task' = [task EXCEPT ![a] = t]
    BY <1>0, <2>1 DEF HonestInv, TypeOK
  <2>4. TaskClaims(t, i)
    BY <1>0, ConstantsAssumption DEF TaskClaims, Task
  <2>5. TasksOK
    <3> HIDE DEF t
    <3> QED BY <2>2, <2>3, <2>4, MoveClaims DEF TasksOK, i
  <2> QED BY <1>4, <1>r, <1>c, <1>q, <2>5 DEF Upload
<1>5. CASE PersistUpload(a)
  <2>1. [rows[i] EXCEPT !.object = task[a].object] \in Row
    BY <1>0 DEF Row, Task
  <2>2. RowClaims([rows[i] EXCEPT !.object = task[a].object], i)
    BY <1>0 DEF Row, RowClaims
  <2>3. RowsOK
    BY <1>0, <1>5, <2>1, <2>2, UpdateClaims DEF PersistUpload, RowsOK, i
  <2>4. task[a].object # None /\ (task[a].stored => recorded'[i] # None)
    BY <1>0, <1>5 DEF PersistUpload, TaskClaims
  <2>5. TasksOK
    BY <1>0, <1>5, <2>4, GotoClaims DEF PersistUpload, Storing, TasksOK, i
  <2> QED BY <1>5, <1>c, <1>q, <2>3, <2>5 DEF PersistUpload
<1>6. CASE ExecuteStore(a)
  <2>1. recorded'[i] # None
    <3>1. CASE recorded[i] # None
      BY <1>0, <3>1 DEF Grow
    <3>2. CASE recorded' = [recorded EXCEPT ![i] = task[a].object] /\ RelayerOwns(task[a].object)
      <4>1. task[a].object # None
        BY <1>0, <1>6 DEF ExecuteStore, TaskClaims
      <4> QED BY <1>0, <3>2, <4>1 DEF HonestInv, TypeOK
    <3> QED BY <1>6, <3>1, <3>2 DEF ExecuteStore, i
  <2>2. TasksOK
    <3>1. CASE Goto(a, "persistStore")
      BY <1>0, <2>1, <3>1, GotoClaims DEF Storing, TasksOK, i
    <3>2. CASE Throw(a, "failedPre")
      BY <3>2, ThrowClaims DEF Failed, TasksOK
    <3> QED BY <1>6, <3>1, <3>2 DEF ExecuteStore
  <2> QED BY <1>6, <1>r, <1>c, <1>q, <2>2 DEF ExecuteStore
<1>7. CASE PersistStore(a)
  <2>0. recorded'[i] # None
    BY <1>0, <1>7 DEF PersistStore, TaskClaims
  <2>1. [rows[i] EXCEPT !.stored = TRUE] \in Row
    BY <1>0 DEF Row
  <2>2. rows[i].state # "absent" => RowClaims([rows[i] EXCEPT !.stored = TRUE], i)
    BY <1>0, <2>0 DEF Row, RowClaims
  <2>3. RowsOK
    BY <1>0, <1>7, <2>1, <2>2, UpdateClaims DEF PersistStore, RowsOK, i
  <2>4. TasksOK
    BY <1>0, <1>7, <2>0, GotoClaims DEF PersistStore, Storing, TasksOK, i
  <2> QED BY <1>7, <1>c, <1>q, <2>3, <2>4 DEF PersistStore
<1>8. CASE RecordLedger(a)
  <2>0. recorded'[i] # None
    BY <1>0, <1>8 DEF RecordLedger, TaskClaims
  <2>1. RowsOK /\ \A j \in ledger' : j \in ledger \/ j = i
    <3>1. CASE UNCHANGED table
      BY <1>r, <3>1
    <3>2. CASE RecordCompletedStore(i)
      BY <1>0, <2>0, <3>2, RecordCompletedStoreClaims DEF RowsOK
    <3> QED BY <1>8, <3>1, <3>2 DEF RecordLedger, i
  <2>2. ChainsOK
    BY <1>8, <1>p, <2>0, <2>1 DEF RecordLedger, ChainsOK
  <2>3. TasksOK
    BY <1>0, <1>8, <2>0, GotoClaims DEF RecordLedger, Storing, TasksOK, i
  <2> QED BY <1>q, <2>1, <2>2, <2>3
<1>9. CASE FreeBytes(a)
  <2>0. /\ recorded'[i] # None
        /\ task[a].returned => i \in proofSent' \/ i \in confirmed'
    BY <1>0, <1>9 DEF FreeBytes, TaskClaims
  <2>1. [rows[i] EXCEPT !.bytes = FALSE] \in Row
    BY <1>0 DEF Row
  <2>2. RowClaims([rows[i] EXCEPT !.bytes = FALSE], i)
    BY <1>0, <2>0 DEF Row, RowClaims
  <2>3. RowsOK
    BY <1>0, <1>9, <2>1, <2>2, UpdateClaims DEF FreeBytes, RowsOK, i
  <2>4. TasksOK
    BY <1>0, <1>9, <2>0, GotoClaims DEF FreeBytes, Storing, TasksOK, i
  <2> QED BY <1>9, <1>c, <1>q, <2>3, <2>4 DEF FreeBytes
<1>10. CASE SendProof(a)
  <2>0. recorded'[i] # None
    BY <1>0, <1>10 DEF SendProof, TaskClaims
  <2>1. ChainsOK
    BY <1>10, <1>p, <2>0 DEF SendProof, ChainsOK, i
  <2>2. CASE i \in proofSent' /\ Goto(a, "markReturned")
    <3>1. TasksOK
      BY <1>0, <2>0, <2>2, GotoClaims DEF Storing, TasksOK, i
    <3> QED BY <1>10, <1>r, <1>q, <2>1, <3>1 DEF SendProof
  <2>3. CASE Goto(a, "confirm")
    <3>1. TasksOK
      BY <1>0, <2>0, <2>3, GotoClaims DEF Storing, TasksOK, i
    <3> QED BY <1>10, <1>r, <1>q, <2>1, <3>1 DEF SendProof
  <2> QED BY <1>10, <2>2, <2>3 DEF SendProof, i
<1>11. CASE ConfirmExecution(a)
  <2>0. recorded'[i] # None /\ i \in confirmed'
    BY <1>0, <1>11 DEF ConfirmExecution, TaskClaims, i
  <2>1. ChainsOK
    BY <1>11, <1>p, <2>0 DEF ConfirmExecution, ChainsOK, i
  <2>2. TasksOK
    <3>1. CASE Goto(a, "markReturned")
      BY <1>0, <2>0, <3>1, GotoClaims DEF Storing, TasksOK, i
    <3>2. CASE Throw(a, "failedPost")
      BY <3>2, ThrowClaims DEF Failed, TasksOK
    <3> QED BY <1>11, <3>1, <3>2 DEF ConfirmExecution
  <2> QED BY <1>11, <1>r, <1>q, <2>1, <2>2 DEF ConfirmExecution
<1>12. CASE MarkReturned(a)
  <2>0. recorded'[i] # None /\ (i \in proofSent' \/ i \in confirmed')
    BY <1>0, <1>12 DEF MarkReturned, TaskClaims
  <2>1. [rows[i] EXCEPT !.returned = TRUE] \in Row
    BY <1>0 DEF Row
  <2>2. RowClaims([rows[i] EXCEPT !.returned = TRUE], i)
    BY <1>0, <2>0 DEF Row, RowClaims
  <2>3. RowsOK
    BY <1>0, <1>12, <2>1, <2>2, UpdateClaims DEF MarkReturned, RowsOK, i
  <2>4. TasksOK
    BY <1>0, <1>12, <2>0, GotoClaims DEF MarkReturned, Storing, TasksOK, i
  <2> QED BY <1>12, <1>c, <1>q, <2>3, <2>4 DEF MarkReturned
<1>13. CASE MarkDone(a)
  <2>0. recorded'[i] # None /\ (i \in proofSent' \/ i \in confirmed')
    BY <1>0, <1>13 DEF MarkDone, TaskClaims
  <2>1. [rows[i] EXCEPT !.state = "done", !.bytes = FALSE] \in Row
    BY <1>0 DEF Row, Terminal
  <2>2. RowClaims([rows[i] EXCEPT !.state = "done", !.bytes = FALSE], i)
    BY <1>0, <2>0 DEF Row, RowClaims
  <2>3. RowsOK
    BY <1>0, <1>13, <2>1, <2>2, UpdateClaims DEF MarkDone, RowsOK, i
  <2>4. TasksOK
    BY <1>13, FinishClaims DEF MarkDone, Finish, TasksOK
  <2> QED BY <1>13, <1>c, <1>q, <2>3, <2>4 DEF MarkDone
<1>14. CASE StepFails(a)
  <2>1. Throw(a, "failedPre") \/ Throw(a, "failedPost")
    BY <1>14 DEF StepFails
  <2>2. TasksOK
    BY <2>1, ThrowClaims DEF Failed, TasksOK
  <2> QED BY <1>14, <1>r, <1>c, <1>q, <2>2 DEF StepFails
<1>15. CASE HandleFailure(a)
  <2>1. RowsOK
    BY <1>15, <1>r, RetryOrBuryClaims, ConstantsAssumption DEF HandleFailure, RowsOK
  <2>2. TasksOK
    BY <1>15, FinishClaims DEF HandleFailure, TasksOK
  <2> QED BY <1>15, <1>c, <1>q, <2>1, <2>2 DEF HandleFailure
<1>16. CASE TimesOut(a)
  <2>1. RowsOK
    BY <1>16, <1>r, RetryOrBuryClaims, ConstantsAssumption DEF TimesOut, RowsOK
  <2> DEFINE t == [task[a] EXCEPT !.timedOut = TRUE]
  <2>2. task' = [task EXCEPT ![a] = t] /\ t \in Task
    BY <1>0, <1>16 DEF TimesOut, HonestInv, TypeOK, Task
  <2>3. TaskClaims(t, i)
    BY <1>0 DEF TaskClaims, Task
  <2>4. TasksOK
    <3> HIDE DEF t
    <3> QED BY <2>2, <2>3, MoveClaims DEF TasksOK, i
  <2> QED BY <1>16, <1>c, <1>q, <2>1, <2>4 DEF TimesOut
<1> QED
  BY <1>1, <1>2, <1>3, <1>4, <1>5, <1>6, <1>7, <1>8, <1>9, <1>10, <1>11, <1>12, <1>13,
     <1>14, <1>15, <1>16 DEF AttemptNext, Pipeline

\* A step of a tick keeps the invariant: what it copies from the rows is true.
LEMMA HonestTick ==
    ASSUME HonestInv, Grow, TypeOK', NEW p \in Procs, NEW k \in Ticks, TickNext(p, k)
    PROVE  HonestInv'
<1> USE DEF chains
<1>0. /\ \A i \in Intents : rows[i] \in Row
      /\ \A a \in Attempts : task[a] \in Task
  BY DEF HonestInv, TypeOK
<1>c. \A j \in Intents : j \in ledger \/ j \in proofSent \/ j \in confirmed => recorded'[j] # None
  BY DEF HonestInv, AnsweredMeansRecorded, LedgerIsEvidence, Answered, Grow, TypeOK
<1>1. CASE DrainDue(p, k)
  <2>1. PICK batch \in SUBSET Intents :
           /\ rows' = [i \in Intents |-> IF i \in batch THEN [rows[i] EXCEPT !.claimedBy = p]
                                                        ELSE rows[i]]
           /\ task' = [a \in Attempts |->
                         IF Proc(a) = p /\ Tick(a) = k /\ Intent(a) \in batch \ past
                         THEN Snapshot(Intent(a)) ELSE task[a]]
    BY <1>1 DEF DrainDue
  <2>2. ASSUME NEW i \in Intents PROVE RowClaims(rows'[i], i)
    <3>1. RowClaims(rows[i], i)
      BY ClaimsKept
    <3>2. RowClaims([rows[i] EXCEPT !.claimedBy = p], i)
      BY <1>0, <3>1 DEF RowClaims, Row
    <3> QED BY <2>1, <3>1, <3>2
  <2>3. ASSUME NEW a \in Attempts PROVE TaskClaims(task'[a], Intent(a))
    <3>1. TaskClaims(task[a], Intent(a)) /\ RowClaims(rows[Intent(a)], Intent(a))
      BY ClaimsKept, AttemptParts
    <3>2. TaskClaims(Snapshot(Intent(a)), Intent(a))
      BY <3>1 DEF TaskClaims, RowClaims, Snapshot, IdleTask
    <3> QED BY <2>1, <3>1, <3>2
  <2> QED BY <1>1, <1>c, <2>2, <2>3, HonestBuild DEF DrainDue
<1>2. CASE TickFails(p, k)
  <2>1. \A a \in Attempts : task'[a] = task[a] \/ task'[a] = IdleTask
    BY <1>2 DEF TickFails
  <2>2. \A a \in Attempts : TaskClaims(task'[a], Intent(a))
    BY <2>1, ClaimsKept, IdleClaims, AttemptParts
  <2> QED BY <1>2, <1>c, <2>2, ClaimsKept, HonestBuild DEF TickFails, table
<1>3. CASE WatchdogElapses(p, k)
  <2>1. \A a \in Attempts : task'[a] \in {task[a], [task[a] EXCEPT !.overdue = TRUE]}
    BY <1>3 DEF WatchdogElapses
  <2>2. ASSUME NEW a \in Attempts PROVE TaskClaims(task'[a], Intent(a))
    <3>1. TaskClaims(task[a], Intent(a))
      BY ClaimsKept
    <3>2. TaskClaims([task[a] EXCEPT !.overdue = TRUE], Intent(a))
      BY <1>0, <3>1 DEF TaskClaims, Task
    <3> QED BY <2>1, <3>1, <3>2
  <2> QED BY <1>3, <1>c, <2>2, ClaimsKept, HonestBuild DEF WatchdogElapses, table
<1> QED BY <1>1, <1>2, <1>3 DEF TickNext

\* A statement on one row, or its time, keeps the invariant.
LEMMA HonestRow ==
    ASSUME HonestInv, Grow, TypeOK', NEW i \in Intents, RowNext(i)
    PROVE  HonestInv'
<1> USE DEF table, processes, chains
<1>0. rows[i] \in Row /\ RowClaims(rows[i], i)
  BY ClaimsKept DEF HonestInv, TypeOK
<1>c. \A j \in Intents : j \in ledger \/ j \in proofSent \/ j \in confirmed => recorded'[j] # None
  BY DEF HonestInv, AnsweredMeansRecorded, LedgerIsEvidence, Answered, Grow, TypeOK
<1>w. ASSUME NEW new \in Row, RowClaims(new, i), rows' = [rows EXCEPT ![i] = new],
             UNCHANGED <<ledger, proofSent, confirmed, task>>
      PROVE  HonestInv'
  <2>1. \A j \in Intents : rows'[j] = rows[j] \/ (j = i /\ rows'[j] = new)
    BY <1>w DEF HonestInv, TypeOK
  <2>2. \A j \in Intents : RowClaims(rows'[j], j)
    BY <1>w, <2>1, ClaimsKept
  <2> QED BY <1>w, <1>c, <2>2, ClaimsKept, HonestBuild
<1>1. CASE ObserveCommitment(i) \/ DeadlinePasses(i)
  BY <1>1, <1>c, ClaimsKept, HonestBuild DEF ObserveCommitment, DeadlinePasses
<1> DEFINE old == IF rows[i].state = "absent" THEN NewRow ELSE rows[i]
<1>o. old \in Row /\ RowClaims(old, i)
  BY <1>0, RowTypes DEF NewRow, RowClaims
<1> HIDE DEF old
<1>2. CASE UpsertBytes(i)
  <2> DEFINE new == [old EXCEPT !.bytes = TRUE, !.blob = TRUE, !.deadline = TRUE]
  <2>1. rows' = [rows EXCEPT ![i] = new]
    BY <1>2 DEF UpsertBytes, old
  <2>2. new \in Row
    BY <1>o DEF Row
  <2>3. RowClaims(new, i)
    BY <1>o DEF Row, RowClaims
  <2> QED BY <1>2, <1>w, <2>1, <2>2, <2>3 DEF UpsertBytes
<1>3. CASE MarkReceived(i)
  <2> DEFINE new == [old EXCEPT !.received = TRUE, !.deadline = TRUE]
  <2>1. rows' = [rows EXCEPT ![i] = new]
    BY <1>3 DEF MarkReceived, old
  <2>2. new \in Row
    BY <1>o DEF Row
  <2>3. RowClaims(new, i)
    BY <1>o DEF Row, RowClaims
  <2> QED BY <1>3, <1>w, <2>1, <2>2, <2>3 DEF MarkReceived
<1>4. CASE Backfill(i)
  <2>1. recorded'[i] # None
    BY <1>0, <1>4 DEF Backfill, RowClaims
  <2>2. /\ \A j \in Intents : RowClaims(rows'[j], j)
        /\ \A j \in ledger' : j \in ledger \/ j = i
    BY <1>4, <2>1, RecordCompletedStoreClaims DEF Backfill
  <2>3. \A j \in Intents : j \in ledger' \/ j \in proofSent' \/ j \in confirmed'
                           => recorded'[j] # None
    BY <1>4, <1>c, <2>1, <2>2 DEF Backfill
  <2>4. \A a \in Attempts : TaskClaims(task'[a], Intent(a))
    BY <1>4, ClaimsKept DEF Backfill
  <2> QED BY <2>2, <2>3, <2>4, HonestBuild
<1>5. CASE ExpireUnreceived(i)
  <2>1. Expired(i) \in Row
    BY <1>0 DEF Expired, Row, Terminal
  <2>2. RowClaims(Expired(i), i)
    BY <1>0 DEF Expired, Row, RowClaims
  <2> QED BY <1>5, <1>w, <2>1, <2>2 DEF ExpireUnreceived
<1>6. CASE PurgeTerminal(i)
  <2>1. RowClaims(NoRow, i)
    BY DEF NoRow, NewRow, RowClaims
  <2> QED BY <1>6, <1>w, <2>1, RowTypes DEF PurgeTerminal
<1>7. CASE BackoffElapses(i)
  <2> DEFINE new == [rows[i] EXCEPT !.due = TRUE]
  <2>0. new \in Row
    BY <1>0 DEF Row
  <2>1. RowClaims(new, i)
    BY <1>0 DEF Row, RowClaims
  <2>2. rows' = [rows EXCEPT ![i] = new]
    BY <1>7 DEF BackoffElapses, HonestInv, TypeOK
  <2> QED BY <1>7, <1>w, <2>0, <2>1, <2>2 DEF BackoffElapses
<1>8. CASE LeaseExpires(i)
  <2> DEFINE new == [rows[i] EXCEPT !.claimedBy = None]
  <2>0. new \in Row
    BY <1>0 DEF Row
  <2>1. RowClaims(new, i)
    BY <1>0 DEF Row, RowClaims
  <2>2. rows' = [rows EXCEPT ![i] = new]
    BY <1>8 DEF LeaseExpires, HonestInv, TypeOK
  <2> QED BY <1>8, <1>w, <2>0, <2>1, <2>2 DEF LeaseExpires
<1> QED
  BY <1>1, <1>2, <1>3, <1>4, <1>5, <1>6, <1>7, <1>8 DEF RowNext

LEMMA HonestInit == Init => HonestInv
<1> SUFFICES ASSUME Init PROVE HonestInv
  OBVIOUS
<1>1. TypeOK
  BY TypeInit
<1>2. \A i \in Intents : rows[i] = NoRow \/ rows[i] = LegacyRow
  BY DEF Init
<1>3. \A i \in Intents : /\ ~rows[i].stored /\ ~rows[i].returned /\ ~rows[i].ledgered
                         /\ rows[i].state # "done"
                         /\ rows[i].state = "active" => rows[i].bytes
  <2>1. /\ ~NoRow.stored /\ ~NoRow.returned /\ ~NoRow.ledgered
        /\ NoRow.state = "absent"
    BY DEF NoRow, NewRow
  <2>2. /\ ~LegacyRow.stored /\ ~LegacyRow.returned /\ ~LegacyRow.ledgered
        /\ LegacyRow.state = "active" /\ LegacyRow.bytes
    BY DEF LegacyRow, NewRow
  <2> QED BY <1>2, <2>1, <2>2
<1>4. \A a \in Attempts : task[a] = IdleTask
  BY DEF Init
<1> QED
  BY <1>1, <1>3, <1>4 DEF Init, HonestInv, RowsTellTheTruth, AttemptsTellTheTruth, IdleTask,
     AnsweredMeansRecorded, DoneMeansAnswered, BytesKeptUntilRecorded, LedgerIsEvidence, Answered

LEMMA HonestStep == HonestInv /\ [Next]_vars => HonestInv'
<1> SUFFICES ASSUME HonestInv, [Next]_vars PROVE HonestInv'
  OBVIOUS
<1> USE DEF table, processes, chains
<1>1. TypeOK' /\ Grow
  BY TypeStep, ChainsGrow DEF HonestInv
<1>c. \A j \in Intents : j \in ledger \/ j \in proofSent \/ j \in confirmed => recorded'[j] # None
  BY <1>1 DEF HonestInv, AnsweredMeansRecorded, LedgerIsEvidence, Answered, Grow, TypeOK
<1>2. ASSUME NEW p \in Procs, Boot(p) PROVE HonestInv'
  BY <1>1, <1>2, <1>c, ClaimsKept, HonestBuild DEF Boot
<1>3. ASSUME NEW p \in Procs, Crash(p) PROVE HonestInv'
  <2>1. \A a \in Attempts : task'[a] = task[a] \/ task'[a] = IdleTask
    BY <1>3 DEF Crash
  <2>2. \A a \in Attempts : TaskClaims(task'[a], Intent(a))
    BY <1>1, <2>1, ClaimsKept, IdleClaims, AttemptParts
  <2> QED BY <1>1, <1>3, <1>c, <2>2, ClaimsKept, HonestBuild DEF Crash
<1>4. CASE ExpireDue
  <2>1. \A i \in Intents : rows'[i] = rows[i] \/ rows'[i] = Expired(i)
    BY <1>4 DEF ExpireDue
  <2>2. ASSUME NEW i \in Intents PROVE RowClaims(rows'[i], i)
    <3>1. RowClaims(rows[i], i) /\ rows[i] \in Row
      BY <1>1, ClaimsKept DEF HonestInv, TypeOK
    <3>2. RowClaims(Expired(i), i)
      BY <3>1 DEF RowClaims, Row, Expired
    <3> QED BY <2>1, <3>1, <3>2
  <2> QED BY <1>1, <1>4, <1>c, <2>2, ClaimsKept, HonestBuild DEF ExpireDue
<1>5. CASE UNCHANGED vars
  BY <1>1, <1>5, <1>c, ClaimsKept, HonestBuild DEF vars
<1> QED
  BY <1>1, <1>2, <1>3, <1>4, <1>5, HonestAttempt, HonestTick, HonestRow DEF Next

\* The inductive invariant holds in every reachable state.
THEOREM Honest == Spec => []HonestInv
<1> QED BY HonestInit, HonestStep, PTL DEF Spec

\* However many processes, overlapping ticks, timed-out stores and crashes there
\* are, the origin chain is told "executed" only about an intent execute_store has
\* recorded (store(), returnToEvm, returnToSolana).
THEOREM NoFalseProof == Spec => []AnsweredMeansRecorded
<1>1. HonestInv => AnsweredMeansRecorded
  BY DEF HonestInv
<1> QED BY <1>1, Honest, PTL

\* A row marked done has its blob recorded on Sui and its return leg answered.
THEOREM NoFalseDone == Spec => []DoneMeansAnswered
<1>1. HonestInv => DoneMeansAnswered
  BY DEF HonestInv
<1> QED BY <1>1, Honest, PTL

\* The relayer never gives up the only copy of an active row's bytes before Sui has
\* recorded the blob (freeBytes).
THEOREM NoEarlyFree == Spec => []BytesKeptUntilRecorded
<1>1. HonestInv => BytesKeptUntilRecorded
  BY DEF HonestInv
<1> QED BY <1>1, Honest, PTL

\* The ops ledger lists recorded stores only, and a row is flagged only when listed
\* (recordCompletedStore, backfill).
THEOREM NoFalseLedger == Spec => []LedgerIsEvidence
<1>1. HonestInv => LedgerIsEvidence
  BY DEF HonestInv
<1> QED BY <1>1, Honest, PTL

-----------------------------------------------------------------------------
(* What a step does to a settled row and to a completed store.             *)

\* Putting r in the place of row i neither revives it nor forgets its store.
Keeps(i, r) ==
    /\ rows[i].state \in Terminal => r.state # "active"
    /\ rows[i].stored => r.stored \/ rows[i].ledgered \/ rows[i].state = "absent"

LEMMA UpdateKeeps ==
    ASSUME TypeOK, NEW i \in Intents, NEW new \in Row, Keeps(i, new), rows' = Update(i, new)
    PROVE  \A j \in Intents : Keeps(j, rows'[j])
<1>1. \A j \in Intents : rows'[j] = rows[j] \/ (j = i /\ rows'[j] = new)
  BY DEF Update, TypeOK
<1>2. \A j \in Intents : Keeps(j, rows[j])
  BY DEF Keeps, Terminal
<1> QED BY <1>1, <1>2

\* The attempts' writes: progress columns, retry, dead-letter and completion.
LEMMA AttemptKeeps ==
    ASSUME TypeOK, NEW a \in Attempts, AttemptNext(a)
    PROVE  \A j \in Intents : Keeps(j, rows'[j])
<1> USE DEF table, chains
<1> DEFINE i == Intent(a)
           All == \A j \in Intents : Keeps(j, rows'[j])
<1>0. i \in Intents /\ rows[i] \in Row /\ task[a] \in Task
  BY AttemptParts DEF TypeOK
<1>u. UNCHANGED rows => All
  BY DEF Keeps, Terminal
<1>d. ASSUME NEW why \in {"rejected", "preStore", "return"}, rows' = Dead(i, why) PROVE All
  <2>1. [rows[i] EXCEPT !.state = "dead", !.bytes = FALSE, !.lastError = why] \in Row
    BY <1>0 DEF Row, Terminal
  <2>2. Keeps(i, [rows[i] EXCEPT !.state = "dead", !.bytes = FALSE, !.lastError = why])
    BY <1>0 DEF Row, Keeps
  <2> QED BY <1>0, <1>d, <2>1, <2>2, UpdateKeeps DEF Dead
<1>r. ASSUME NEW n \in Nat, rows' = Reschedule(i, n) PROVE All
  <2>1. [rows[i] EXCEPT !.attempts = n, !.due = FALSE, !.claimedBy = None] \in Row
    BY <1>0 DEF Row
  <2>2. Keeps(i, [rows[i] EXCEPT !.attempts = n, !.due = FALSE, !.claimedBy = None])
    BY <1>0 DEF Row, Keeps, Terminal
  <2> QED BY <1>0, <1>r, <2>1, <2>2, UpdateKeeps DEF Reschedule
<1>b. ASSUME NEW limit \in Nat, NEW why \in {"preStore", "return"}, RetryOrBury(a, limit, why)
      PROVE  All
  <2>1. task[a].attempts + 1 \in Nat
    BY <1>0 DEF Task
  <2> HIDE DEF All
  <2> QED BY <1>b, <1>d, <1>r, <2>1 DEF RetryOrBury
<1>1. CASE Consider(a) \/ GetCommitment(a) \/ Upload(a) \/ ExecuteStore(a) \/ SendProof(a)
           \/ ConfirmExecution(a) \/ StepFails(a)
  <2>1. UNCHANGED rows
    BY <1>1 DEF Consider, GetCommitment, Upload, ExecuteStore, SendProof, ConfirmExecution, StepFails
  <2> QED BY <1>u, <2>1
<1>2. CASE Check(a)
  <2>1. All
    <3> HIDE DEF All
    <3> QED BY <1>2, <1>u, <1>d DEF Check
  <2> QED BY <2>1
<1>3. CASE PersistUpload(a)
  <2>1. [rows[i] EXCEPT !.object = task[a].object] \in Row
    BY <1>0 DEF Row, Task
  <2>2. Keeps(i, [rows[i] EXCEPT !.object = task[a].object])
    BY <1>0 DEF Row, Keeps, Terminal
  <2> QED BY <1>0, <1>3, <2>1, <2>2, UpdateKeeps DEF PersistUpload
<1>4. CASE PersistStore(a)
  <2>1. [rows[i] EXCEPT !.stored = TRUE] \in Row
    BY <1>0 DEF Row
  <2>2. Keeps(i, [rows[i] EXCEPT !.stored = TRUE])
    BY <1>0 DEF Row, Keeps, Terminal
  <2> QED BY <1>0, <1>4, <2>1, <2>2, UpdateKeeps DEF PersistStore
<1>5. CASE RecordLedger(a)
  <2>1. [rows[i] EXCEPT !.ledgered = TRUE] \in Row
    BY <1>0 DEF Row
  <2>2. Keeps(i, [rows[i] EXCEPT !.ledgered = TRUE])
    BY <1>0 DEF Row, Keeps, Terminal
  <2>3. rows' = Update(i, [rows[i] EXCEPT !.ledgered = TRUE]) \/ UNCHANGED rows
    BY <1>5 DEF RecordLedger, RecordCompletedStore
  <2> QED BY <1>0, <1>u, <2>1, <2>2, <2>3, UpdateKeeps
<1>6. CASE FreeBytes(a)
  <2>1. [rows[i] EXCEPT !.bytes = FALSE] \in Row
    BY <1>0 DEF Row
  <2>2. Keeps(i, [rows[i] EXCEPT !.bytes = FALSE])
    BY <1>0 DEF Row, Keeps, Terminal
  <2> QED BY <1>0, <1>6, <2>1, <2>2, UpdateKeeps DEF FreeBytes
<1>7. CASE MarkReturned(a)
  <2>1. [rows[i] EXCEPT !.returned = TRUE] \in Row
    BY <1>0 DEF Row
  <2>2. Keeps(i, [rows[i] EXCEPT !.returned = TRUE])
    BY <1>0 DEF Row, Keeps, Terminal
  <2> QED BY <1>0, <1>7, <2>1, <2>2, UpdateKeeps DEF MarkReturned
<1>8. CASE MarkDone(a)
  <2>1. [rows[i] EXCEPT !.state = "done", !.bytes = FALSE] \in Row
    BY <1>0 DEF Row, Terminal
  <2>2. Keeps(i, [rows[i] EXCEPT !.state = "done", !.bytes = FALSE])
    BY <1>0 DEF Row, Keeps
  <2> QED BY <1>0, <1>8, <2>1, <2>2, UpdateKeeps DEF MarkDone
<1>9. CASE HandleFailure(a) \/ TimesOut(a)
  <2>1. All
    <3> HIDE DEF All
    <3> QED BY <1>9, <1>b, <1>u, ConstantsAssumption DEF HandleFailure, TimesOut
  <2> QED BY <2>1
<1> QED
  BY <1>1, <1>2, <1>3, <1>4, <1>5, <1>6, <1>7, <1>8, <1>9 DEF AttemptNext, Pipeline

\* Every step of the system.
LEMMA StepKeeps == TypeOK /\ [Next]_vars => \A j \in Intents : Keeps(j, rows'[j])
<1> SUFFICES ASSUME TypeOK, [Next]_vars, NEW j \in Intents PROVE Keeps(j, rows'[j])
  OBVIOUS
<1> USE DEF table, processes, chains
<1>0. rows[j] \in Row
  BY DEF TypeOK
<1>u. rows'[j] = rows[j] => Keeps(j, rows'[j])
  BY DEF Keeps, Terminal
<1>e. Keeps(j, Expired(j))
  BY <1>0 DEF Expired, Keeps, Row
<1>1. ASSUME NEW p \in Procs, NEW k \in Ticks, TickNext(p, k) PROVE Keeps(j, rows'[j])
  <2>1. rows'[j] \in {rows[j], [rows[j] EXCEPT !.claimedBy = p]}
    BY <1>1 DEF TickNext, DrainDue, TickFails, WatchdogElapses
  <2>2. Keeps(j, [rows[j] EXCEPT !.claimedBy = p])
    BY <1>0 DEF Keeps, Row, Terminal
  <2> QED BY <1>u, <2>1, <2>2
<1>2. ASSUME NEW i \in Intents, RowNext(i) PROVE Keeps(j, rows'[j])
  <2>1. CASE i # j
    <3>1. rows'[j] = rows[j]
      BY <1>2, <2>1 DEF RowNext, ObserveCommitment, UpsertBytes, MarkReceived, Backfill,
         RecordCompletedStore, Update, ExpireUnreceived, PurgeTerminal, BackoffElapses, LeaseExpires,
         DeadlinePasses, TypeOK
    <3> QED BY <1>u, <3>1
  <2>2. CASE i = j
    <3>1. CASE ObserveCommitment(j) \/ DeadlinePasses(j)
      BY <1>u, <3>1 DEF ObserveCommitment, DeadlinePasses
    <3>2. CASE UpsertBytes(j) \/ MarkReceived(j)
      <4>1. rows[j].state \in {"absent", "active"}
        BY <3>2 DEF UpsertBytes, MarkReceived
      <4>2. CASE rows[j].state = "absent"
        BY <4>2 DEF Keeps, Terminal
      <4>3. CASE rows[j].state = "active"
        <5>1. rows'[j] \in {[rows[j] EXCEPT !.bytes = TRUE, !.blob = TRUE, !.deadline = TRUE],
                            [rows[j] EXCEPT !.received = TRUE, !.deadline = TRUE]}
          BY <3>2, <4>3 DEF UpsertBytes, MarkReceived, TypeOK
        <5>2. rows'[j].stored = rows[j].stored
          BY <1>0, <5>1 DEF Row
        <5> QED BY <4>3, <5>2 DEF Keeps, Terminal
      <4> QED BY <4>1, <4>2, <4>3
    <3>3. CASE Backfill(j)
      <4>1. rows'[j] \in {rows[j], [rows[j] EXCEPT !.ledgered = TRUE]}
        BY <3>3 DEF Backfill, RecordCompletedStore, Update, TypeOK
      <4>2. Keeps(j, [rows[j] EXCEPT !.ledgered = TRUE])
        BY <1>0 DEF Keeps, Row, Terminal
      <4> QED BY <1>u, <4>1, <4>2
    <3>4. CASE ExpireUnreceived(j)
      BY <1>e, <3>4 DEF ExpireUnreceived, TypeOK
    <3>5. CASE PurgeTerminal(j)
      BY <3>5 DEF PurgeTerminal, NoRow, NewRow, Keeps, TypeOK
    <3>6. CASE BackoffElapses(j) \/ LeaseExpires(j)
      BY <1>0, <3>6 DEF BackoffElapses, LeaseExpires, Keeps, TypeOK, Terminal, Row
    <3> QED BY <1>2, <2>2, <3>1, <3>2, <3>3, <3>4, <3>5, <3>6 DEF RowNext
  <2> QED BY <2>1, <2>2
<1>3. ASSUME NEW p \in Procs, Boot(p) \/ Crash(p) PROVE Keeps(j, rows'[j])
  BY <1>3, <1>u DEF Boot, Crash
<1>4. CASE ExpireDue
  <2>1. rows'[j] \in {rows[j], Expired(j)}
    BY <1>4 DEF ExpireDue
  <2> QED BY <1>u, <1>e, <2>1
<1>5. CASE UNCHANGED vars
  BY <1>5, <1>u DEF vars
<1> QED BY <1>1, <1>2, <1>3, <1>4, <1>5, AttemptKeeps DEF Next

\* No late event, late byte, retry or straggler revives a settled row.
THEOREM NoRevival == Spec => TerminalIsFinal
<1>1. TypeOK /\ [Next]_vars
      => [\A i \in Intents : rows[i].state \in Terminal => rows'[i].state # "active"]_vars
  BY StepKeeps DEF Keeps
<1> QED BY <1>1, TypeCorrect, PTL DEF Spec, TerminalIsFinal

\* A completed store leaves the table only with its ledger entry written.
THEOREM NoUnledgeredPurge == Spec => PurgedStoreIsLedgered
<1>1. HonestInv /\ [Next]_vars
      => [\A i \in Intents : rows[i].stored /\ ~rows'[i].stored => i \in ledger]_vars
  <2> SUFFICES ASSUME HonestInv, [Next]_vars, NEW i \in Intents, rows[i].stored, ~rows'[i].stored
               PROVE  i \in ledger
    OBVIOUS
  <2>1. Keeps(i, rows'[i])
    BY StepKeeps DEF HonestInv
  <2>2. rows[i].ledgered
    BY <2>1 DEF Keeps, HonestInv, RowsTellTheTruth
  <2> QED BY <2>2 DEF HonestInv, LedgerIsEvidence
<1> QED BY <1>1, Honest, PTL DEF Spec, PurgedStoreIsLedgered
-----------------------------------------------------------------------------
(* Who may run a row.  An await that outlasts the tick watchdog, the lease *)
(* or the retention window undoes the guards (the runs queue_overlap and   *)
(* StoreQueue_claims_taken_over.cfg have such awaits); here there is none. *)

\* Why a process runs a row once.  Its ticks do not overlap while no tick is presumed
\* hung; a running store() holds the in-process slot of its row; and between the scan's
\* look at the slot and the start of the store no one else takes it.
SlotInv ==
    /\ TypeOK
    /\ \A a \in Attempts : ~task[a].overdue
    /\ \A a \in Attempts : task[a].timedOut => Running(a)
    /\ \A a, b \in Attempts :
          Unsettled(a) /\ Unsettled(b) /\ Proc(a) = Proc(b) => Tick(a) = Tick(b)
    /\ \A a \in Attempts : Running(a) => Intent(a) \in inProcess[Proc(a)]
    /\ \A a \in Attempts :
          task[a].pc \in {"commitment", "ready"} => Intent(a) \notin inProcess[Proc(a)]
    /\ ProcessRunsRowOnce

\* An attempt is its process, its tick slot and its row.
LEMMA SameAttempt ==
    ASSUME NEW a \in Attempts, NEW b \in Attempts,
           Proc(a) = Proc(b), Tick(a) = Tick(b), Intent(a) = Intent(b)
    PROVE  a = b
  BY DEF Attempts, Proc, Tick, Intent

\* What a step of an attempt may do to the attempts and to the in-process slots: store()
\* goes on, it settles, the catch block ends, the attempt times out, or the scan moves.
Onward(a) ==
    /\ Running(a)
    /\ \E t \in Task : /\ t.pc \in Storing
                       /\ t.timedOut = task[a].timedOut /\ t.overdue = task[a].overdue
                       /\ task' = [task EXCEPT ![a] = t]
    /\ UNCHANGED inProcess

Settles(a) ==
    /\ Running(a)
    /\ \E t \in Task : /\ t.pc \in Failed \union {"idle"}
                       /\ ~t.timedOut
                       /\ t.overdue => task[a].overdue
                       /\ t.pc \in Failed => ~task[a].timedOut
                       /\ task' = [task EXCEPT ![a] = t]
    /\ Release(a)

Caught(a) ==
    /\ task[a].pc \in Failed
    /\ task' = [task EXCEPT ![a] = IdleTask]
    /\ UNCHANGED inProcess

GivesUp(a) ==
    /\ Running(a)
    /\ ~task[a].timedOut
    /\ task' = [task EXCEPT ![a].timedOut = TRUE]
    /\ UNCHANGED inProcess

Asks(a) ==
    /\ task[a].pc = "drained"
    /\ Intent(a) \notin inProcess[Proc(a)]
    /\ Goto(a, "commitment")
    /\ UNCHANGED inProcess

Scans(a) ==
    \/ task[a].pc \in {"drained", "commitment"} /\ ScanPast(a, IdleTask)
    \/ task[a].pc = "commitment" /\ ScanPast(a, [task[a] EXCEPT !.pc = "ready"])

\* The steps of an attempt have one of those shapes.
LEMMA StepShapes ==
    ASSUME TypeOK, NEW a \in Attempts, AttemptNext(a)
    PROVE  Onward(a) \/ Settles(a) \/ Caught(a) \/ GivesUp(a) \/ Asks(a) \/ Scans(a)
<1>0. task[a] \in Task
  BY DEF TypeOK
<1>g. ASSUME NEW pc \in Storing, Running(a), Goto(a, pc), UNCHANGED inProcess PROVE Onward(a)
  <2>1. [task[a] EXCEPT !.pc = pc] \in Task
    BY <1>0, TaskTypes DEF Steps
  <2>2. task' = [task EXCEPT ![a] = [task[a] EXCEPT !.pc = pc]]
    BY <1>g DEF Goto
  <2> QED BY <1>0, <1>g, <2>1, <2>2 DEF Onward, Task
<1>i. IdleTask \in Task /\ IdleTask.pc = "idle" /\ ~IdleTask.timedOut /\ ~IdleTask.overdue
      /\ "idle" \notin Failed
  BY TaskTypes DEF IdleTask, Failed
<1>f. ASSUME Running(a), Finish(a) PROVE Settles(a)
  BY <1>f, <1>i DEF Finish, Settles
<1>t. ASSUME Running(a), NEW phase \in Failed, Throw(a, phase) PROVE Settles(a)
  <2>1. CASE task[a].timedOut
    <3>1. task' = [task EXCEPT ![a] = IdleTask]
      BY <1>t, <2>1 DEF Throw
    <3> QED BY <1>t, <1>i, <3>1 DEF Throw, Settles
  <2>2. CASE ~task[a].timedOut
    <3>1. task' = [task EXCEPT ![a] = [task[a] EXCEPT !.pc = phase]]
      BY <1>t, <2>2 DEF Throw
    <3>2. [task[a] EXCEPT !.pc = phase] \in Task
      BY <1>0, TaskTypes DEF Steps
    <3> QED BY <1>0, <1>t, <2>2, <3>1, <3>2 DEF Throw, Settles, Task
  <2> QED BY <2>1, <2>2
<1>1. CASE Consider(a)
  BY <1>1 DEF Consider, Asks, Scans
<1>2. CASE GetCommitment(a)
  BY <1>2 DEF GetCommitment, Scans
<1>3. CASE Check(a)
  BY <1>3, <1>g, <1>f DEF Check, Running, Storing
<1>4. CASE Upload(a)
  <2>1. PICK o \in Objects :
           task' = [task EXCEPT ![a] = [task[a] EXCEPT !.pc = "persistUpload", !.object = o]]
    BY <1>0, <1>4 DEF Upload, TypeOK, Task
  <2>2. [task[a] EXCEPT !.pc = "persistUpload", !.object = o] \in Task
    BY <1>0 DEF Task, Steps, Storing
  <2> QED BY <1>0, <1>4, <2>1, <2>2 DEF Upload, Onward, Running, Storing, Task
<1>5. CASE PersistUpload(a) \/ PersistStore(a) \/ RecordLedger(a) \/ FreeBytes(a)
           \/ MarkReturned(a) \/ SendProof(a)
  BY <1>5, <1>g DEF PersistUpload, PersistStore, RecordLedger, FreeBytes, MarkReturned, SendProof,
                    Running, Storing
<1>6. CASE ExecuteStore(a)
  BY <1>6, <1>g, <1>t DEF ExecuteStore, Running, Storing, Failed
<1>7. CASE ConfirmExecution(a)
  BY <1>7, <1>g, <1>t DEF ConfirmExecution, Running, Storing, Failed
<1>8. CASE MarkDone(a)
  BY <1>8, <1>f DEF MarkDone, Running, Storing
<1>9. CASE StepFails(a)
  BY <1>9, <1>t DEF StepFails, Running, Failed
<1>10. CASE HandleFailure(a)
  BY <1>10 DEF HandleFailure, Caught
<1>11. CASE TimesOut(a)
  BY <1>11 DEF TimesOut, GivesUp
<1> QED BY <1>1, <1>2, <1>3, <1>4, <1>5, <1>6, <1>7, <1>8, <1>9, <1>10, <1>11
           DEF AttemptNext, Pipeline

\* A step that changes one attempt and leaves the slots alone, or frees its own.
LEMMA SlotOneTask ==
    ASSUME SlotInv, TypeOK', NEW a \in Attempts,
           Onward(a) \/ Settles(a) \/ Caught(a) \/ GivesUp(a) \/ Asks(a)
    PROVE  SlotInv'
<1> USE DEF Unsettled, Running
<1>0. \A b \in Attempts : task[b] \in Task
  BY DEF SlotInv, TypeOK
<1>1. \A b \in Attempts \ {a} : task'[b] = task[b]
  BY DEF Onward, Settles, Caught, GivesUp, Asks, Goto, SlotInv, TypeOK
<1>2. \A b \in Attempts : Proc(b) \in Procs
  BY AttemptParts
<1>3. CASE Onward(a) \/ GivesUp(a)
  <2>1. task'[a].pc \in Storing /\ task[a].pc \in Storing /\ inProcess' = inProcess
        /\ (task[a].timedOut => task'[a].timedOut) /\ task'[a].overdue = task[a].overdue
    BY <1>0, <1>3 DEF Onward, GivesUp, SlotInv, TypeOK, Task
  <2>2. \A b \in Attempts : Running(b)' <=> Running(b)
    BY <1>1, <2>1
  <2>3. \A b \in Attempts : task'[b].pc \in {"commitment", "ready"} => task'[b].pc = task[b].pc
    BY <1>1, <2>1 DEF Storing
  <2>4. \A b \in Attempts : Unsettled(b)' => Unsettled(b)
    BY <1>1, <2>1 DEF Storing
  <2> QED BY <1>1, <2>1, <2>2, <2>3, <2>4 DEF SlotInv, ProcessRunsRowOnce
<1>4. CASE Settles(a)
  <2>1. task'[a].pc \in Failed \union {"idle"} /\ ~task'[a].timedOut /\ Running(a)
        /\ ~task'[a].overdue /\ (task'[a].pc \in Failed => ~task[a].timedOut)
    BY <1>4 DEF Settles, SlotInv, TypeOK
  <2>2. inProcess' = [inProcess EXCEPT ![Proc(a)] = @ \ {Intent(a)}]
    BY <1>4 DEF Settles, Release
  <2>3. \A b \in Attempts : Running(b)' => Running(b) /\ b # a
    BY <1>1, <2>1 DEF Storing, Failed
  <2>4. \A b \in Attempts : Unsettled(b)' => Unsettled(b)
    BY <1>1, <2>1 DEF Storing
  <2>5. \A b \in Attempts : task'[b].pc \in {"commitment", "ready"} => task'[b].pc = task[b].pc
    BY <1>1, <2>1 DEF Failed
  <2>6. \A b \in Attempts : Running(b)' => Intent(b) \in inProcess'[Proc(b)]
    <3> SUFFICES ASSUME NEW b \in Attempts, Running(b)' PROVE Intent(b) \in inProcess'[Proc(b)]
      OBVIOUS
    <3>1. Proc(b) # Proc(a) \/ Intent(b) # Intent(a)
      BY <2>1, <2>3 DEF SlotInv, ProcessRunsRowOnce
    <3>2. Intent(b) \in inProcess[Proc(b)]
      BY <2>3 DEF SlotInv
    <3> QED BY <1>2, <2>2, <3>1, <3>2 DEF SlotInv, TypeOK
  <2>7. \A b \in Attempts : task'[b].pc \in {"commitment", "ready"}
                            => Intent(b) \notin inProcess'[Proc(b)]
    BY <1>2, <2>2, <2>5 DEF SlotInv, TypeOK
  <2>8. \A b \in Attempts : task'[b].timedOut => Running(b)'
    BY <1>1, <2>1 DEF SlotInv
  <2>9. \A b \in Attempts : ~task'[b].overdue
    BY <1>1, <2>1 DEF SlotInv
  <2>10. \A b, c \in Attempts :
            Unsettled(b)' /\ Unsettled(c)' /\ Proc(b) = Proc(c) => Tick(b) = Tick(c)
    BY <2>4 DEF SlotInv
  <2>11. ProcessRunsRowOnce'
    BY <2>3 DEF SlotInv, ProcessRunsRowOnce
  <2> QED BY <2>6, <2>7, <2>8, <2>9, <2>10, <2>11 DEF SlotInv
<1>5. CASE Caught(a) \/ Asks(a)
  <2>1. task'[a].pc \in {"idle", "commitment"} /\ task[a].pc \in Failed \union {"drained"}
        /\ ~task'[a].overdue /\ inProcess' = inProcess
        /\ (task'[a].timedOut => task[a].timedOut)
        /\ (task'[a].pc = "commitment" => Intent(a) \notin inProcess[Proc(a)])
    BY <1>0, <1>5 DEF Caught, Asks, Goto, SlotInv, TypeOK, Task, IdleTask
  <2>2. \A b \in Attempts : Running(b)' => Running(b) /\ b # a
    BY <1>1, <2>1 DEF Storing
  <2>3. ~task'[a].timedOut
    BY <2>1 DEF SlotInv, Storing, Failed
  <2>4. \A b \in Attempts : Unsettled(b)' => Unsettled(b)
    <3>1. ~task[a].timedOut /\ task[a].pc # "idle"
      BY <2>1 DEF SlotInv, Storing, Failed
    <3> QED BY <1>1, <3>1
  <2>5. \A b \in Attempts : task'[b].pc \in {"commitment", "ready"}
                            => Intent(b) \notin inProcess'[Proc(b)]
    BY <1>1, <2>1 DEF SlotInv
  <2>6. \A b \in Attempts : task'[b].timedOut => Running(b)'
    BY <1>1, <2>3 DEF SlotInv
  <2>7. \A b \in Attempts : ~task'[b].overdue
    BY <1>1, <2>1 DEF SlotInv
  <2>8. \A b, c \in Attempts :
            Unsettled(b)' /\ Unsettled(c)' /\ Proc(b) = Proc(c) => Tick(b) = Tick(c)
    BY <2>4 DEF SlotInv
  <2>9. ProcessRunsRowOnce'
    BY <2>2 DEF SlotInv, ProcessRunsRowOnce
  <2> QED BY <2>1, <2>2, <2>5, <2>6, <2>7, <2>8, <2>9 DEF SlotInv
<1> QED BY <1>3, <1>4, <1>5

\* The scan moves past a row and, after the last one, starts the ready ones: their slots
\* were free when the scan looked, and still are.
LEMMA SlotScan ==
    ASSUME SlotInv, TypeOK', NEW a \in Attempts, Scans(a)
    PROVE  SlotInv'
<1> USE DEF Unsettled, Running
<1>0. \A b \in Attempts : task[b] \in Task /\ Proc(b) \in Procs
  BY AttemptParts DEF SlotInv, TypeOK
<1>1. PICK t \in Task :
        /\ ScanPast(a, t)
        /\ task[a].pc \in {"drained", "commitment"}
        /\ t.pc = "idle" \/ (t.pc = "ready" /\ task[a].pc = "commitment")
        /\ ~t.timedOut /\ ~t.overdue
  <2>1. CASE task[a].pc \in {"drained", "commitment"} /\ ScanPast(a, IdleTask)
    BY <2>1, TaskTypes DEF IdleTask
  <2>2. CASE task[a].pc = "commitment" /\ ScanPast(a, [task[a] EXCEPT !.pc = "ready"])
    <3> DEFINE r == [task[a] EXCEPT !.pc = "ready"]
    <3>1. r \in Task
      BY <1>0, TaskTypes DEF Steps, Scanning
    <3>2. r.pc = "ready" /\ r.timedOut = task[a].timedOut /\ r.overdue = task[a].overdue
      BY <1>0 DEF Task
    <3>3. ~task[a].timedOut /\ ~task[a].overdue
      BY <2>2 DEF SlotInv, Storing
    <3> HIDE DEF r
    <3> QED BY <2>2, <3>1, <3>2, <3>3 DEF r
  <2> QED BY <2>1, <2>2 DEF Scans
<1> DEFINE scanned == [task EXCEPT ![a] = t]
           Mine(b) == Proc(b) = Proc(a) /\ Tick(b) = Tick(a)
<1>2. PICK start \in SUBSET Attempts :
        /\ \A b \in start : Mine(b) /\ scanned[b].pc = "ready"
        /\ task' = [b \in Attempts |-> IF b \in start THEN [scanned[b] EXCEPT !.pc = "check"]
                                                      ELSE scanned[b]]
        /\ inProcess' = [inProcess EXCEPT ![Proc(a)] = @ \union {Intent(b) : b \in start}]
  BY <1>1 DEF ScanPast
<1>3. \A b \in Attempts : /\ scanned[b] \in Task
                          /\ b # a => scanned[b] = task[b]
                          /\ scanned[a] = t
  BY <1>1 DEF SlotInv, TypeOK
<1> HIDE DEF scanned
<1>4. \A b \in Attempts : /\ b \in start => task'[b].pc = "check"
                          /\ b \notin start => task'[b] = scanned[b]
                          /\ task'[b].timedOut = scanned[b].timedOut
                          /\ task'[b].overdue = scanned[b].overdue
  BY <1>2, <1>3 DEF Task
<1>5. \A b \in start : /\ task[b].pc \in {"commitment", "ready"}
                       /\ ~task[b].timedOut
                       /\ Intent(b) \notin inProcess[Proc(b)]
  <2> SUFFICES ASSUME NEW b \in start
               PROVE  /\ task[b].pc \in {"commitment", "ready"}
                      /\ ~task[b].timedOut
                      /\ Intent(b) \notin inProcess[Proc(b)]
    OBVIOUS
  <2>1. task[b].pc \in {"commitment", "ready"}
    BY <1>1, <1>2, <1>3
  <2> QED BY <2>1 DEF SlotInv, Storing
<1>6. \A b \in Attempts : Unsettled(b)' => Unsettled(b)
  <2>1. ~task[a].timedOut /\ task[a].pc # "idle"
    BY <1>1 DEF SlotInv, Storing
  <2> QED BY <1>1, <1>3, <1>4, <1>5, <2>1
<1>7. \A b \in Attempts : Running(b)' => b \in start \/ (Running(b) /\ b # a)
  BY <1>1, <1>3, <1>4 DEF Storing
<1>8. \A b \in Attempts : Running(b)' => Intent(b) \in inProcess'[Proc(b)]
  <2> SUFFICES ASSUME NEW b \in Attempts, Running(b)' PROVE Intent(b) \in inProcess'[Proc(b)]
    OBVIOUS
  <2>1. CASE b \in start
    BY <1>0, <1>2, <2>1 DEF SlotInv, TypeOK
  <2>2. CASE Running(b)
    <3>1. Intent(b) \in inProcess[Proc(b)]
      BY <2>2 DEF SlotInv
    <3> QED BY <1>0, <1>2, <3>1 DEF SlotInv, TypeOK
  <2> QED BY <1>7, <2>1, <2>2
<1>9. \A b \in Attempts : task'[b].pc \in {"commitment", "ready"}
                          => Intent(b) \notin inProcess'[Proc(b)]
  <2> SUFFICES ASSUME NEW b \in Attempts, task'[b].pc \in {"commitment", "ready"}
               PROVE  Intent(b) \notin inProcess'[Proc(b)]
    OBVIOUS
  <2>1. b \notin start /\ task[b].pc \in {"commitment", "ready"}
    BY <1>1, <1>3, <1>4
  <2>2. Intent(b) \notin inProcess[Proc(b)] /\ ~task[b].timedOut
    BY <2>1 DEF SlotInv, Storing
  <2>3. ASSUME Proc(b) = Proc(a), NEW c \in start PROVE Intent(c) # Intent(b)
    <3>1. Unsettled(c) /\ Unsettled(b)
      BY <1>5, <2>1, <2>2
    <3>2. Proc(c) = Proc(b) /\ Tick(c) = Tick(b)
      BY <1>2, <2>3, <3>1 DEF SlotInv
    <3> QED BY <2>1, <2>3, <3>2, SameAttempt
  <2> QED BY <1>0, <1>2, <2>2, <2>3 DEF SlotInv, TypeOK
<1>10. ProcessRunsRowOnce'
  <2> SUFFICES ASSUME NEW b \in Attempts, NEW c \in Attempts, Running(b)', Running(c)',
                      Proc(b) = Proc(c), Intent(b) = Intent(c)
               PROVE  b = c
    BY DEF ProcessRunsRowOnce
  <2>1. CASE b \in start /\ c \in start
    BY <1>2, <2>1, SameAttempt
  <2>2. CASE Running(b) /\ Running(c)
    BY <2>2 DEF SlotInv, ProcessRunsRowOnce
  <2>3. ~(b \in start /\ Running(c)) /\ ~(c \in start /\ Running(b))
    BY <1>5 DEF SlotInv
  <2> QED BY <1>7, <2>1, <2>2, <2>3
<1>11. \A b \in Attempts : task'[b].timedOut => Running(b)'
  <2> SUFFICES ASSUME NEW b \in Attempts, task'[b].timedOut PROVE Running(b)'
    OBVIOUS
  <2>1. b # a /\ task[b].timedOut
    BY <1>1, <1>3, <1>4
  <2>2. b \notin start
    BY <1>5, <2>1
  <2> QED BY <1>3, <1>4, <2>1, <2>2 DEF SlotInv
<1>12. \A b \in Attempts : ~task'[b].overdue
  BY <1>1, <1>3, <1>4 DEF SlotInv
<1>13. \A b, c \in Attempts :
          Unsettled(b)' /\ Unsettled(c)' /\ Proc(b) = Proc(c) => Tick(b) = Tick(c)
  BY <1>6 DEF SlotInv
<1> QED BY <1>8, <1>9, <1>10, <1>11, <1>12, <1>13 DEF SlotInv

LEMMA SlotInit == Init => SlotInv
<1> SUFFICES ASSUME Init PROVE SlotInv
  OBVIOUS
<1>1. TypeOK
  BY TypeInit
<1>2. \A a \in Attempts : task[a].pc = "idle" /\ ~task[a].timedOut /\ ~task[a].overdue
  BY DEF Init, IdleTask
<1>3. \A a \in Attempts : ~Running(a) /\ ~Unsettled(a)
  BY <1>2 DEF Running, Unsettled, Storing
<1> QED BY <1>1, <1>2, <1>3 DEF SlotInv, ProcessRunsRowOnce

\* A step that only ends attempts that hold no slot, or a process with all its slots.
LEMMA SlotEnds ==
    ASSUME SlotInv, TypeOK', NEW gone \in SUBSET Attempts,
           \A b \in Attempts \ gone : task'[b] = task[b],
           \A b \in gone : task'[b] = IdleTask,
           \A b \in Attempts \ gone : inProcess'[Proc(b)] = inProcess[Proc(b)]
    PROVE  SlotInv'
<1>1. \A b \in gone : task'[b].pc = "idle" /\ ~task'[b].timedOut /\ ~task'[b].overdue
  BY DEF IdleTask
<1>2. \A b \in gone : ~Running(b)' /\ ~Unsettled(b)'
  BY <1>1 DEF Running, Unsettled, Storing
<1>3. \A b \in Attempts : Running(b)' => b \notin gone /\ Running(b)
  BY <1>2 DEF Running
<1>4. \A b \in Attempts : Unsettled(b)' => b \notin gone /\ Unsettled(b)
  BY <1>2 DEF Unsettled
<1>5. \A b \in Attempts : task'[b].timedOut => Running(b)'
  BY <1>1 DEF SlotInv, Running
<1>6. \A b \in Attempts : Running(b)' => Intent(b) \in inProcess'[Proc(b)]
  BY <1>3 DEF SlotInv
<1>7. \A b \in Attempts : task'[b].pc \in {"commitment", "ready"}
                          => Intent(b) \notin inProcess'[Proc(b)]
  BY <1>1 DEF SlotInv
<1>8. \A b \in Attempts : ~task'[b].overdue
  BY <1>1 DEF SlotInv
<1>9. \A b, c \in Attempts :
          Unsettled(b)' /\ Unsettled(c)' /\ Proc(b) = Proc(c) => Tick(b) = Tick(c)
  BY <1>4 DEF SlotInv
<1>10. ProcessRunsRowOnce'
  BY <1>3 DEF SlotInv, ProcessRunsRowOnce
<1> QED BY <1>5, <1>6, <1>7, <1>8, <1>9, <1>10 DEF SlotInv

\* What a tick's claim does: it starts when no attempt of its process is awaited any
\* more, in a slot that is idle, and every attempt it makes waits for the scan.
Drains(p, k, fresh) ==
    /\ \A b \in fresh : /\ Proc(b) = p /\ Tick(b) = k
                        /\ task[b].pc = "idle" /\ task'[b].pc = "drained"
                        /\ ~task'[b].timedOut /\ ~task'[b].overdue
                        /\ Claimable(Intent(b), p)
                        /\ rows'[Intent(b)] = [rows[Intent(b)] EXCEPT !.claimedBy = p]
    /\ \A b \in Attempts \ fresh : task'[b] = task[b]

LEMMA DrainFresh ==
    ASSUME SlotInv, NEW p \in Procs, NEW k \in Ticks, DrainDue(p, k)
    PROVE  /\ \A b \in Attempts : Proc(b) = p => ~Unsettled(b)
           /\ \E fresh \in SUBSET Attempts : Drains(p, k, fresh)
<1>1. \A b \in Attempts : Proc(b) = p => ~Unsettled(b)
  BY DEF DrainDue, SlotInv
<1>2. PICK batch \in SUBSET {i \in Intents : Claimable(i, p)} :
        /\ rows' = [i \in Intents |-> IF i \in batch THEN [rows[i] EXCEPT !.claimedBy = p]
                                                     ELSE rows[i]]
        /\ task' = [a \in Attempts |->
                      IF Proc(a) = p /\ Tick(a) = k /\ Intent(a) \in batch \ past
                      THEN Snapshot(Intent(a)) ELSE task[a]]
  BY DEF DrainDue
<1> DEFINE fresh == {b \in Attempts : Proc(b) = p /\ Tick(b) = k /\ Intent(b) \in batch \ past}
<1>3. \A i \in Intents : /\ Snapshot(i).pc = "drained"
                         /\ ~Snapshot(i).timedOut /\ ~Snapshot(i).overdue
  BY DEF Snapshot, IdleTask
<1>4. \A b \in fresh : task'[b] = Snapshot(Intent(b)) /\ Intent(b) \in batch
  BY <1>2
<1>5. \A b \in fresh : task[b].pc = "idle"
  BY DEF DrainDue
<1>6. \A b \in Attempts \ fresh : task'[b] = task[b]
  BY <1>2
<1>7. fresh \in SUBSET Attempts /\ \A b \in fresh : Proc(b) = p /\ Tick(b) = k /\ Intent(b) \in Intents
  BY AttemptParts
<1>8. \A i \in batch : Claimable(i, p) /\ rows'[i] = [rows[i] EXCEPT !.claimedBy = p]
  BY <1>2
<1> HIDE DEF fresh
<1>9. \A b \in fresh : /\ Proc(b) = p /\ Tick(b) = k
                       /\ task[b].pc = "idle" /\ task'[b].pc = "drained"
                       /\ ~task'[b].timedOut /\ ~task'[b].overdue
                       /\ Claimable(Intent(b), p)
                       /\ rows'[Intent(b)] = [rows[Intent(b)] EXCEPT !.claimedBy = p]
  BY <1>3, <1>4, <1>5, <1>7, <1>8
<1> QED BY <1>1, <1>6, <1>7, <1>9 DEF Drains

LEMMA SlotDrain ==
    ASSUME SlotInv, TypeOK', NEW p \in Procs, NEW k \in Ticks, DrainDue(p, k)
    PROVE  SlotInv'
<1>1. \A b \in Attempts : Proc(b) = p => ~Unsettled(b)
  BY DrainFresh
<1>2. PICK fresh \in SUBSET Attempts : Drains(p, k, fresh)
  BY DrainFresh
<1>3. UNCHANGED inProcess
  BY DEF DrainDue
<1>4. \A b \in Attempts : Running(b)' => b \notin fresh /\ Running(b)
  BY <1>2 DEF Drains, Running, Storing
<1>5. \A b \in Attempts : Unsettled(b)' => b \in fresh \/ (Unsettled(b) /\ Proc(b) # p)
  BY <1>1, <1>2 DEF Drains, Unsettled
<1>6. \A b \in Attempts : task'[b].timedOut => Running(b)'
  BY <1>2 DEF Drains, SlotInv, Running
<1>7. \A b \in Attempts : Running(b)' => Intent(b) \in inProcess'[Proc(b)]
  BY <1>3, <1>4 DEF SlotInv
<1>8. \A b \in Attempts : task'[b].pc \in {"commitment", "ready"}
                          => Intent(b) \notin inProcess'[Proc(b)]
  BY <1>2, <1>3 DEF Drains, SlotInv
<1>9. \A b \in Attempts : ~task'[b].overdue
  BY <1>2 DEF Drains, SlotInv
<1>10. \A b, c \in Attempts :
          Unsettled(b)' /\ Unsettled(c)' /\ Proc(b) = Proc(c) => Tick(b) = Tick(c)
  BY <1>2, <1>5 DEF Drains, SlotInv
<1>11. ProcessRunsRowOnce'
  BY <1>4 DEF SlotInv, ProcessRunsRowOnce
<1> QED BY <1>6, <1>7, <1>8, <1>9, <1>10, <1>11 DEF SlotInv

LEMMA SlotStep ==
    ASSUME "watchdog" \notin Outlasted, SlotInv, [Next]_vars
    PROVE  SlotInv'
<1> USE DEF table, processes, chains
<1>0. TypeOK /\ TypeOK'
  BY TypeStep DEF SlotInv
<1>u. UNCHANGED <<task, inProcess>> => SlotInv'
  BY <1>0 DEF SlotInv, Running, Unsettled, ProcessRunsRowOnce
<1>1. ASSUME NEW a \in Attempts, AttemptNext(a) PROVE SlotInv'
  BY <1>0, <1>1, StepShapes, SlotOneTask, SlotScan
<1>2. ASSUME NEW p \in Procs, NEW k \in Ticks, TickNext(p, k) PROVE SlotInv'
  <2>1. CASE DrainDue(p, k)
    BY <1>0, <2>1, SlotDrain
  <2>2. CASE TickFails(p, k)
    <3> DEFINE gone == {a \in Attempts : Proc(a) = p /\ Tick(a) = k /\ task[a].pc \in Scanning}
    <3>1. /\ gone \in SUBSET Attempts
          /\ \A b \in Attempts \ gone : task'[b] = task[b]
          /\ \A b \in gone : task'[b] = IdleTask
          /\ inProcess' = inProcess
      BY <2>2 DEF TickFails
    <3> HIDE DEF gone
    <3> QED BY <1>0, <3>1, SlotEnds
  <2>3. CASE WatchdogElapses(p, k)
    BY <2>3 DEF WatchdogElapses
  <2> QED BY <1>2, <2>1, <2>2, <2>3 DEF TickNext
<1>3. ASSUME NEW i \in Intents, RowNext(i) PROVE SlotInv'
  <2>1. UNCHANGED <<task, inProcess>>
    BY <1>3 DEF RowNext, ObserveCommitment, UpsertBytes, MarkReceived, Backfill, ExpireUnreceived,
       PurgeTerminal, BackoffElapses, LeaseExpires, DeadlinePasses
  <2> QED BY <1>u, <2>1
<1>4. ASSUME NEW p \in Procs, Boot(p) \/ Crash(p) PROVE SlotInv'
  <2>1. CASE Boot(p)
    BY <1>u, <2>1 DEF Boot
  <2>2. CASE Crash(p)
    <3> DEFINE gone == {a \in Attempts : Proc(a) = p}
    <3>1. /\ gone \in SUBSET Attempts
          /\ \A b \in Attempts \ gone : task'[b] = task[b]
          /\ \A b \in gone : task'[b] = IdleTask
      BY <2>2 DEF Crash
    <3>2. \A b \in Attempts \ gone : inProcess'[Proc(b)] = inProcess[Proc(b)]
      BY <1>0, <2>2, AttemptParts DEF Crash, TypeOK
    <3> HIDE DEF gone
    <3> QED BY <1>0, <3>1, <3>2, SlotEnds
  <2> QED BY <1>4, <2>1, <2>2
<1>5. CASE ExpireDue
  BY <1>5, <1>u DEF ExpireDue
<1>6. CASE UNCHANGED vars
  BY <1>6, <1>u DEF vars
<1> QED BY <1>1, <1>2, <1>3, <1>4, <1>5, <1>6 DEF Next

\* A process never runs store() twice at the same time on one row, a store that outlived
\* its timeout included, as long as no tick is presumed hung while it is in flight.
THEOREM SlotIsExclusive ==
    ASSUME "watchdog" \notin Outlasted
    PROVE  Spec => []ProcessRunsRowOnce
<1>1. SlotInv /\ [Next]_vars => SlotInv'
  BY SlotStep
<1>2. SlotInv => ProcessRunsRowOnce
  BY DEF SlotInv
<1> QED BY <1>1, <1>2, SlotInit, PTL DEF Spec

\* Why two processes do not await the same row: an attempt that is still awaited is on a
\* row whose claim is its own process's.
ClaimHeld(a) ==
    rows[Intent(a)].state # "absent" /\ rows[Intent(a)].claimedBy = Proc(a)

HeldInv == SlotInv /\ \A a \in Attempts : Unsettled(a) => ClaimHeld(a)

\* Only a claim makes an attempt awaited; a step of an attempt never does.
LEMMA AttemptsSettle ==
    ASSUME SlotInv, NEW a \in Attempts, AttemptNext(a), NEW b \in Attempts, Unsettled(b)'
    PROVE  Unsettled(b)
<1> USE DEF Unsettled, Running
<1>0. task \in [Attempts -> Task]
  BY DEF SlotInv, TypeOK
<1>1. CASE Onward(a) \/ Settles(a) \/ Caught(a) \/ GivesUp(a) \/ Asks(a)
  <2>1. task[a].pc # "idle" /\ (task[a].timedOut => task[a].pc \in Storing)
    BY <1>1 DEF Onward, Settles, Caught, GivesUp, Asks, SlotInv, Storing, Failed
  <2>2. b # a => task'[b] = task[b]
    BY <1>0, <1>1 DEF Onward, Settles, Caught, GivesUp, Asks, Goto
  <2>3. CASE Onward(a) \/ GivesUp(a) \/ Asks(a)
    <3>1. task'[a].timedOut \/ task'[a].timedOut = task[a].timedOut
      BY <1>0, <2>3 DEF Onward, GivesUp, Asks, Goto, Task
    <3> QED BY <2>1, <2>2, <3>1
  <2>4. CASE Settles(a)
    BY <1>0, <2>1, <2>2, <2>4 DEF Settles
  <2>5. CASE Caught(a)
    <3>1. ~task[a].timedOut
      BY <2>5 DEF Caught, SlotInv, Storing, Failed
    <3> QED BY <2>1, <2>2, <3>1
  <2> QED BY <1>1, <2>3, <2>4, <2>5
<1>2. CASE Scans(a)
  <2>1. task[a].pc \in {"drained", "commitment"} /\ ~task[a].timedOut
    BY <1>2 DEF Scans, SlotInv, Storing
  <2>2. PICK t : ScanPast(a, t)
    BY <1>2 DEF Scans
  <2>3. b # a => task'[b] \in {task[b], [task[b] EXCEPT !.pc = "check"]}
    BY <1>0, <2>2 DEF ScanPast
  <2>4. CASE b # a /\ task'[b] = task[b]
    BY <2>4
  <2>5. CASE b # a /\ task'[b] # task[b]
    <3>1. task[b].pc = "ready"
      BY <1>0, <2>2, <2>5 DEF ScanPast
    <3> QED BY <3>1 DEF SlotInv, Storing
  <2> QED BY <2>1, <2>3, <2>4, <2>5
<1> QED BY <1>1, <1>2, StepShapes DEF SlotInv

\* Row j stays where it is, and with whom.
SameHolder(j) ==
    /\ rows[j].state # "absent" => rows'[j].state # "absent"
    /\ rows'[j].claimedBy = rows[j].claimedBy

\* UPDATE ... WHERE intent_id = i, of columns that are neither the claim nor the state.
LEMMA UpdateHolds ==
    ASSUME TypeOK, NEW i \in Intents, NEW new \in Row, new.state # "absent",
           new.claimedBy = rows[i].claimedBy, rows' = Update(i, new)
    PROVE  \A j \in Intents : SameHolder(j)
  BY DEF Update, TypeOK, SameHolder

\* An attempt gives up the claim of its own row only, and is not awaited afterwards.
LEMMA AttemptHolds ==
    ASSUME SlotInv, NEW a \in Attempts, AttemptNext(a)
    PROVE  \A j \in Intents : \/ SameHolder(j)
                              \/ /\ j = Intent(a) /\ Unsettled(a) /\ ~Unsettled(a)'
                                 /\ rows[j].state # "absent" => rows'[j].state # "absent"
<1> USE DEF table, chains
<1> DEFINE i == Intent(a)
           Kept == \A j \in Intents : SameHolder(j)
           Given == \A j \in Intents :
                       /\ j # i => SameHolder(j)
                       /\ rows[j].state # "absent" => rows'[j].state # "absent"
<1>0. TypeOK /\ i \in Intents /\ rows[i] \in Row /\ task[a] \in Task
  BY AttemptParts DEF SlotInv, TypeOK
<1>u. UNCHANGED rows => Kept
  BY DEF SameHolder
<1>w. ASSUME NEW new \in Row, new.state = rows[i].state, new.claimedBy = rows[i].claimedBy,
             rows' = Update(i, new)
      PROVE  Kept
  BY <1>0, <1>w DEF Update, TypeOK, SameHolder
<1>d. ASSUME NEW why \in {"rejected", "preStore", "return"}, rows' = Dead(i, why) PROVE Kept
  <2> DEFINE new == [rows[i] EXCEPT !.state = "dead", !.bytes = FALSE, !.lastError = why]
  <2>1. new \in Row /\ new.state # "absent" /\ new.claimedBy = rows[i].claimedBy
    BY <1>0 DEF Row, Terminal
  <2>2. rows' = Update(i, new)
    BY <1>d DEF Dead
  <2> HIDE DEF new
  <2> QED BY <1>0, <2>1, <2>2, UpdateHolds
<1>b. ASSUME NEW limit \in Nat, NEW why \in {"preStore", "return"}, RetryOrBury(a, limit, why)
      PROVE  Kept \/ Given
  <2>1. CASE rows' = Reschedule(i, task[a].attempts + 1)
    <3> DEFINE new == [rows[i] EXCEPT !.attempts = task[a].attempts + 1, !.due = FALSE,
                                      !.claimedBy = None]
    <3>1. new.state = rows[i].state
      BY <1>0 DEF Row
    <3>2. rows' = Update(i, new)
      BY <2>1 DEF Reschedule
    <3> HIDE DEF new
    <3>3. Given
      BY <1>0, <3>1, <3>2 DEF Update, SameHolder, TypeOK
    <3> QED BY <3>3
  <2>2. CASE rows' = Dead(i, why)
    BY <1>d, <2>2
  <2> QED BY <1>b, <2>1, <2>2 DEF RetryOrBury
<1>1. CASE Consider(a) \/ GetCommitment(a) \/ Upload(a) \/ ExecuteStore(a) \/ SendProof(a)
           \/ ConfirmExecution(a) \/ StepFails(a)
  <2>1. UNCHANGED rows
    BY <1>1 DEF Consider, GetCommitment, Upload, ExecuteStore, SendProof, ConfirmExecution, StepFails
  <2> QED BY <1>u, <2>1
<1>2. CASE Check(a)
  <2>1. UNCHANGED rows \/ rows' = Dead(i, "rejected")
    BY <1>2 DEF Check
  <2> QED BY <1>u, <1>d, <2>1
<1>3. CASE PersistUpload(a) \/ PersistStore(a) \/ RecordLedger(a) \/ FreeBytes(a) \/ MarkReturned(a)
  <2>1. \/ UNCHANGED rows
        \/ \E new \in {[rows[i] EXCEPT !.object = task[a].object], [rows[i] EXCEPT !.stored = TRUE],
                       [rows[i] EXCEPT !.ledgered = TRUE], [rows[i] EXCEPT !.bytes = FALSE],
                       [rows[i] EXCEPT !.returned = TRUE]} : rows' = Update(i, new)
    BY <1>3 DEF PersistUpload, PersistStore, RecordLedger, RecordCompletedStore, FreeBytes,
                MarkReturned
  <2> DEFINE Fits(new) == new \in Row /\ new.state = rows[i].state /\ new.claimedBy = rows[i].claimedBy
  <2>2. Fits([rows[i] EXCEPT !.object = task[a].object])
    BY <1>0 DEF Row, Task
  <2>3. Fits([rows[i] EXCEPT !.stored = TRUE])
    BY <1>0 DEF Row, Task
  <2>4. Fits([rows[i] EXCEPT !.ledgered = TRUE])
    BY <1>0 DEF Row, Task
  <2>5. Fits([rows[i] EXCEPT !.bytes = FALSE])
    BY <1>0 DEF Row, Task
  <2>6. Fits([rows[i] EXCEPT !.returned = TRUE])
    BY <1>0 DEF Row, Task
  <2> HIDE DEF Kept
  <2>7. rows' = Update(i, [rows[i] EXCEPT !.object = task[a].object]) => Kept
    BY <1>w, <2>2
  <2>8. rows' = Update(i, [rows[i] EXCEPT !.stored = TRUE]) => Kept
    BY <1>w, <2>3
  <2>9. rows' = Update(i, [rows[i] EXCEPT !.ledgered = TRUE]) => Kept
    BY <1>w, <2>4
  <2>10. rows' = Update(i, [rows[i] EXCEPT !.bytes = FALSE]) => Kept
    BY <1>w, <2>5
  <2>11. rows' = Update(i, [rows[i] EXCEPT !.returned = TRUE]) => Kept
    BY <1>w, <2>6
  <2>12. Kept
    BY <1>u, <2>1, <2>7, <2>8, <2>9, <2>10, <2>11
  <2> QED BY <2>12 DEF Kept
<1>4. CASE MarkDone(a)
  <2> DEFINE new == [rows[i] EXCEPT !.state = "done", !.bytes = FALSE]
  <2>1. new \in Row /\ new.state # "absent" /\ new.claimedBy = rows[i].claimedBy
    BY <1>0 DEF Row, Terminal
  <2>2. rows' = Update(i, new)
    BY <1>4 DEF MarkDone
  <2> HIDE DEF new
  <2> QED BY <1>0, <2>1, <2>2, UpdateHolds
<1>5. CASE HandleFailure(a) \/ TimesOut(a)
  <2>1. Unsettled(a) /\ ~Unsettled(a)'
    <3>1. CASE HandleFailure(a)
      <4>1. task'[a] = IdleTask /\ IdleTask.pc = "idle"
        BY <3>1 DEF HandleFailure, SlotInv, TypeOK, IdleTask
      <4>2. task[a].pc \in Failed
        BY <3>1 DEF HandleFailure
      <4>3. ~task[a].timedOut
        BY <4>2 DEF SlotInv, Running, Failed, Storing
      <4> QED BY <4>1, <4>2, <4>3 DEF Unsettled, Failed
    <3>2. CASE TimesOut(a)
      BY <1>0, <3>2 DEF TimesOut, Running, Unsettled, Storing, TypeOK, Task
    <3> QED BY <1>5, <3>1, <3>2
  <2>2. Kept \/ Given
    <3> HIDE DEF Kept, Given
    <3> QED BY <1>5, <1>b, <1>u, ConstantsAssumption DEF HandleFailure, TimesOut
  <2> QED BY <2>1, <2>2
<1> QED
  BY <1>1, <1>2, <1>3, <1>4, <1>5 DEF AttemptNext, Pipeline

\* A step leaves the claim of every row with an awaited attempt alone.
LEMMA HeldStep ==
    ASSUME Outlasted = {}, HeldInv, [Next]_vars
    PROVE  HeldInv'
<1> USE DEF table, processes, chains
<1>0. SlotInv /\ SlotInv' /\ TypeOK
  BY SlotStep DEF HeldInv, SlotInv
<1> SUFFICES ASSUME NEW b \in Attempts, Unsettled(b)' PROVE ClaimHeld(b)'
  BY <1>0 DEF HeldInv
<1> DEFINE j == Intent(b)
<1>j. j \in Intents /\ Proc(b) \in Procs /\ rows[j] \in Row /\ None \notin Procs
  BY <1>0, AttemptParts, ConstantsAssumption DEF TypeOK
<1>h. Unsettled(b) => ClaimHeld(b)
  BY DEF HeldInv
<1>k. Unsettled(b) /\ SameHolder(j) => ClaimHeld(b)'
  BY <1>h DEF SameHolder, ClaimHeld
<1>u. Unsettled(b) /\ rows'[j] = rows[j] => ClaimHeld(b)'
  BY <1>k DEF SameHolder
<1>1. ASSUME NEW a \in Attempts, AttemptNext(a) PROVE ClaimHeld(b)'
  <2>1. Unsettled(b)
    BY <1>0, <1>1, AttemptsSettle
  <2>2. CASE SameHolder(j)
    BY <1>k, <2>1, <2>2
  <2>3. CASE j = Intent(a) /\ Unsettled(a) /\ ~Unsettled(a)'
    <3>1. Proc(a) = Proc(b)
      BY <2>1, <2>3 DEF HeldInv, ClaimHeld
    <3>2. a = b
      BY <1>0, <2>1, <2>3, <3>1, SameAttempt DEF SlotInv
    <3> QED BY <2>3, <3>2
  <2> QED BY <1>0, <1>1, <1>j, <2>2, <2>3, AttemptHolds
<1>2. ASSUME NEW p \in Procs, NEW k \in Ticks, TickNext(p, k) PROVE ClaimHeld(b)'
  <2>1. CASE DrainDue(p, k)
    <3>1. PICK fresh \in SUBSET Attempts : Drains(p, k, fresh)
      BY <1>0, <2>1, DrainFresh
    <3>2. CASE b \in fresh
      <4>1. Claimable(j, p) /\ rows'[j] = [rows[j] EXCEPT !.claimedBy = p] /\ Proc(b) = p
        BY <3>1, <3>2 DEF Drains
      <4> QED BY <1>j, <4>1 DEF Claimable, ClaimHeld, Row
    <3>3. CASE b \notin fresh
      <4>1. Unsettled(b)
        BY <3>1, <3>3 DEF Drains, Unsettled
      <4>2. Proc(b) # p
        BY <1>0, <2>1, <4>1, DrainFresh
      <4>3. ~Claimable(j, p)
        BY <1>h, <1>j, <4>1, <4>2 DEF Claimable, ClaimHeld
      <4>4. rows'[j] = rows[j]
        BY <1>j, <2>1, <4>3 DEF DrainDue
      <4> QED BY <1>u, <4>1, <4>4
    <3> QED BY <3>2, <3>3
  <2>2. CASE TickFails(p, k)
    <3>1. task'[b] \in {task[b], IdleTask} /\ rows' = rows
      BY <2>2 DEF TickFails
    <3>2. task'[b] # IdleTask
      BY DEF Unsettled, IdleTask
    <3>3. Unsettled(b)
      BY <3>1, <3>2 DEF Unsettled
    <3> QED BY <1>u, <3>1, <3>3
  <2>3. CASE WatchdogElapses(p, k)
    BY <2>3 DEF WatchdogElapses
  <2> QED BY <1>2, <2>1, <2>2, <2>3 DEF TickNext
<1>3. ASSUME NEW i \in Intents, RowNext(i) PROVE ClaimHeld(b)'
  <2>1. Unsettled(b)
    BY <1>3 DEF RowNext, ObserveCommitment, UpsertBytes, MarkReceived, Backfill, ExpireUnreceived,
       PurgeTerminal, BackoffElapses, LeaseExpires, DeadlinePasses, Unsettled
  <2>2. CASE i # j
    <3>1. rows'[j] = rows[j]
      BY <1>0, <1>3, <1>j, <2>2 DEF RowNext, ObserveCommitment, UpsertBytes, MarkReceived, Backfill,
         RecordCompletedStore, Update, ExpireUnreceived, PurgeTerminal, BackoffElapses, LeaseExpires,
         DeadlinePasses, TypeOK
    <3> QED BY <1>u, <2>1, <3>1
  <2>3. CASE i = j
    <3>1. CASE ObserveCommitment(j) \/ DeadlinePasses(j)
      BY <1>u, <2>1, <3>1 DEF ObserveCommitment, DeadlinePasses
    <3>2. CASE UpsertBytes(j) \/ MarkReceived(j)
      <4>1. rows[j].state = "active"
        BY <1>h, <2>1, <3>2 DEF UpsertBytes, MarkReceived, ClaimHeld
      <4>2. rows'[j] \in {[rows[j] EXCEPT !.bytes = TRUE, !.blob = TRUE, !.deadline = TRUE],
                          [rows[j] EXCEPT !.received = TRUE, !.deadline = TRUE]}
        BY <1>0, <1>j, <3>2, <4>1 DEF UpsertBytes, MarkReceived, TypeOK
      <4>3. SameHolder(j)
        BY <1>j, <4>1, <4>2 DEF Row, SameHolder
      <4> QED BY <1>k, <2>1, <4>3
    <3>3. CASE Backfill(j)
      <4>1. rows'[j] \in {rows[j], [rows[j] EXCEPT !.ledgered = TRUE]}
        BY <1>0, <1>j, <3>3 DEF Backfill, RecordCompletedStore, Update, TypeOK
      <4>2. SameHolder(j)
        BY <1>j, <4>1 DEF Row, SameHolder
      <4> QED BY <1>k, <2>1, <4>2
    <3>4. CASE ExpireUnreceived(j)
      <4>1. rows'[j] = [rows[j] EXCEPT !.state = "expired", !.bytes = FALSE]
        BY <1>0, <1>j, <3>4 DEF ExpireUnreceived, Expired, TypeOK
      <4>2. SameHolder(j)
        BY <1>j, <4>1 DEF Row, SameHolder
      <4> QED BY <1>k, <2>1, <4>2
    <3>5. CASE PurgeTerminal(j)
      BY <2>1, <3>5 DEF PurgeTerminal, Unsettled
    <3>6. CASE BackoffElapses(j)
      <4>1. rows'[j] = [rows[j] EXCEPT !.due = TRUE]
        BY <1>0, <1>j, <3>6 DEF BackoffElapses, TypeOK
      <4>2. SameHolder(j)
        BY <1>j, <4>1 DEF Row, SameHolder
      <4> QED BY <1>k, <2>1, <4>2
    <3>7. CASE LeaseExpires(j)
      BY <1>h, <2>1, <3>7 DEF LeaseExpires, ClaimHeld
    <3> QED BY <1>3, <2>3, <3>1, <3>2, <3>3, <3>4, <3>5, <3>6, <3>7 DEF RowNext
  <2> QED BY <2>2, <2>3
<1>4. ASSUME NEW p \in Procs, Boot(p) \/ Crash(p) PROVE ClaimHeld(b)'
  <2>1. task'[b] \in {task[b], IdleTask} /\ rows' = rows
    BY <1>4 DEF Boot, Crash
  <2>2. task'[b] # IdleTask
    BY DEF Unsettled, IdleTask
  <2>3. Unsettled(b)
    BY <2>1, <2>2 DEF Unsettled
  <2> QED BY <1>u, <2>1, <2>3
<1>5. CASE ExpireDue
  <2>1. Unsettled(b)
    BY <1>5 DEF ExpireDue, Unsettled
  <2>2. rows'[j] \in {rows[j], [rows[j] EXCEPT !.state = "expired", !.bytes = FALSE]}
    BY <1>5, <1>j DEF ExpireDue, Expired
  <2>3. SameHolder(j)
    BY <1>j, <2>2 DEF Row, SameHolder
  <2> QED BY <1>k, <2>1, <2>3
<1>6. CASE UNCHANGED vars
  BY <1>6, <1>u DEF vars, Unsettled
<1> QED BY <1>1, <1>2, <1>3, <1>4, <1>5, <1>6 DEF Next

\* Two attempts that are still awaited never hold the same row, in one process or in two,
\* when every await ends within the watchdog, the lease and the retention window.
THEOREM AwaitedRowIsHeldOnce ==
    ASSUME Outlasted = {}
    PROVE  Spec => []AwaitedAttemptsDisjoint
<1>1. Init => HeldInv
  <2>1. Init => \A a \in Attempts : task[a].pc = "idle"
    BY DEF Init, IdleTask
  <2> QED BY <2>1, SlotInit DEF HeldInv, Unsettled
<1>2. HeldInv /\ [Next]_vars => HeldInv'
  BY HeldStep
<1>3. HeldInv => AwaitedAttemptsDisjoint
  <2> SUFFICES ASSUME HeldInv, NEW a \in Attempts, NEW b \in Attempts,
                      Running(a), ~task[a].timedOut, Running(b), ~task[b].timedOut,
                      Intent(a) = Intent(b)
               PROVE  a = b
    BY DEF AwaitedAttemptsDisjoint
  <2>1. Unsettled(a) /\ Unsettled(b)
    BY DEF Unsettled, Running, Storing
  <2>2. Proc(a) = Proc(b)
    BY <2>1 DEF HeldInv, ClaimHeld
  <2> QED BY <2>2 DEF HeldInv, SlotInv, ProcessRunsRowOnce
<1> QED BY <1>1, <1>2, <1>3, PTL DEF Spec

=============================================================================
