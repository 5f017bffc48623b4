--------------------------- MODULE SettlementProofs ---------------------------
(***************************************************************************)
(* Theorems about Settlement.  What EvmEscrowProofs proves of the escrow   *)
(* contract alone holds of it in the composition, by instantiation.        *)
(***************************************************************************)
EXTENDS Settlement, FiniteSetTheorems, TLAPS

EvmP == INSTANCE EvmEscrowProofs

USE SettlementAssumption, NoneAssumption

-----------------------------------------------------------------------------
(* The inductive invariant.                                                *)

HasObject == {"persistUpload", "executeStore", "persistStore", "sendProof"}
Persisted == {"executeStore", "persistStore"}
Recorded  == {"persistStore", "sendProof", "confirm", "markReturned", "markDone", "book",
              "failedPost"}

\* What the columns of a row claim is so.
RowsTellTheTruth ==
    \A id \in Ids :
        /\ rows[id].object # None => rows[id].object.blob = id.blob
        /\ rows[id].stored => rows[id].object # None /\ executedIntents[id] # None

\* So is what an attempt relies on.
AttemptsTellTheTruth ==
    \A id \in Ids :
        /\ attempt[id].pc # "idle" => rows[id].state # "absent"
        /\ attempt[id].pc = "decline" /\ rows[id].blob = id.blob => rows[id].object = None
        /\ attempt[id].pc = "upload" => rows[id].blob = id.blob
        /\ attempt[id].object # None => attempt[id].object.blob = id.blob
        /\ attempt[id].pc \in HasObject => attempt[id].object # None
        /\ attempt[id].pc \in Persisted => rows[id].object # None
        /\ attempt[id].pc \in Recorded => executedIntents[id] # None

\* A commitment on Sui was submitted, a proof packet is of a recorded store.
PacketsTellTheTruth ==
    /\ \A id \in Ids : receivedIntents[id] # None => id \in intents
    /\ \A p \in proofs :
          p.id \in intents /\ p.blob = p.id.blob /\ executedIntents[p.id] # None

SettlementInv ==
    /\ TypeOK
    /\ IsFiniteSet(proofs)
    /\ RowsTellTheTruth
    /\ AttemptsTellTheTruth
    /\ PacketsTellTheTruth

-----------------------------------------------------------------------------
(* The chains in the composition.                                          *)

\* The escrow contract's assumptions on its constants.
LEMMA EscrowConstants == EvmP!EscrowAssumption /\ EvmP!FinitenessAssumption
<1>1. EvmP!EscrowAssumption
  BY DEF SettlementAssumption, EvmP!EscrowAssumption
<1>2. EvmP!FinitenessAssumption
  BY Zenon DEF SettlementAssumption, EvmP!FinitenessAssumption, EvmP!IsFiniteSet, IsFiniteSet
<1> QED BY <1>1, <1>2

\* What a step of the composition does on the origin chain is a step of the contract.
LEMMA EscrowSteps == TypeOK /\ [Next]_vars => [EvmP!Next]_(EvmP!vars)
<1> SUFFICES ASSUME TypeOK, [Next]_vars PROVE EvmP!Next \/ UNCHANGED evm
  BY DEF evm, EvmP!vars, EvmP!intentState, EvmP!ledgers, EvmP!admin
<1>1. ASSUME NEW user \in Users, NEW blob \in Blobs, NEW deadline \in Deadlines,
             NEW value \in Payments, NEW fee \in Fees,
             Submit(user, blob, deadline, value, fee)
      PROVE  EvmP!Next
  <2>1. EvmP!SubmitIntent(user, blob, deadline, value, fee)
    BY <1>1 DEF Submit, Evm!SubmitIntent, EvmP!SubmitIntent, Evm!OpenEscrow, EvmP!OpenEscrow,
                Evm!admin, EvmP!admin
  <2> QED BY <2>1 DEF EvmP!Next
<1>2. ASSUME NEW proof \in proofs, DeliverProof(proof)
      PROVE  EvmP!Next
  <2>1. proof.id \in EvmP!Ids /\ proof.blob \in Blobs
    BY DEF TypeOK, Sui!TypeOK, Sui!Proofs, Evm!Ids, EvmP!Ids
  <2>2. EvmP!LzReceive(proof.id, proof.blob)
    BY <1>2 DEF DeliverProof, Evm!LzReceive, EvmP!LzReceive, Evm!MarkExecuted, EvmP!MarkExecuted,
                Evm!ReleaseEscrow, EvmP!ReleaseEscrow, Evm!Credit, EvmP!Credit,
                Evm!admin, EvmP!admin
  <2> QED BY <2>1, <2>2 DEF EvmP!Next, EvmP!IdNext
<1>3. ASSUME NEW id \in Ids, Confirm(id)
      PROVE  EvmP!Next \/ UNCHANGED evm
  <2>1. EvmP!ConfirmExecution(id) \/ UNCHANGED evm
    BY <1>3 DEF Confirm, Evm!ConfirmExecution, EvmP!ConfirmExecution, Evm!MarkExecuted,
                EvmP!MarkExecuted, Evm!ledgers, EvmP!ledgers, Evm!admin, EvmP!admin
  <2>2. id \in EvmP!Ids
    BY DEF Ids, Evm!Ids, EvmP!Ids
  <2> QED BY <2>1, <2>2 DEF EvmP!Next, EvmP!IdNext
<1>4. ASSUME OriginStep
      PROVE  EvmP!Next
  <2>1. ASSUME NEW id \in Ids, Evm!Refund(id) PROVE EvmP!Next
    <3>1. EvmP!Refund(id)
      BY <2>1 DEF Evm!Refund, EvmP!Refund, Evm!RefundEscrow, EvmP!RefundEscrow, Evm!Credit,
                  EvmP!Credit, Evm!intentState, EvmP!intentState, Evm!admin, EvmP!admin
    <3>2. id \in EvmP!Ids
      BY DEF Ids, Evm!Ids, EvmP!Ids
    <3> QED BY <3>1, <3>2 DEF EvmP!Next, EvmP!IdNext
  <2>2. ASSUME NEW account \in Evm!Accounts, NEW token \in Evm!Tokens,
               Evm!Withdraw(account, token)
        PROVE  EvmP!Next
    <3>1. EvmP!Withdraw(account, token)
      BY <2>2 DEF Evm!Withdraw, EvmP!Withdraw, Evm!intentState, EvmP!intentState, Evm!admin,
                  EvmP!admin
    <3>2. account \in EvmP!Accounts /\ token \in EvmP!Tokens
      BY <2>2 DEF Evm!Accounts, EvmP!Accounts, Evm!Tokens, EvmP!Tokens
    <3> QED BY <3>1, <3>2 DEF EvmP!Next
  <2>3. ASSUME NEW address \in Relayers, Evm!SetRelayer(address) PROVE EvmP!Next
    <3>1. EvmP!SetRelayer(address)
      BY <2>3 DEF Evm!SetRelayer, EvmP!SetRelayer, Evm!intentState, EvmP!intentState,
                  Evm!ledgers, EvmP!ledgers
    <3> QED BY <3>1 DEF EvmP!Next
  <2>4. ASSUME Evm!NextBlock PROVE EvmP!Next
    <3>1. EvmP!NextBlock
      BY <2>4 DEF Evm!NextBlock, EvmP!NextBlock, Evm!intentState, EvmP!intentState,
                  Evm!ledgers, EvmP!ledgers, Evm!admin, EvmP!admin
    <3> QED BY <3>1 DEF EvmP!Next
  <2> QED BY <1>4, <2>1, <2>2, <2>3, <2>4 DEF OriginStep
<1>5. ASSUME NEW id \in Ids, DeliverIntent(id) \/ (RelayerStep(id) /\ ~Confirm(id))
      PROVE  UNCHANGED evm
  BY <1>5 DEF DeliverIntent, RelayerStep, Pipeline, Stage, Reject, Decline, Start, Upload, PersistUpload,
              ExecuteStore, PersistStore, SendProof, QuoteFails, MarkReturned, MarkDone, Book,
              CallFails, HandleFailure, TimesOut, Expire
<1>6. ASSUME SuiStep \/ Crash PROVE UNCHANGED evm
  BY <1>6 DEF SuiStep, Crash
<1>7. UNCHANGED vars => UNCHANGED evm
  BY DEF vars
<1> QED BY <1>1, <1>2, <1>3, <1>4, <1>5, <1>6, <1>7 DEF Next
\* The records of the composition have the fields of their types.
LEMMA Parts ==
    ASSUME TypeOK, NEW id \in Ids
    PROVE  /\ id \in Evm!Ids /\ id.blob \in Blobs /\ id.deadline \in Nat
           /\ rows[id] \in Row /\ attempt[id] \in Attempt
           /\ rows[id].blob \in Blobs
           /\ rows[id].object # None => rows[id].object \in Sui!BlobObjects
           /\ attempt[id].object # None => attempt[id].object \in Sui!BlobObjects
           /\ attempt[id].object # None =>
                attempt[id].object.blob \in Blobs /\ attempt[id].object.endEpoch \in Nat
<1>1. id \in Evm!Ids /\ id.blob \in Blobs /\ id.deadline \in Nat
  BY DEF Ids, Evm!Ids, SettlementAssumption
<1>2. rows[id] \in Row /\ attempt[id] \in Attempt
  BY DEF TypeOK, RelayerTypeOK
<1>3. attempt[id].object \in Sui!BlobObjects \union {None}
  BY <1>2 DEF Attempt
<1> QED BY <1>1, <1>2, <1>3 DEF Row, Sui!BlobObjects

\* The object an upload registers.
LEMMA NewBlobType ==
    ASSUME TypeOK, NEW blob \in Blobs, Sui!WriteBlob(blob, StoreEpochs)
    PROVE  /\ Sui!NewBlob(blob, StoreEpochs) \in Sui!BlobObjects
           /\ Sui!NewBlob(blob, StoreEpochs).blob = blob
<1>1. StoreEpochs \in Nat
  BY DEF StoreEpochs, SettlementAssumption
<1>2. uploads + 1 \in 1 .. MaxUploads /\ epoch + StoreEpochs \in Nat
  BY <1>1 DEF Sui!WriteBlob, TypeOK, Sui!TypeOK, SettlementAssumption
<1> QED BY <1>2 DEF Sui!NewBlob, Sui!BlobObjects

SuiKept ==
    /\ Sui!TypeOK'
    /\ IsFiniteSet(proofs)'
    /\ \A id \in Ids : executedIntents[id] # None => executedIntents'[id] # None

\* Every step keeps the tables of Sui well typed and what is recorded there recorded.
LEMMA SuiSteps ==
    ASSUME TypeOK, IsFiniteSet(proofs), AttemptsTellTheTruth, [Next]_vars
    PROVE  SuiKept
<1>1. ASSUME NEW id \in Ids, DeliverIntent(id) PROVE SuiKept
  <2> DEFINE c == [blob |-> id.blob, epochs |-> StorageEpochs, deadline |-> id.deadline]
  <2>1. c \in Sui!Commitments
    BY Parts DEF Sui!Commitments, SettlementAssumption
  <2>2. id \in Evm!Ids
    BY Parts
  <2> QED BY <1>1, <2>1, <2>2
          DEF DeliverIntent, Sui!lz_receive, SuiKept, TypeOK, Sui!TypeOK, Sui!walrus, Sui!roles
<1>2. ASSUME NEW id \in Ids, Upload(id) PROVE SuiKept
  <2>1. Sui!WriteBlob(rows[id].blob, StoreEpochs)
    BY <1>2 DEF Upload
  <2>2. Sui!NewBlob(rows[id].blob, StoreEpochs) \in Sui!BlobObjects
    BY <2>1, Parts, NewBlobType
  <2> QED BY <2>1, <2>2 DEF Sui!WriteBlob, SuiKept, TypeOK, Sui!TypeOK, Sui!tables, Sui!roles
<1>3. ASSUME NEW id \in Ids, ExecuteStore(id) PROVE SuiKept
  <2>1. CASE UNCHANGED sui
    BY <2>1 DEF sui, SuiKept, TypeOK, Sui!TypeOK
  <2>2. CASE Sui!execute_store(Self, id, attempt[id].object)
    <3>1. attempt[id].object \in Sui!BlobObjects /\ id \in Evm!Ids
      BY <2>2, Parts DEF Sui!execute_store, Sui!MayExecute, TypeOK, Sui!TypeOK
    <3>2. attempt[id].object # None
      BY <3>1, NoneAssumption DEF NoneAssumption
    <3> QED BY <2>2, <3>1, <3>2 DEF Sui!execute_store, SuiKept, TypeOK, Sui!TypeOK, Sui!roles
  <2> QED BY <1>3, <2>1, <2>2 DEF ExecuteStore
<1>4. ASSUME NEW id \in Ids, SendProof(id) PROVE SuiKept
  <2>1. CASE UNCHANGED sui
    BY <2>1 DEF sui, SuiKept, TypeOK, Sui!TypeOK
  <2>2. CASE Sui!lz_send_proof(Self, id, attempt[id].object.blob, attempt[id].object.endEpoch)
    <3> DEFINE p == [id |-> id, blob |-> attempt[id].object.blob,
                     endEpoch |-> attempt[id].object.endEpoch, nonce |-> Cardinality(proofs) + 1]
    <3>1. attempt[id].object # None
      BY <1>4 DEF SendProof, AttemptsTellTheTruth, HasObject
    <3>2. Cardinality(proofs) \in Nat
      BY FS_CardinalityType
    <3>3. p \in Sui!Proofs
      BY <3>1, <3>2, Parts DEF Sui!Proofs
    <3>4. IsFiniteSet(proofs \union {p})
      BY FS_AddElement
    <3>5. proofs' = proofs \union {p}
      BY <2>2 DEF Sui!lz_send_proof, Cardinality, Sui!Cardinality, IsFiniteSet, Sui!IsFiniteSet
    <3> QED BY <2>2, <3>3, <3>4, <3>5
            DEF Sui!lz_send_proof, SuiKept, TypeOK, Sui!TypeOK, Sui!walrus, Sui!roles
  <2> QED BY <1>4, <2>1, <2>2 DEF SendProof, QuoteFails
<1>5. ASSUME SuiStep PROVE SuiKept
  BY <1>5 DEF SuiStep, Sui!Environment, Sui!Tick, Sui!NextEpoch, Sui!SetReceiverRelayer,
              Sui!SetExecutorRelayer, SuiKept, TypeOK, Sui!TypeOK, Sui!walrus, Sui!tables,
              Sui!roles, SettlementAssumption
<1>6. ASSUME UNCHANGED sui PROVE SuiKept
  BY <1>6 DEF sui, SuiKept, TypeOK, Sui!TypeOK
<1>7. ASSUME NEW id \in Ids, RelayerStep(id), ~Upload(id), ~ExecuteStore(id), ~SendProof(id)
      PROVE  UNCHANGED sui
  BY <1>7 DEF RelayerStep, Pipeline, Stage, Reject, Decline, Start, PersistUpload, PersistStore, Confirm,
              MarkReturned, MarkDone, Book, CallFails, HandleFailure, TimesOut, Expire
<1>8. ASSUME NEW user \in Users, NEW blob \in Blobs, NEW deadline \in Deadlines,
             NEW value \in Payments, NEW fee \in Fees,
             Submit(user, blob, deadline, value, fee)
      PROVE  UNCHANGED sui
  BY <1>8 DEF Submit
<1>9. ASSUME NEW proof \in proofs, DeliverProof(proof) PROVE UNCHANGED sui
  BY <1>9 DEF DeliverProof
<1>10. ASSUME OriginStep \/ Crash \/ UNCHANGED vars PROVE UNCHANGED sui
  BY <1>10 DEF OriginStep, Crash, vars
<1> QED BY <1>1, <1>2, <1>3, <1>4, <1>5, <1>6, <1>7, <1>8, <1>9, <1>10 DEF Next
-----------------------------------------------------------------------------
(* The relayer.                                                            *)

RelayerKept == RelayerTypeOK' /\ RowsTellTheTruth' /\ AttemptsTellTheTruth'

\* What must hold of the row and of the attempt a step leaves behind.
RowClaims(id, row) ==
    /\ row.object # None => row.object.blob = id.blob
    /\ row.stored => row.object # None /\ executedIntents'[id] # None

AttemptClaims(id, row, a) ==
    /\ a.pc # "idle" => row.state # "absent"
    /\ a.pc = "decline" /\ row.blob = id.blob => row.object = None
    /\ a.pc = "upload" => row.blob = id.blob
    /\ a.object # None => a.object.blob = id.blob
    /\ a.pc \in HasObject => a.object # None
    /\ a.pc \in Persisted => row.object # None
    /\ a.pc \in Recorded => executedIntents'[id] # None

\* A step that changes one row and one attempt keeps the relayer's part of the
\* invariant when the two it leaves behind are right.
LEMMA OneRow ==
    ASSUME SettlementInv, SuiKept, NEW id \in Ids, NEW row \in Row, NEW a \in Attempt,
           rows' = [rows EXCEPT ![id] = row],
           attempt' = [attempt EXCEPT ![id] = a],
           pnl' \in [Ids -> PnlEntries \union {None}],
           uncounted' \in [Ids -> 0 .. MaxUncounted],
           RowClaims(id, row), AttemptClaims(id, row, a)
    PROVE  RelayerKept
<1>1. rows \in [Ids -> Row] /\ attempt \in [Ids -> Attempt]
  BY DEF SettlementInv, TypeOK, RelayerTypeOK
<1>2. RelayerTypeOK'
  BY <1>1 DEF RelayerTypeOK
<1>3. rows'[id] = row /\ attempt'[id] = a
  BY <1>1
<1>4. \A j \in Ids : j # id => rows'[j] = rows[j] /\ attempt'[j] = attempt[j]
  BY <1>1
<1>5. \A j \in Ids : executedIntents[j] # None => executedIntents'[j] # None
  BY DEF SuiKept
<1>6. RowsTellTheTruth'
  <2> SUFFICES ASSUME NEW j \in Ids
               PROVE  /\ rows'[j].object # None => rows'[j].object.blob = j.blob
                      /\ rows'[j].stored => rows'[j].object # None /\ executedIntents'[j] # None
    BY DEF RowsTellTheTruth
  <2>1. CASE j = id
    BY <2>1, <1>3 DEF RowClaims
  <2>2. CASE j # id
    BY <2>2, <1>4, <1>5 DEF SettlementInv, RowsTellTheTruth
  <2> QED BY <2>1, <2>2
<1>7. AttemptsTellTheTruth'
  <2> SUFFICES ASSUME NEW j \in Ids
               PROVE  /\ attempt'[j].pc # "idle" => rows'[j].state # "absent"
                      /\ attempt'[j].pc = "decline" /\ rows'[j].blob = j.blob =>
                           rows'[j].object = None
                      /\ attempt'[j].pc = "upload" => rows'[j].blob = j.blob
                      /\ attempt'[j].object # None => attempt'[j].object.blob = j.blob
                      /\ attempt'[j].pc \in HasObject => attempt'[j].object # None
                      /\ attempt'[j].pc \in Persisted => rows'[j].object # None
                      /\ attempt'[j].pc \in Recorded => executedIntents'[j] # None
    BY DEF AttemptsTellTheTruth
  <2>1. CASE j = id
    BY <2>1, <1>3 DEF AttemptClaims
  <2>2. CASE j # id
    BY <2>2, <1>4, <1>5 DEF SettlementInv, AttemptsTellTheTruth
  <2> QED BY <2>1, <2>2
<1> QED BY <1>2, <1>6, <1>7 DEF RelayerKept

\* What is right before a step stays right on Sui.
LEMMA OldClaims ==
    ASSUME SettlementInv, SuiKept, NEW id \in Ids
    PROVE  /\ rows \in [Ids -> Row] /\ attempt \in [Ids -> Attempt]
           /\ pnl \in [Ids -> PnlEntries \union {None}]
           /\ uncounted \in [Ids -> 0 .. MaxUncounted]
           /\ rows = [rows EXCEPT ![id] = rows[id]]
           /\ attempt = [attempt EXCEPT ![id] = attempt[id]]
           /\ RowClaims(id, rows[id]) /\ AttemptClaims(id, rows[id], attempt[id])
<1>1. rows \in [Ids -> Row] /\ attempt \in [Ids -> Attempt]
      /\ pnl \in [Ids -> PnlEntries \union {None}] /\ uncounted \in [Ids -> 0 .. MaxUncounted]
  BY DEF SettlementInv, TypeOK, RelayerTypeOK
<1>2. RowClaims(id, rows[id]) /\ AttemptClaims(id, rows[id], attempt[id])
  BY DEF SettlementInv, RowsTellTheTruth, AttemptsTellTheTruth, SuiKept, RowClaims, AttemptClaims
<1> QED BY <1>1, <1>2

\* The same for the step that changes the attempt alone, its place only.
LEMMA OnlyGoto ==
    ASSUME SettlementInv, SuiKept, NEW id \in Ids, attempt[id].pc # "idle",
           NEW pc \in {"persistUpload", "executeStore", "persistStore", "sendProof", "confirm",
                       "markReturned", "markDone", "book", "failedPre", "failedPost"},
           Goto(id, pc), UNCHANGED <<rows, pnl, uncounted>>,
           pc \in HasObject => attempt[id].object # None,
           pc \in Persisted => rows[id].object # None,
           pc \in Recorded => executedIntents'[id] # None
    PROVE  RelayerKept
<1> DEFINE a == [attempt[id] EXCEPT !.pc = pc]
<1>1. attempt' = [attempt EXCEPT ![id] = a] /\ rows' = [rows EXCEPT ![id] = rows[id]]
  BY OldClaims DEF Goto
<1>2. a \in Attempt /\ a.pc = pc /\ a.object = attempt[id].object /\ rows[id] \in Row
  <2>1. attempt[id] \in Attempt /\ rows[id] \in Row
    BY OldClaims
  <2> QED BY <2>1 DEF Attempt
<1>3. AttemptClaims(id, rows[id], a) /\ RowClaims(id, rows[id])
  BY <1>2, OldClaims DEF AttemptClaims
<1> HIDE DEF a
<1> QED BY <1>1, <1>2, <1>3, OldClaims, OneRow
\* Ending an attempt, with any row that is right.
LEMMA ToIdle ==
    ASSUME SettlementInv, SuiKept, NEW id \in Ids, NEW row \in Row, RowClaims(id, row),
           rows' = [rows EXCEPT ![id] = row],
           attempt' = [attempt EXCEPT ![id] = Idle],
           pnl' \in [Ids -> PnlEntries \union {None}],
           uncounted' \in [Ids -> 0 .. MaxUncounted]
    PROVE  RelayerKept
<1>1. Idle \in Attempt /\ AttemptClaims(id, row, Idle)
  BY DEF Idle, Attempt, AttemptClaims, HasObject, Persisted, Recorded
<1> QED BY <1>1, OneRow

\* What counting an attempt does to the row and the counter.
LEMMA CountEffect ==
    ASSUME SettlementInv, SuiKept, NEW id \in Ids, NEW limit \in Nat, Count(id, limit)
    PROVE  /\ uncounted' \in [Ids -> 0 .. MaxUncounted]
           /\ \E row \in Row :
                 /\ rows' = [rows EXCEPT ![id] = row]
                 /\ RowClaims(id, row)
                 /\ row.state # rows[id].state => row.state = "dead"
                 /\ row.blob = rows[id].blob
                 /\ row.object = rows[id].object
<1>0. rows[id] \in Row /\ rows[id].attempts \in Nat /\ RowClaims(id, rows[id])
  BY OldClaims DEF Row
<1>1. CASE RetryOrBury(id, limit) /\ UNCHANGED uncounted
  <2>1. CASE rows[id].attempts + 1 >= limit
    <3> DEFINE row == [rows[id] EXCEPT !.state = "dead"]
    <3>1. row \in Row /\ rows' = [rows EXCEPT ![id] = row] /\ RowClaims(id, row)
          /\ row.state = "dead" /\ row.blob = rows[id].blob /\ row.object = rows[id].object
      BY <1>0, <1>1, <2>1, OldClaims DEF RetryOrBury, Row, RowClaims
    <3> HIDE DEF row
    <3> QED BY <1>1, <3>1, OldClaims
  <2>2. CASE ~(rows[id].attempts + 1 >= limit)
    <3> DEFINE row == [rows[id] EXCEPT !.attempts = @ + 1]
    <3>1. row \in Row /\ rows' = [rows EXCEPT ![id] = row] /\ RowClaims(id, row)
          /\ row.state = rows[id].state /\ row.blob = rows[id].blob /\ row.object = rows[id].object
      BY <1>0, <1>1, <2>2, OldClaims DEF RetryOrBury, Row, RowClaims
    <3> HIDE DEF row
    <3> QED BY <1>1, <3>1, OldClaims
  <2> QED BY <2>1, <2>2
<1>2. CASE Uncounted(id)
  <2>1. uncounted' \in [Ids -> 0 .. MaxUncounted]
    BY <1>2, OldClaims DEF Uncounted, SettlementAssumption
  <2>2. rows' = [rows EXCEPT ![id] = rows[id]]
    BY <1>2, OldClaims DEF Uncounted
  <2> QED BY <1>0, <2>1, <2>2
<1> QED BY <1>1, <1>2 DEF Count

\* A new entry of the P&L ledger is one.
LEMMA RecordType ==
    ASSUME RelayerTypeOK, NEW id \in Ids, NEW entry \in PnlEntries, Record(id, entry)
    PROVE  pnl' \in [Ids -> PnlEntries \union {None}]
  BY DEF Record, RelayerTypeOK

\* The steps around store(): staging, the checks before it spends, the reaper.
LEMMA ChecksKeep ==
    ASSUME SettlementInv, SuiKept, NEW id \in Ids,
           \/ \E blob \in Blobs : Stage(id, blob)
           \/ Reject(id)
           \/ Decline(id)
           \/ Start(id)
           \/ Expire(id)
    PROVE  RelayerKept
<1>0. /\ rows[id] \in Row /\ attempt[id] \in Attempt /\ RowClaims(id, rows[id])
      /\ AttemptClaims(id, rows[id], attempt[id])
      /\ RelayerTypeOK /\ TypeOK
  BY OldClaims DEF SettlementInv, TypeOK
<1>1. ASSUME NEW blob \in Blobs, Stage(id, blob) PROVE RelayerKept
  <2> DEFINE row == [rows[id] EXCEPT !.state = "active", !.blob = blob]
  <2>1. row \in Row /\ RowClaims(id, row)
    BY <1>0 DEF Row, RowClaims
  <2>2. AttemptClaims(id, row, attempt[id])
    BY <1>0, <1>1 DEF Row, Attempt, AttemptClaims, Stage
  <2>3. rows' = [rows EXCEPT ![id] = row] /\ attempt' = [attempt EXCEPT ![id] = attempt[id]]
        /\ UNCHANGED <<pnl, uncounted>>
    BY <1>1, OldClaims DEF Stage
  <2> HIDE DEF row
  <2> QED BY <1>0, <2>1, <2>2, <2>3, OldClaims, OneRow
<1>2. ASSUME Reject(id) PROVE RelayerKept
  <2> DEFINE a == [pc |-> "decline", object |-> rows[id].object, decision |-> None,
                   late |-> FALSE]
  <2>1. /\ rows[id].state = "active"
        /\ rows[id].blob = id.blob => rows[id].object = None
    BY <1>2 DEF Reject, Claimed, Guarded
  <2>2. a \in Attempt
    BY <1>0 DEF Row, Attempt
  <2>3. AttemptClaims(id, rows[id], a)
    BY <1>0, <2>1 DEF AttemptClaims, RowClaims, HasObject, Persisted, Recorded
  <2>4. rows' = [rows EXCEPT ![id] = rows[id]] /\ attempt' = [attempt EXCEPT ![id] = a]
        /\ UNCHANGED <<pnl, uncounted>>
    BY <1>2, OldClaims DEF Reject
  <2> HIDE DEF a
  <2> QED BY <1>0, <2>2, <2>3, <2>4, OldClaims, OneRow
<1>3. ASSUME Decline(id) PROVE RelayerKept
  <2> DEFINE row  == [rows[id] EXCEPT !.state = "dead"]
             skip == [status |-> "skipped", collected |-> 0, spent |-> 0]
             a    == [attempt[id] EXCEPT !.pc = "failedPre"]
  <2>1. row \in Row /\ RowClaims(id, row) /\ row.state = "dead"
    BY <1>0 DEF Row, RowClaims
  <2>2. rows' = [rows EXCEPT ![id] = row] /\ UNCHANGED uncounted
    BY <1>3, OldClaims DEF Decline, MarkDead
  <2>3. skip \in PnlEntries
    BY DEF PnlEntries
  <2>4. pnl' \in [Ids -> PnlEntries \union {None}]
    <3>1. UNCHANGED pnl \/ Record(id, skip)
      BY <1>3 DEF Decline, RecordSkip
    <3> HIDE DEF skip
    <3> QED BY <1>0, <2>3, <3>1, OldClaims, RecordType
  <2>5. a \in Attempt /\ AttemptClaims(id, row, a)
    BY <1>0, <2>1 DEF Attempt, AttemptClaims, HasObject, Persisted, Recorded
  <2>6. attempt' = [attempt EXCEPT ![id] = Idle] \/ attempt' = [attempt EXCEPT ![id] = a]
    BY <1>3, OldClaims DEF Decline, Goto
  <2>7. uncounted' \in [Ids -> 0 .. MaxUncounted]
    BY <2>2, OldClaims
  <2> HIDE DEF row, skip, a
  <2>8. CASE attempt' = [attempt EXCEPT ![id] = Idle]
    BY <2>1, <2>2, <2>4, <2>7, <2>8, ToIdle
  <2>9. CASE attempt' = [attempt EXCEPT ![id] = a]
    BY <2>1, <2>2, <2>4, <2>5, <2>7, <2>9, OneRow
  <2> QED BY <2>6, <2>8, <2>9
<1>4. ASSUME Expire(id) PROVE RelayerKept
  <2> DEFINE row == [rows[id] EXCEPT !.state = "expired"]
  <2>1. row \in Row /\ RowClaims(id, row) /\ AttemptClaims(id, row, attempt[id])
    BY <1>0 DEF Row, RowClaims, AttemptClaims
  <2>2. rows' = [rows EXCEPT ![id] = row] /\ attempt' = [attempt EXCEPT ![id] = attempt[id]]
        /\ UNCHANGED <<pnl, uncounted>>
    BY <1>4, OldClaims DEF Expire
  <2> HIDE DEF row
  <2> QED BY <1>0, <2>1, <2>2, OldClaims, OneRow
<1>5. ASSUME Start(id) PROVE RelayerKept
  <2>1. PICK decision \in {None} \union GuardDecisions(id), pc \in {Resume(rows[id]), "failedPre"} :
           attempt' = [attempt EXCEPT ![id] = [pc |-> pc, object |-> rows[id].object,
                                               decision |-> decision, late |-> FALSE]]
    BY <1>5 DEF Start
  <2> DEFINE a == [pc |-> pc, object |-> rows[id].object, decision |-> decision, late |-> FALSE]
  <2>2. rows[id].object \in Sui!BlobObjects \union {None}
        /\ rows[id].stored \in BOOLEAN /\ rows[id].returned \in BOOLEAN
    BY <1>0 DEF Row
  <2>3. \/ pc = "upload" \/ pc = "failedPre"
        \/ pc = "executeStore" /\ rows[id].object # None
        \/ pc \in {"sendProof", "markDone"} /\ rows[id].stored
    BY <2>1, <2>2 DEF Resume
  <2>4. decision \in Decisions \union {None}
    <3>1. escrows[id].amount \in Nat
      BY <1>0 DEF TypeOK, Evm!TypeOK, Evm!Escrow, Ids
    <3>2. \A cost \in Costs : [collected |-> escrows[id].amount, spent |-> cost] \in Decisions
      BY <3>1 DEF Decisions, SettlementAssumption
    <3> QED BY <2>1, <3>2 DEF GuardDecisions
  <2>5. a \in Attempt
    BY <2>2, <2>3, <2>4 DEF Attempt
  <2>6. AttemptClaims(id, rows[id], a)
    BY <1>0, <1>5, <2>3 DEF AttemptClaims, RowClaims, Start, Claimed, HasObject, Persisted,
                                Recorded
  <2>7. rows' = [rows EXCEPT ![id] = rows[id]] /\ attempt' = [attempt EXCEPT ![id] = a]
        /\ UNCHANGED <<pnl, uncounted>>
    BY <1>5, <2>1, OldClaims DEF Start
  <2> HIDE DEF a
  <2> QED BY <1>0, <2>5, <2>6, <2>7, OldClaims, OneRow
<1> QED BY <1>1, <1>2, <1>3, <1>4, <1>5
\* The calls of store() after the checks.
LEMMA PipelineKeeps ==
    ASSUME SettlementInv, SuiKept, NEW id \in Ids, Pipeline(id)
    PROVE  RelayerKept
<1>0. /\ rows[id] \in Row /\ attempt[id] \in Attempt /\ RowClaims(id, rows[id])
      /\ AttemptClaims(id, rows[id], attempt[id])
      /\ RelayerTypeOK /\ TypeOK
  BY OldClaims DEF SettlementInv, TypeOK
<1>1. ASSUME Upload(id) PROVE RelayerKept
  <2> DEFINE object == Sui!NewBlob(rows[id].blob, StoreEpochs)
  <2>1. PICK pc \in {"persistUpload", "failedPre"} :
           attempt' = [attempt EXCEPT ![id].pc = pc, ![id].object = object]
    BY <1>1 DEF Upload
  <2>2. rows[id].blob \in Blobs /\ rows[id].blob = id.blob /\ rows[id].state # "absent"
    BY <1>0, <1>1, Parts DEF Upload, AttemptClaims
  <2>3. object \in Sui!BlobObjects /\ object.blob = id.blob /\ object # None
    <3>1. object \in Sui!BlobObjects /\ object.blob = id.blob
      BY <1>0, <1>1, <2>2, NewBlobType DEF Upload
    <3> HIDE DEF object
    <3> QED BY <3>1 DEF NoneAssumption
  <2> HIDE DEF object
  <2> DEFINE a == [attempt[id] EXCEPT !.pc = pc, !.object = object]
  <2>4. a \in Attempt /\ a.pc = pc /\ a.object = object
    BY <1>0, <2>1, <2>3 DEF Attempt
  <2>5. AttemptClaims(id, rows[id], a)
    BY <2>1, <2>2, <2>3, <2>4 DEF AttemptClaims, Persisted, Recorded
  <2>6. rows' = [rows EXCEPT ![id] = rows[id]] /\ UNCHANGED <<pnl, uncounted>>
    BY <1>1, OldClaims DEF Upload
  <2>7. attempt' = [attempt EXCEPT ![id] = a]
    BY <2>1, OldClaims
  <2> HIDE DEF a
  <2> QED BY <1>0, <2>4, <2>5, <2>6, <2>7, OldClaims, OneRow
<1>2. ASSUME NEW row \in Row, rows' = [rows EXCEPT ![id] = row], RowClaims(id, row),
             row.state # "absent", NEW pc \in {"executeStore", "sendProof", "markDone", "book"},
             Landed(id, pc), UNCHANGED <<pnl, uncounted>>,
             pc \in HasObject => attempt[id].object # None,
             pc \in Persisted => row.object # None,
             pc \in Recorded => executedIntents'[id] # None
      PROVE  RelayerKept
  <2>1. PICK next \in {pc, "failedPre"} : Goto(id, next)
    BY <1>2 DEF Landed
  <2> DEFINE a == [attempt[id] EXCEPT !.pc = next]
  <2>2. a \in Attempt /\ a.pc = next /\ a.object = attempt[id].object
        /\ attempt' = [attempt EXCEPT ![id] = a]
    BY <1>0, <1>2, <2>1, OldClaims DEF Attempt, Goto
  <2>3. AttemptClaims(id, row, a)
    BY <1>0, <1>2, <2>1, <2>2 DEF AttemptClaims, HasObject, Persisted, Recorded
  <2> HIDE DEF a
  <2> QED BY <1>2, <2>2, <2>3, OldClaims, OneRow
<1>3. ASSUME PersistUpload(id) PROVE RelayerKept
  <2> DEFINE row == [rows[id] EXCEPT !.object = attempt[id].object]
  <2>1. attempt[id].object \in Sui!BlobObjects /\ attempt[id].object # None
        /\ attempt[id].object.blob = id.blob /\ rows[id].state # "absent"
    BY <1>0, <1>3, Parts DEF PersistUpload, AttemptClaims, HasObject
  <2>2. row \in Row /\ RowClaims(id, row) /\ row.state # "absent" /\ row.object # None
    BY <1>0, <2>1 DEF Row, RowClaims
  <2>3. rows' = [rows EXCEPT ![id] = row]
    BY <1>3, OldClaims DEF PersistUpload
  <2> HIDE DEF row
  <2> QED BY <1>2, <1>3, <2>1, <2>2, <2>3 DEF PersistUpload, Recorded
<1>4. ASSUME PersistStore(id) PROVE RelayerKept
  <2> DEFINE row == [rows[id] EXCEPT !.stored = TRUE]
  <2>1. attempt[id].object # None /\ executedIntents'[id] # None /\ rows[id].state # "absent"
        /\ rows[id].object # None
    BY <1>0, <1>4 DEF PersistStore, AttemptClaims, HasObject, Persisted, Recorded
  <2>2. row \in Row /\ RowClaims(id, row) /\ row.state # "absent"
    BY <1>0, <2>1 DEF Row, RowClaims
  <2>3. rows' = [rows EXCEPT ![id] = row]
    BY <1>4, OldClaims DEF PersistStore
  <2> HIDE DEF row
  <2> QED BY <1>2, <1>4, <2>1, <2>2, <2>3 DEF PersistStore, Persisted
<1>5. ASSUME MarkReturned(id) PROVE RelayerKept
  <2> DEFINE row == [rows[id] EXCEPT !.returned = TRUE]
  <2>1. executedIntents'[id] # None /\ rows[id].state # "absent"
    BY <1>0, <1>5 DEF MarkReturned, AttemptClaims, Recorded
  <2>2. row \in Row /\ RowClaims(id, row) /\ row.state # "absent"
    BY <1>0, <2>1 DEF Row, RowClaims
  <2>3. rows' = [rows EXCEPT ![id] = row]
    BY <1>5, OldClaims DEF MarkReturned
  <2> HIDE DEF row
  <2> QED BY <1>2, <1>5, <2>1, <2>2, <2>3 DEF MarkReturned, HasObject, Persisted
<1>6. ASSUME MarkDone(id) PROVE RelayerKept
  <2> DEFINE row == [rows[id] EXCEPT !.state = "done"]
  <2>1. executedIntents'[id] # None
    BY <1>0, <1>6 DEF MarkDone, AttemptClaims, Recorded
  <2>2. row \in Row /\ RowClaims(id, row) /\ row.state # "absent"
    BY <1>0, <2>1 DEF Row, RowClaims
  <2>3. rows' = [rows EXCEPT ![id] = row]
    BY <1>6, OldClaims DEF MarkDone
  <2> HIDE DEF row
  <2> QED BY <1>2, <1>6, <2>1, <2>2, <2>3 DEF MarkDone, HasObject, Persisted
<1>7. ASSUME ExecuteStore(id) PROVE RelayerKept
  <2>1. PICK pc \in {"persistStore", "failedPre"} : Goto(id, pc)
    BY <1>7 DEF ExecuteStore, Landed
  <2>2. attempt[id].pc # "idle" /\ attempt[id].object # None /\ rows[id].object # None
        /\ UNCHANGED <<rows, pnl, uncounted>>
    BY <1>0, <1>7 DEF ExecuteStore, AttemptClaims, HasObject, Persisted
  <2>3. executedIntents'[id] # None \/ pc = "failedPre"
    <3>1. executedIntents \in [Ids -> Sui!BlobObjects \union {None}]
      BY <1>0 DEF TypeOK, Sui!TypeOK, Ids
    <3>2. CASE Sui!execute_store(Self, id, attempt[id].object)
      BY <2>2, <3>1, <3>2 DEF Sui!execute_store
    <3>3. CASE Sui!AbortsAlreadyExecuted(Self, id, attempt[id].object) /\ UNCHANGED sui
      BY <3>3 DEF Sui!AbortsAlreadyExecuted, sui
    <3> QED BY <1>7, <3>2, <3>3 DEF ExecuteStore
  <2> QED BY <2>1, <2>2, <2>3, OnlyGoto DEF Recorded
<1>8. ASSUME SendProof(id) PROVE RelayerKept
  <2>1. PICK pc \in {"markReturned", "confirm"} : Goto(id, pc)
    BY <1>8 DEF SendProof, QuoteFails
  <2>2. attempt[id].pc # "idle" /\ executedIntents'[id] # None
        /\ UNCHANGED <<rows, pnl, uncounted>>
    BY <1>0, <1>8 DEF SendProof, QuoteFails, AttemptClaims, Recorded
  <2> QED BY <2>1, <2>2, OnlyGoto DEF HasObject, Persisted
<1>9. ASSUME Confirm(id) PROVE RelayerKept
  <2>1. PICK pc \in {"markReturned", "failedPost"} : Goto(id, pc)
    BY <1>9 DEF Confirm
  <2>2. attempt[id].pc # "idle" /\ executedIntents'[id] # None
        /\ UNCHANGED <<rows, pnl, uncounted>>
    BY <1>0, <1>9 DEF Confirm, AttemptClaims, Recorded
  <2> QED BY <2>1, <2>2, OnlyGoto DEF HasObject, Persisted
<1>10. ASSUME Book(id) PROVE RelayerKept
  <2>1. pnl' \in [Ids -> PnlEntries \union {None}]
    <3>1. CASE attempt[id].decision = None
      BY <1>10, <3>1, OldClaims DEF Book
    <3>2. CASE attempt[id].decision # None
      <4> DEFINE entry == [status |-> "completed", collected |-> attempt[id].decision.collected,
                           spent |-> attempt[id].decision.spent]
      <4>1. attempt[id].decision \in Decisions
        BY <1>0, <3>2 DEF Attempt
      <4>2. entry \in PnlEntries
        BY <4>1 DEF Decisions, PnlEntries
      <4>3. Record(id, entry)
        BY <1>10, <3>2 DEF Book, RecordCompletion
      <4> HIDE DEF entry
      <4> QED BY <1>0, <4>2, <4>3, RecordType
    <3> QED BY <3>1, <3>2
  <2>2. rows' = [rows EXCEPT ![id] = rows[id]] /\ attempt' = [attempt EXCEPT ![id] = Idle]
        /\ UNCHANGED uncounted
    BY <1>10, OldClaims DEF Book
  <2> QED BY <1>0, <2>1, <2>2, OldClaims, ToIdle
<1> QED BY <1>1, <1>3, <1>4, <1>5, <1>6, <1>7, <1>8, <1>9, <1>10 DEF Pipeline
\* How an attempt ends without success.
LEMMA EndingsKeep ==
    ASSUME SettlementInv, SuiKept, NEW id \in Ids,
           CallFails(id) \/ HandleFailure(id) \/ TimesOut(id)
    PROVE  RelayerKept
<1>0. /\ rows[id] \in Row /\ attempt[id] \in Attempt /\ RowClaims(id, rows[id])
      /\ AttemptClaims(id, rows[id], attempt[id])
  BY OldClaims
<1>1. ASSUME CallFails(id) PROVE RelayerKept
  BY <1>1, OnlyGoto DEF CallFails, HasObject, Persisted, Recorded
<1>2. ASSUME HandleFailure(id) PROVE RelayerKept
  <2>1. attempt' = [attempt EXCEPT ![id] = Idle] /\ UNCHANGED pnl
    BY <1>2 DEF HandleFailure
  <2>2. CASE attempt[id].late
    <3>1. rows' = rows /\ uncounted' = uncounted
      BY <1>2, <2>2 DEF HandleFailure
    <3>2. rows' = [rows EXCEPT ![id] = rows[id]]
      BY <3>1, OldClaims
    <3>3. pnl' \in [Ids -> PnlEntries \union {None}] /\ uncounted' \in [Ids -> 0 .. MaxUncounted]
      BY <2>1, <3>1, OldClaims
    <3> QED BY <1>0, <2>1, <3>2, <3>3, ToIdle
  <2>3. CASE ~attempt[id].late
    <3> DEFINE limit == IF attempt[id].pc = "failedPost" THEN ReturnMaxAttempts
                                                         ELSE MaxStoreAttempts
    <3>1. limit \in Nat /\ Count(id, limit)
      BY <1>2, <2>3 DEF HandleFailure, SettlementAssumption
    <3> HIDE DEF limit
    <3> QED BY <2>1, <3>1, CountEffect, OldClaims, ToIdle
  <2> QED BY <2>2, <2>3
<1>3. ASSUME TimesOut(id) PROVE RelayerKept
  <2> DEFINE a == [attempt[id] EXCEPT !.late = TRUE]
  <2>1. Count(id, MaxStoreAttempts) /\ MaxStoreAttempts \in Nat
    BY <1>3 DEF TimesOut, SettlementAssumption
  <2>2. uncounted' \in [Ids -> 0 .. MaxUncounted]
    BY <2>1, CountEffect
  <2>3. PICK row \in Row : /\ rows' = [rows EXCEPT ![id] = row]
                           /\ RowClaims(id, row)
                           /\ row.state # rows[id].state => row.state = "dead"
                           /\ row.blob = rows[id].blob
                           /\ row.object = rows[id].object
    BY <2>1, CountEffect
  <2>4. a \in Attempt /\ AttemptClaims(id, row, a)
    <3>1. a \in Attempt /\ a.pc = attempt[id].pc /\ a.object = attempt[id].object
      BY <1>0 DEF Attempt
    <3>2. row.state # "absent" \/ row.state = rows[id].state
      BY <2>3
    <3> QED BY <1>0, <2>3, <3>1, <3>2 DEF AttemptClaims
  <2>5. attempt' = [attempt EXCEPT ![id] = a] /\ UNCHANGED pnl
    BY <1>3, OldClaims DEF TimesOut
  <2> HIDE DEF a
  <2> QED BY <2>2, <2>3, <2>4, <2>5, OldClaims, OneRow
<1> QED BY <1>1, <1>2, <1>3

\* A crash forgets the attempts, and rows need none.
LEMMA CrashKeeps ==
    ASSUME SettlementInv, SuiKept, Crash
    PROVE  RelayerKept
<1>1. RelayerTypeOK'
  <2>1. Idle \in Attempt
    BY DEF Idle, Attempt
  <2>2. \A id \in Ids : uncounted'[id] \in 0 .. MaxUncounted
    BY DEF Crash, SettlementInv, TypeOK, RelayerTypeOK, SettlementAssumption
  <2>3. uncounted' \in [Ids -> 0 .. MaxUncounted]
    BY <2>2 DEF Crash
  <2> QED BY <2>1, <2>3 DEF Crash, SettlementInv, TypeOK, RelayerTypeOK
<1>2. RowsTellTheTruth'
  BY DEF Crash, SettlementInv, RowsTellTheTruth, SuiKept
<1>3. AttemptsTellTheTruth'
  BY DEF Crash, Idle, AttemptsTellTheTruth, HasObject, Persisted, Recorded
<1> QED BY <1>1, <1>2, <1>3 DEF RelayerKept

\* Every step keeps the relayer's part of the invariant.
LEMMA RelayerSteps ==
    ASSUME SettlementInv, SuiKept, [Next]_vars
    PROVE  RelayerKept
<1>1. ASSUME NEW id \in Ids, RelayerStep(id) PROVE RelayerKept
  BY <1>1, ChecksKeep, PipelineKeeps, EndingsKeep DEF RelayerStep
<1>2. ASSUME UNCHANGED relayer PROVE RelayerKept
  BY <1>2 DEF relayer, RelayerKept, SettlementInv, TypeOK, RelayerTypeOK, RowsTellTheTruth,
              AttemptsTellTheTruth, SuiKept
<1>3. ASSUME NEW user \in Users, NEW blob \in Blobs, NEW deadline \in Deadlines,
             NEW value \in Payments, NEW fee \in Fees,
             Submit(user, blob, deadline, value, fee)
      PROVE  UNCHANGED relayer
  BY <1>3 DEF Submit
<1>4. ASSUME NEW id \in Ids, DeliverIntent(id) PROVE UNCHANGED relayer
  BY <1>4 DEF DeliverIntent
<1>5. ASSUME NEW proof \in proofs, DeliverProof(proof) PROVE UNCHANGED relayer
  BY <1>5 DEF DeliverProof
<1>6. ASSUME OriginStep \/ SuiStep \/ UNCHANGED vars PROVE UNCHANGED relayer
  BY <1>6 DEF OriginStep, SuiStep, vars
<1> QED BY <1>1, <1>2, <1>3, <1>4, <1>5, <1>6, CrashKeeps DEF Next

-----------------------------------------------------------------------------
(* The packets, and the invariant.                                         *)

\* A submission is never taken back.
LEMMA IntentsGrow == TypeOK /\ [Next]_vars => intents \subseteq intents'
  BY EscrowConstants, EscrowSteps, EvmP!NothingUndone

\* Every step keeps what commitments and proof packets say.
LEMMA PacketSteps ==
    ASSUME SettlementInv, SuiKept, [Next]_vars
    PROVE  PacketsTellTheTruth'
<1>1. /\ intents \subseteq intents'
      /\ \A id \in Ids : executedIntents[id] # None => executedIntents'[id] # None
      /\ \A p \in proofs : p.id \in Ids
      /\ receivedIntents \in [Ids -> Sui!Commitments \union {None}]
  BY IntentsGrow DEF SettlementInv, SuiKept, TypeOK, Sui!TypeOK, Sui!Proofs, Ids
<1>2. ASSUME UNCHANGED <<receivedIntents, proofs>> PROVE PacketsTellTheTruth'
  BY <1>1, <1>2 DEF SettlementInv, PacketsTellTheTruth
<1>3. ASSUME NEW id \in Ids, DeliverIntent(id) PROVE PacketsTellTheTruth'
  BY <1>1, <1>3 DEF DeliverIntent, Sui!lz_receive, SettlementInv, PacketsTellTheTruth
<1>4. ASSUME NEW id \in Ids, SendProof(id) PROVE PacketsTellTheTruth'
  <2>1. CASE UNCHANGED sui
    BY <1>2, <2>1 DEF sui
  <2>2. CASE Sui!lz_send_proof(Self, id, attempt[id].object.blob, attempt[id].object.endEpoch)
    <3>1. /\ attempt[id].object.blob = id.blob
          /\ executedIntents[id] # None
          /\ receivedIntents[id] # None
      BY <1>4, <2>2 DEF SendProof, QuoteFails, Sui!lz_send_proof, SettlementInv,
                        AttemptsTellTheTruth, HasObject, Recorded
    <3>2. id \in intents
      BY <3>1 DEF SettlementInv, PacketsTellTheTruth
    <3>3. \A p \in proofs' \ proofs : p.id = id /\ p.blob = id.blob
      BY <2>2, <3>1 DEF Sui!lz_send_proof
    <3>4. UNCHANGED receivedIntents
      BY <2>2 DEF Sui!lz_send_proof
    <3> QED BY <1>1, <3>1, <3>2, <3>3, <3>4 DEF SettlementInv, PacketsTellTheTruth
  <2> QED BY <1>4, <2>1, <2>2 DEF SendProof, QuoteFails
<1>5. ASSUME NEW id \in Ids, RelayerStep(id), ~SendProof(id)
      PROVE  UNCHANGED <<receivedIntents, proofs>>
  BY <1>5 DEF RelayerStep, Pipeline, Stage, Reject, Decline, Start, Upload, PersistUpload, ExecuteStore,
              PersistStore, Confirm, MarkReturned, MarkDone, Book, CallFails, HandleFailure,
              TimesOut, Expire, Sui!WriteBlob, Sui!execute_store, Sui!tables, sui
<1>6. ASSUME NEW user \in Users, NEW blob \in Blobs, NEW deadline \in Deadlines,
             NEW value \in Payments, NEW fee \in Fees,
             Submit(user, blob, deadline, value, fee)
      PROVE  UNCHANGED <<receivedIntents, proofs>>
  BY <1>6 DEF Submit, sui
<1>7. ASSUME NEW proof \in proofs, DeliverProof(proof)
      PROVE  UNCHANGED <<receivedIntents, proofs>>
  BY <1>7 DEF DeliverProof, sui
<1>8. ASSUME OriginStep \/ SuiStep \/ Crash \/ UNCHANGED vars
      PROVE  UNCHANGED <<receivedIntents, proofs>>
  BY <1>8 DEF OriginStep, SuiStep, Crash, vars, sui, Sui!Environment, Sui!Tick, Sui!NextEpoch,
              Sui!SetReceiverRelayer, Sui!SetExecutorRelayer, Sui!tables
<1> QED BY <1>2, <1>3, <1>4, <1>5, <1>6, <1>7, <1>8 DEF Next
\* The contract and the contract its theorems are about have one type invariant.
LEMMA SameEscrowTypes == Evm!TypeOK <=> EvmP!TypeOK
  BY DEF Evm!TypeOK, EvmP!TypeOK, Evm!Ids, EvmP!Ids, Evm!Escrow, EvmP!Escrow, Evm!Accounts,
         EvmP!Accounts, Evm!Tokens, EvmP!Tokens

\* The invariant holds at the start,
LEMMA InvInit == Init => SettlementInv
<1> SUFFICES ASSUME Init PROVE SettlementInv
  OBVIOUS
<1>1. Evm!TypeOK
  <2>1. EvmP!Init
    BY DEF Init, Evm!Init, EvmP!Init, Evm!Ids, EvmP!Ids, Evm!NoEscrow, EvmP!NoEscrow,
           Evm!Tokens, EvmP!Tokens, Evm!Accounts, EvmP!Accounts
  <2> QED BY <2>1, EscrowConstants, SameEscrowTypes, EvmP!TypeInit
<1>2. Sui!TypeOK
  BY DEF Init, Sui!Init, Sui!TypeOK, SettlementAssumption
<1>3. RelayerTypeOK
  <2>1. Idle \in Attempt
    BY DEF Idle, Attempt
  <2>2. \A id \in Ids : [state |-> "absent", blob |-> id.blob, object |-> None, stored |-> FALSE,
                         returned |-> FALSE, attempts |-> 0] \in Row
    BY DEF Row, Ids, Evm!Ids
  <2> QED BY <2>1, <2>2 DEF Init, RelayerTypeOK, SettlementAssumption
<1>4. IsFiniteSet(proofs)
  BY FS_EmptySet DEF Init, Sui!Init
<1>5. RowsTellTheTruth /\ AttemptsTellTheTruth
  BY DEF Init, Idle, RowsTellTheTruth, AttemptsTellTheTruth, HasObject, Persisted, Recorded
<1>6. PacketsTellTheTruth
  BY DEF Init, Sui!Init, PacketsTellTheTruth, Ids
<1> QED BY <1>1, <1>2, <1>3, <1>4, <1>5, <1>6 DEF SettlementInv, TypeOK

\* and every step keeps it.
LEMMA InvStep == SettlementInv /\ [Next]_vars => SettlementInv'
<1> SUFFICES ASSUME SettlementInv, [Next]_vars PROVE SettlementInv'
  OBVIOUS
<1>1. SuiKept
  BY SuiSteps DEF SettlementInv
<1>2. Evm!TypeOK'
  <2>1. EvmP!TypeOK
    BY SameEscrowTypes DEF SettlementInv, TypeOK
  <2>2. EvmP!TypeOK'
    BY <2>1, EscrowSteps, EscrowConstants, EvmP!TypeStep DEF SettlementInv
  <2> QED BY <2>2
          DEF Evm!TypeOK, EvmP!TypeOK, Evm!Ids, EvmP!Ids, Evm!Escrow, EvmP!Escrow, Evm!Accounts,
              EvmP!Accounts, Evm!Tokens, EvmP!Tokens
<1>3. RelayerKept /\ PacketsTellTheTruth'
  BY <1>1, RelayerSteps, PacketSteps
<1> QED BY <1>1, <1>2, <1>3 DEF SettlementInv, TypeOK, SuiKept, RelayerKept

\* The invariant holds throughout.
THEOREM Settled == Spec => []SettlementInv
<1> QED BY InvInit, InvStep, PTL DEF Spec

\* Types are kept: in particular a submission cannot escrow less than nothing.
THEOREM TypeCorrect == Spec => []TypeOK
<1>1. SettlementInv => TypeOK
  BY DEF SettlementInv
<1> QED BY <1>1, Settled, PTL

\* A proof packet names a submitted intent and its committed blob, whatever failed, timed
\* out or crashed before lzSendProof.
THEOREM AcceptableProofs == Spec => []ProofsAreAcceptable
<1>1. SettlementInv => ProofsAreAcceptable
  BY DEF SettlementInv, PacketsTellTheTruth, ProofsAreAcceptable
<1> QED BY <1>1, Settled, PTL

-----------------------------------------------------------------------------
(* The refinement.                                                         *)

Stored  == {id \in Ids : executedIntents[id] # None}
PaymentOf(status) == CASE status = "None"     -> "none"
                       [] status = "Pending"  -> "held"
                       [] status = "Released" -> "relayer"
                       [] status = "Refunded" -> "payer"
Payment == [id \in Ids |-> PaymentOf(escrows[id].status)]

\* Moving one escrow to another status moves one payment.
LEMMA PaymentMoves ==
    ASSUME NEW id \in Ids, NEW to \in {"held", "relayer", "payer"},
           \A j \in Ids \ {id} : escrows'[j].status = escrows[j].status,
           \/ escrows'[id].status = "Pending" /\ to = "held"
           \/ escrows'[id].status = "Released" /\ to = "relayer"
           \/ escrows'[id].status = "Refunded" /\ to = "payer"
    PROVE  Payment' = [Payment EXCEPT ![id] = to]
<1>1. Payment'[id] = to
  BY DEF Payment, PaymentOf
<1>2. \A j \in Ids \ {id} : Payment'[j] = Payment[j]
  BY DEF Payment
<1> QED BY <1>1, <1>2 DEF Payment

\* The initial states are initial states of the bargain,
LEMMA BargainInit == Init => Bargain!Init
<1> SUFFICES ASSUME Init PROVE Bargain!Init
  OBVIOUS
<1>1. \A id \in Ids : executedIntents[id] = None
  BY DEF Init, Sui!Init, Ids
<1>2. \A id \in Ids : escrows[id].status = "None"
  BY DEF Init, Evm!Init, Evm!NoEscrow, Ids
<1> QED BY <1>1, <1>2 DEF Bargain!Init

\* and every step is a step of the bargain or leaves it alone: a submission pays, a
\* proof earns, a refund gives back, execute_store stores.
LEMMA BargainStep == SettlementInv /\ [Next]_vars => [Bargain!Next]_<<Stored, Payment>>
<1> SUFFICES ASSUME SettlementInv, [Next]_vars
             PROVE  Bargain!Next \/ UNCHANGED <<Stored, Payment>>
  OBVIOUS
<1>0. /\ TypeOK
      /\ escrows \in [Ids -> Evm!Escrow]
      /\ executedIntents \in [Ids -> Sui!BlobObjects \union {None}]
  BY DEF SettlementInv, TypeOK, Evm!TypeOK, Sui!TypeOK, Ids
<1>1. ASSUME NEW user \in Users, NEW blob \in Blobs, NEW deadline \in Deadlines,
             NEW value \in Payments, NEW fee \in Fees,
             Submit(user, blob, deadline, value, fee)
      PROVE  Bargain!Next
  <2> DEFINE id == [sender |-> user, nonce |-> nonces[user], blob |-> blob,
                    deadline |-> deadline]
  <2>1. id \in Ids
    <3>1. nonces[user] \in 0 .. MaxNonce - 1
      BY <1>0, <1>1 DEF TypeOK, Evm!TypeOK, Submit, Evm!SubmitIntent, SettlementAssumption
    <3> QED BY <3>1 DEF Ids, Evm!Ids
  <2>2. /\ escrows[id].status = "None"
        /\ escrows' = [escrows EXCEPT ![id] = [status |-> "Pending", payer |-> user,
                                               token |-> "native", amount |-> value - fee,
                                               deadline |-> deadline]]
        /\ UNCHANGED executedIntents
    BY <1>1 DEF Submit, Evm!SubmitIntent, Evm!OpenEscrow, sui
  <2> HIDE DEF id
  <2>3. Payment' = [Payment EXCEPT ![id] = "held"]
    BY <1>0, <2>1, <2>2, PaymentMoves
  <2>4. Payment[id] = "none" /\ UNCHANGED Stored
    BY <2>1, <2>2 DEF Payment, PaymentOf, Stored
  <2> QED BY <2>1, <2>3, <2>4 DEF Bargain!Next, Bargain!Pay, Payment, PaymentOf, Stored
<1>2. ASSUME NEW proof \in proofs, DeliverProof(proof)
      PROVE  Bargain!Next
  <2> DEFINE id == proof.id
  <2>1. id \in Ids /\ executedIntents[id] # None
    BY <1>0 DEF TypeOK, Sui!TypeOK, Sui!Proofs, Ids, SettlementInv, PacketsTellTheTruth
  <2>2. /\ escrows[id].status = "Pending"
        /\ escrows' = [escrows EXCEPT ![id].status = "Released"]
        /\ UNCHANGED executedIntents
    BY <1>2 DEF DeliverProof, Evm!LzReceive, Evm!ReleaseEscrow, sui
  <2> HIDE DEF id
  <2>3. escrows'[id].status = "Released" /\ \A j \in Ids \ {id} : escrows'[j] = escrows[j]
    BY <1>0, <2>1, <2>2 DEF Evm!Escrow
  <2>4. Payment' = [Payment EXCEPT ![id] = "relayer"]
    BY <1>0, <2>1, <2>3, PaymentMoves
  <2>5. Payment[id] = "held" /\ id \in Stored /\ UNCHANGED Stored
    BY <2>1, <2>2 DEF Payment, PaymentOf, Stored
  <2> QED BY <2>1, <2>4, <2>5 DEF Bargain!Next, Bargain!Earn, Payment, PaymentOf, Stored
<1>3. ASSUME NEW id \in Ids, Evm!Refund(id), UNCHANGED sui
      PROVE  Bargain!Next
  <2>1. /\ escrows[id].status = "Pending"
        /\ escrows' = [escrows EXCEPT ![id].status = "Refunded"]
        /\ UNCHANGED executedIntents
    BY <1>3 DEF Evm!Refund, Evm!RefundEscrow, sui
  <2>2. escrows'[id].status = "Refunded" /\ \A j \in Ids \ {id} : escrows'[j] = escrows[j]
    BY <1>0, <2>1 DEF Evm!Escrow
  <2>3. Payment' = [Payment EXCEPT ![id] = "payer"]
    BY <1>0, <2>2, PaymentMoves
  <2>4. Payment[id] = "held" /\ UNCHANGED Stored
    BY <2>1 DEF Payment, PaymentOf, Stored
  <2> QED BY <2>3, <2>4 DEF Bargain!Next, Bargain!GiveBack, Payment, PaymentOf, Stored
<1>4. ASSUME NEW id \in Ids, Sui!execute_store(Self, id, attempt[id].object), UNCHANGED evm
      PROVE  Bargain!Next
  <2>1. attempt[id].object # None
    BY <1>0, <1>4 DEF Sui!execute_store, Sui!MayExecute, TypeOK, Sui!TypeOK, NoneAssumption
  <2>2. Stored' = Stored \union {id}
    BY <1>0, <1>4, <2>1 DEF Sui!execute_store, Stored
  <2>3. UNCHANGED Payment
    BY <1>4 DEF evm, Payment
  <2> QED BY <2>2, <2>3 DEF Bargain!Next, Bargain!Store, Payment, PaymentOf, Stored
<1>5. ASSUME UNCHANGED <<escrows, executedIntents>> PROVE UNCHANGED <<Stored, Payment>>
  BY <1>5 DEF Stored, Payment
<1>6. ASSUME OriginStep, \A id \in Ids : ~Evm!Refund(id)
      PROVE  UNCHANGED <<escrows, executedIntents>>
  BY <1>6 DEF OriginStep, Evm!Withdraw, Evm!SetRelayer, Evm!NextBlock, Evm!ledgers, sui
<1>7. ASSUME NEW id \in Ids, DeliverIntent(id) \/ RelayerStep(id), ~ExecuteStore(id)
      PROVE  UNCHANGED <<escrows, executedIntents>>
  BY <1>7 DEF DeliverIntent, RelayerStep, Pipeline, Stage, Reject, Decline, Start, Upload, PersistUpload,
              PersistStore, SendProof, QuoteFails, Confirm, MarkReturned, MarkDone, Book,
              CallFails, HandleFailure, TimesOut, Expire, Sui!WriteBlob, Sui!lz_receive,
              Sui!lz_send_proof, Sui!tables, Evm!ConfirmExecution, Evm!ledgers, evm, sui
<1>8. ASSUME SuiStep \/ Crash \/ UNCHANGED vars PROVE UNCHANGED <<escrows, executedIntents>>
  BY <1>8 DEF SuiStep, Crash, vars, evm, sui, Sui!Environment, Sui!Tick, Sui!NextEpoch,
              Sui!SetReceiverRelayer, Sui!SetExecutorRelayer, Sui!tables
<1>9. ASSUME NEW id \in Ids, ExecuteStore(id)
      PROVE  Bargain!Next \/ UNCHANGED <<escrows, executedIntents>>
  BY <1>4, <1>9 DEF ExecuteStore, evm, sui
<1>10. OriginStep => UNCHANGED sui
  BY DEF OriginStep
<1> QED BY <1>1, <1>2, <1>3, <1>5, <1>6, <1>7, <1>8, <1>9, <1>10 DEF Next

\* Settlement implements StorageBargain: the relayer earns a payment only for an intent
\* whose blob execute_store accepted, and a payment goes to one side once, for any number of
\* intents and whatever is lost, late, retried or crashed.
THEOREM BargainKept == Spec => KeepsTheBargain
<1>1. Init => Bargain!Init
  BY BargainInit
<1>2. SettlementInv /\ [Next]_vars => [Bargain!Next]_<<Stored, Payment>>
  BY BargainStep
<1> QED BY <1>1, <1>2, Settled, PTL
        DEF Spec, KeepsTheBargain, Bargain!Spec, Stored, Payment, PaymentOf

-----------------------------------------------------------------------------
(* The P&L ledger.                                                         *)

Answered(id) == id \in executed \/ \E p \in proofs : p.id = id

\* Past the return leg.
Answering == {"markReturned", "markDone", "book"}

\* Why an entry is true when it is made: what execute_store recorded was persisted as
\* uploaded before, the return leg was answered before its column or the steps after it say
\* so, a decision to store covers its cost.  Why a skipped entry stays true: the row is
\* dead and has no attempt, so nothing of the relayer touches it again.
Books(id) ==
    /\ executedIntents[id] # None => rows[id].object # None
    /\ rows[id].returned => Answered(id)
    /\ attempt[id].pc \in Answering => Answered(id)
    /\ attempt[id].decision # None => attempt[id].decision.collected >= attempt[id].decision.spent
    /\ pnl[id] # None =>
         IF pnl[id].status = "completed"
         THEN pnl[id].collected >= pnl[id].spent /\ executedIntents[id] # None /\ Answered(id)
         ELSE rows[id].state = "dead" /\ attempt[id].pc = "idle" /\ executedIntents[id] = None

Earned(id) == escrows[id].status = "Released" => executedIntents[id] # None

BooksInv == SettlementInv /\ \A id \in Ids : Books(id) /\ Earned(id)

\* Neither chain takes an answer back.
LEMMA AnswersGrow ==
    ASSUME TypeOK, [Next]_vars, NEW id, Answered(id)
    PROVE  Answered(id)'
<1>1. executed \subseteq executed'
  BY EscrowConstants, EscrowSteps, EvmP!NothingUndone
<1>2. proofs \subseteq proofs'
  <2>1. ASSUME NEW j \in Ids, SendProof(j) PROVE proofs \subseteq proofs'
    BY <2>1 DEF SendProof, QuoteFails, Sui!lz_send_proof, sui
  <2>2. ASSUME NEW j \in Ids, DeliverIntent(j) \/ (RelayerStep(j) /\ ~SendProof(j))
        PROVE  UNCHANGED proofs
    BY <2>2 DEF DeliverIntent, Sui!lz_receive, RelayerStep, Pipeline, Stage, Reject, Decline, Start, Upload,
                PersistUpload, ExecuteStore, PersistStore, Confirm, MarkReturned, MarkDone, Book,
                CallFails, HandleFailure, TimesOut, Expire, Sui!WriteBlob, Sui!execute_store,
                Sui!tables, sui
  <2>3. ASSUME NEW user \in Users, NEW blob \in Blobs, NEW deadline \in Deadlines,
               NEW value \in Payments, NEW fee \in Fees,
               Submit(user, blob, deadline, value, fee)
        PROVE  UNCHANGED proofs
    BY <2>3 DEF Submit, sui
  <2>4. ASSUME NEW proof \in proofs, DeliverProof(proof) PROVE UNCHANGED proofs
    BY <2>4 DEF DeliverProof, sui
  <2>5. ASSUME OriginStep \/ SuiStep \/ Crash \/ UNCHANGED vars PROVE UNCHANGED proofs
    BY <2>5 DEF OriginStep, SuiStep, Crash, vars, sui, Sui!Environment, Sui!Tick, Sui!NextEpoch,
                Sui!SetReceiverRelayer, Sui!SetExecutorRelayer, Sui!tables
  <2> QED BY <2>1, <2>2, <2>3, <2>4, <2>5 DEF Next
<1> QED BY <1>1, <1>2 DEF Answered

\* An escrow is released only for a stored intent: the bargain says so.
LEMMA EarnedStep ==
    ASSUME BooksInv, SuiKept, [Next]_vars, NEW id \in Ids
    PROVE  Earned(id)'
<1> SUFFICES ASSUME escrows'[id].status = "Released", executedIntents[id] = None PROVE FALSE
  BY DEF Earned, SuiKept
<1>1. escrows[id].status # "Released"
  BY DEF BooksInv, Earned
<1>2. escrows[id].status \in {"None", "Pending", "Released", "Refunded"}
  BY DEF BooksInv, SettlementInv, TypeOK, Evm!TypeOK, Evm!Escrow, Ids
<1>3. Payment'[id] = "relayer" /\ Payment[id] # "relayer"
  BY <1>1, <1>2 DEF Payment, PaymentOf
<1>4. [Bargain!Next]_<<Stored, Payment>>
  BY BargainStep DEF BooksInv
<1>5. PICK j \in Ids : Bargain!Pay(j) \/ Bargain!Store(j) \/ Bargain!Earn(j) \/ Bargain!GiveBack(j)
  BY <1>3, <1>4 DEF Bargain!Next
<1>6. /\ Bargain!Pay(j) => Payment' = [Payment EXCEPT ![j] = "held"]
      /\ Bargain!Store(j) => Payment' = Payment
      /\ Bargain!Earn(j) => j \in Stored /\ Payment' = [Payment EXCEPT ![j] = "relayer"]
      /\ Bargain!GiveBack(j) => Payment' = [Payment EXCEPT ![j] = "payer"]
  BY DEF Bargain!Pay, Bargain!Store, Bargain!Earn, Bargain!GiveBack, Payment, PaymentOf, Stored
<1>7. Payment = [k \in Ids |-> Payment[k]]
  BY DEF Payment
<1>8. j = id /\ j \in Stored
  BY <1>3, <1>5, <1>6, <1>7
<1> QED BY <1>8 DEF Stored

\* A step of an attempt that is under way, and that books nothing.
LEMMA BooksOnward ==
    ASSUME BooksInv, SuiKept, NEW id \in Ids, attempt[id].pc # "idle",
           pnl'[id] = pnl[id],
           Answered(id) => Answered(id)',
           attempt'[id].decision \in {attempt[id].decision, None},
           rows[id].object # None => rows'[id].object # None,
           executedIntents'[id] # None => executedIntents[id] # None \/ rows'[id].object # None,
           rows'[id].returned => rows[id].returned \/ Answered(id)',
           attempt'[id].pc \in Answering => attempt[id].pc \in Answering \/ Answered(id)'
    PROVE  Books(id)'
<1>1. Books(id) /\ (executedIntents[id] # None => executedIntents'[id] # None)
  BY DEF BooksInv, SuiKept
<1>2. pnl[id] # None => pnl[id].status = "completed"
  BY <1>1 DEF Books
<1> QED BY <1>1, <1>2 DEF Books

\* The chains move, the relayer's part of id does not.
LEMMA BooksUntouched ==
    ASSUME BooksInv, SuiKept, NEW id \in Ids, Answered(id) => Answered(id)',
           rows'[id] = rows[id], attempt'[id] = attempt[id], pnl'[id] = pnl[id],
           executedIntents'[id] = executedIntents[id]
    PROVE  Books(id)'
<1>1. Books(id)
  BY DEF BooksInv
<1> QED BY <1>1 DEF Books

\* A step of the relayer on an intent leaves the others alone.
LEMMA OtherIntents ==
    ASSUME TypeOK, NEW id \in Ids, RelayerStep(id), NEW j \in Ids \ {id}
    PROVE  /\ rows'[j] = rows[j] /\ attempt'[j] = attempt[j] /\ pnl'[j] = pnl[j]
           /\ executedIntents'[j] = executedIntents[j]
<1>0. /\ rows \in [Ids -> Row] /\ attempt \in [Ids -> Attempt]
      /\ pnl \in [Ids -> PnlEntries \union {None}]
      /\ executedIntents \in [Ids -> Sui!BlobObjects \union {None}]
  BY DEF TypeOK, RelayerTypeOK, Sui!TypeOK, Ids
<1>1. rows'[j] = rows[j]
  BY <1>0 DEF RelayerStep, Pipeline, Stage, Reject, Decline, MarkDead, Start, Upload, PersistUpload,
     ExecuteStore, PersistStore, SendProof, Confirm, MarkReturned, MarkDone, Book, CallFails,
     HandleFailure, TimesOut, Expire, Count, RetryOrBury, Uncounted
<1>2. attempt'[j] = attempt[j]
  BY <1>0 DEF RelayerStep, Pipeline, Stage, Reject, Decline, Start, Upload, PersistUpload,
     ExecuteStore, PersistStore, SendProof, QuoteFails, Confirm, MarkReturned, MarkDone, Book,
     CallFails, HandleFailure, TimesOut, Expire, Goto, Landed
<1>3. pnl'[j] = pnl[j]
  BY <1>0 DEF RelayerStep, Pipeline, Stage, Reject, Decline, RecordSkip, Record, Start, Upload,
     PersistUpload, ExecuteStore, PersistStore, SendProof, Confirm, MarkReturned, MarkDone, Book,
     RecordCompletion, CallFails, HandleFailure, TimesOut, Expire
<1>4. executedIntents'[j] = executedIntents[j]
  BY <1>0 DEF RelayerStep, Pipeline, Stage, Reject, Decline, Start, Upload, PersistUpload,
     ExecuteStore, PersistStore, SendProof, QuoteFails, Confirm, MarkReturned, MarkDone, Book,
     CallFails, HandleFailure, TimesOut, Expire, Sui!WriteBlob, Sui!execute_store,
     Sui!lz_send_proof, Sui!tables, sui
<1> QED BY <1>1, <1>2, <1>3, <1>4

\* A decision to proceed covers the cost, whatever the margin.
LEMMA ProceedCovers ==
    ASSUME NEW decision \in Decisions, Proceed(decision)
    PROVE  decision.collected >= decision.spent
<1>1. decision.collected \in Nat /\ decision.spent \in Nat /\ MarginPercent \in Nat
  BY DEF Decisions, SettlementAssumption
<1>2. \A c, d, m \in Nat : c * 100 >= d * (100 + m) => c >= d
  <2> SUFFICES ASSUME NEW c \in Nat, NEW d \in Nat, NEW m \in Nat, c * 100 >= d * (100 + m)
               PROVE  c >= d
    OBVIOUS
  <2>1. d * (100 + m) = d * 100 + d * m
    OBVIOUS
  <2>2. d * m >= 0
    OBVIOUS
  <2>3. d * m \in Int /\ d * 100 \in Int /\ c * 100 \in Int
    OBVIOUS
  <2>4. c * 100 >= d * 100
    BY <2>1, <2>2, <2>3
  <2> QED BY <2>4
<1> QED BY <1>1, <1>2 DEF Proceed

\* The steps around store().
LEMMA BooksChecks ==
    ASSUME BooksInv, SuiKept, NEW id \in Ids, Answered(id) => Answered(id)',
           \/ \E blob \in Blobs : Stage(id, blob)
           \/ Reject(id)
           \/ Decline(id)
           \/ Start(id)
           \/ Expire(id)
    PROVE  Books(id)'
<1>0. /\ Books(id) /\ TypeOK
      /\ rows \in [Ids -> Row] /\ attempt \in [Ids -> Attempt] /\ pnl \in [Ids -> PnlEntries \union {None}]
  BY DEF BooksInv, SettlementInv, TypeOK, RelayerTypeOK
<1>1. UNCHANGED executedIntents
  BY DEF Stage, Reject, Decline, Start, Expire, sui
<1>2. ASSUME NEW row \in Row, rows'[id] = row, row.object = rows[id].object,
             row.returned = rows[id].returned, rows[id].state # "dead", UNCHANGED <<attempt, pnl>>
      PROVE  Books(id)'
  BY <1>0, <1>1, <1>2 DEF Books
<1>3. ASSUME NEW blob \in Blobs, Stage(id, blob) PROVE Books(id)'
  <2> DEFINE row == [rows[id] EXCEPT !.state = "active", !.blob = blob]
  <2>1. row \in Row /\ row.object = rows[id].object /\ row.returned = rows[id].returned
    BY <1>0 DEF Row
  <2>2. rows'[id] = row /\ rows[id].state # "dead" /\ UNCHANGED <<attempt, pnl>>
    BY <1>0, <1>3 DEF Stage
  <2> HIDE DEF row
  <2> QED BY <1>2, <2>1, <2>2
<1>4. ASSUME Expire(id) PROVE Books(id)'
  <2> DEFINE row == [rows[id] EXCEPT !.state = "expired"]
  <2>1. row \in Row /\ row.object = rows[id].object /\ row.returned = rows[id].returned
    BY <1>0 DEF Row
  <2>2. rows'[id] = row /\ rows[id].state # "dead" /\ UNCHANGED <<attempt, pnl>>
    BY <1>0, <1>4 DEF Expire
  <2> HIDE DEF row
  <2> QED BY <1>2, <2>1, <2>2
<1>5. ASSUME Decline(id) PROVE Books(id)'
  <2> DEFINE row == [rows[id] EXCEPT !.state = "dead"]
             skip == [status |-> "skipped", collected |-> 0, spent |-> 0]
  <2>1. /\ row \in Row /\ row.object = rows[id].object /\ row.returned = rows[id].returned
        /\ row.state = "dead"
    BY <1>0 DEF Row
  <2>2. rows'[id] = row /\ attempt[id].pc = "decline"
    BY <1>0, <1>5 DEF Decline, MarkDead
  <2>3. \/ attempt'[id] = Idle
        \/ attempt'[id].pc = "failedPre" /\ attempt'[id].decision = attempt[id].decision
           /\ UNCHANGED pnl
    BY <1>0, <1>5 DEF Decline, Goto, Attempt
  <2>4. Idle.pc = "idle" /\ Idle.decision = None /\ skip.status # "completed"
    BY DEF Idle
  <2>5. UNCHANGED pnl \/ (rows[id].object = None /\ pnl'[id] \in {pnl[id], skip})
    <3>1. rows[id].blob = id.blob => rows[id].object = None
      BY <2>2 DEF BooksInv, SettlementInv, AttemptsTellTheTruth
    <3> QED BY <1>0, <1>5, <3>1 DEF Decline, RecordSkip, Record
  <2>6. pnl[id] # None => pnl[id].status = "completed"
    BY <1>0, <2>2 DEF Books
  <2> HIDE DEF row, skip
  <2>7. CASE pnl'[id] = pnl[id]
    BY <1>0, <1>1, <2>1, <2>2, <2>3, <2>4, <2>6, <2>7 DEF Books, Answering
  <2>8. CASE rows[id].object = None /\ pnl'[id] = skip /\ attempt'[id] = Idle
    BY <1>0, <1>1, <2>1, <2>2, <2>4, <2>8 DEF Books, Answering
  <2> QED BY <2>3, <2>5, <2>7, <2>8
<1>6. ASSUME Start(id) PROVE Books(id)'
  <2>1. PICK decision \in {None} \union GuardDecisions(id), pc \in {Resume(rows[id]), "failedPre"} :
           /\ decision # None => Proceed(decision)
           /\ attempt' = [attempt EXCEPT ![id] = [pc |-> pc, object |-> rows[id].object,
                                                  decision |-> decision, late |-> FALSE]]
    BY <1>6 DEF Start
  <2>2. attempt'[id].pc = pc /\ attempt'[id].decision = decision
    BY <1>0, <2>1
  <2>3. rows[id].object \in Sui!BlobObjects \union {None}
        /\ rows[id].stored \in BOOLEAN /\ rows[id].returned \in BOOLEAN
    BY <1>0 DEF Row
  <2>4. pc \in Answering => rows[id].returned
    BY <2>1, <2>3 DEF Resume, Answering
  <2>5. decision # None => decision.collected >= decision.spent
    <3>1. escrows[id].amount \in Nat
      BY <1>0 DEF TypeOK, Evm!TypeOK, Evm!Escrow, Ids
    <3>2. \A cost \in Costs : [collected |-> escrows[id].amount, spent |-> cost] \in Decisions
      BY <3>1 DEF Decisions, SettlementAssumption
    <3>3. decision # None => decision \in Decisions
      BY <2>1, <3>2 DEF GuardDecisions
    <3> QED BY <2>1, <3>3, ProceedCovers
  <2>6. UNCHANGED <<rows, pnl>> /\ rows[id].state = "active"
    BY <1>6 DEF Start, Claimed
  <2> QED BY <1>0, <1>1, <2>2, <2>4, <2>5, <2>6 DEF Books
<1>7. ASSUME Reject(id) PROVE Books(id)'
  <2>1. attempt'[id].pc = "decline" /\ attempt'[id].decision = None
    BY <1>0, <1>7 DEF Reject
  <2>2. UNCHANGED <<rows, pnl>> /\ rows[id].state = "active"
    BY <1>7 DEF Reject, Claimed
  <2> QED BY <1>0, <1>1, <2>1, <2>2 DEF Books, Answering
<1> QED BY <1>3, <1>4, <1>5, <1>6, <1>7

\* The calls of store(), and how an attempt ends.
LEMMA BooksAttempt ==
    ASSUME BooksInv, SuiKept, NEW id \in Ids, Answered(id) => Answered(id)',
           Pipeline(id) \/ CallFails(id) \/ HandleFailure(id) \/ TimesOut(id)
    PROVE  Books(id)'
<1>0. /\ Books(id) /\ TypeOK /\ SettlementInv
      /\ rows \in [Ids -> Row] /\ attempt \in [Ids -> Attempt]
      /\ pnl \in [Ids -> PnlEntries \union {None}]
      /\ rows[id] \in Row /\ attempt[id] \in Attempt
  BY DEF BooksInv, SettlementInv, TypeOK, RelayerTypeOK
<1>1. ASSUME NEW pc, attempt' = [attempt EXCEPT ![id].pc = pc]
      PROVE  attempt'[id].pc = pc /\ attempt'[id].decision = attempt[id].decision
  BY <1>0, <1>1 DEF Attempt
<1>2. ASSUME NEW pc, Landed(id, pc)
      PROVE  /\ attempt'[id].pc \in {pc, "failedPre"}
             /\ attempt'[id].decision = attempt[id].decision
  BY <1>1, <1>2 DEF Landed, Goto
<1>3. "failedPre" \notin Answering /\ "failedPost" \notin Answering /\ "idle" \notin Answering
  BY DEF Answering
<1>4. CASE Upload(id)
  <2>0. PICK object :
           \E pc \in {"persistUpload", "failedPre"} :
              attempt' = [attempt EXCEPT ![id].pc = pc, ![id].object = object]
    BY <1>4 DEF Upload
  <2>1. PICK pc \in {"persistUpload", "failedPre"} :
           attempt' = [attempt EXCEPT ![id].pc = pc, ![id].object = object]
    BY <2>0
  <2>2. attempt'[id].pc = pc /\ attempt'[id].decision = attempt[id].decision
    BY <1>0, <2>1 DEF Attempt
  <2>3. UNCHANGED <<rows, pnl, executedIntents>> /\ attempt[id].pc = "upload"
    BY <1>4 DEF Upload, Sui!WriteBlob, Sui!tables
  <2> QED BY <2>1, <2>2, <2>3, BooksOnward DEF Answering
<1>5. CASE PersistUpload(id)
  <2>1. attempt[id].pc = "persistUpload" /\ Landed(id, "executeStore")
        /\ UNCHANGED <<pnl, executedIntents>>
    BY <1>5 DEF PersistUpload, sui
  <2>2. rows'[id] = [rows[id] EXCEPT !.object = attempt[id].object]
    BY <1>0, <1>5 DEF PersistUpload
  <2>3. rows'[id].object = attempt[id].object /\ rows'[id].returned = rows[id].returned
    BY <1>0, <2>2 DEF Row
  <2>4. attempt[id].object # None
    BY <1>0, <2>1 DEF SettlementInv, AttemptsTellTheTruth, HasObject
  <2> QED BY <1>2, <2>1, <2>3, <2>4, BooksOnward DEF Answering
<1>6. CASE ExecuteStore(id)
  <2>1. attempt[id].pc = "executeStore" /\ UNCHANGED <<pnl, rows>> /\ Landed(id, "persistStore")
    BY <1>6 DEF ExecuteStore, Landed
  <2>2. rows[id].object # None
    BY <1>0, <2>1 DEF SettlementInv, AttemptsTellTheTruth, Persisted
  <2> QED BY <1>2, <2>1, <2>2, BooksOnward DEF Answering
<1>7. CASE PersistStore(id)
  <2>1. attempt[id].pc = "persistStore" /\ Landed(id, "sendProof")
        /\ UNCHANGED <<pnl, executedIntents>>
    BY <1>7 DEF PersistStore, sui
  <2>2. rows'[id] = [rows[id] EXCEPT !.stored = TRUE]
    BY <1>0, <1>7 DEF PersistStore
  <2>3. rows'[id].object = rows[id].object /\ rows'[id].returned = rows[id].returned
    BY <1>0, <2>2 DEF Row
  <2> QED BY <1>2, <2>1, <2>3, BooksOnward DEF Answering
<1>8. CASE SendProof(id)
  <2>1. attempt[id].pc = "sendProof" /\ UNCHANGED <<pnl, rows, executedIntents>>
    BY <1>8 DEF SendProof, QuoteFails, Sui!lz_send_proof, sui
  <2>2. PICK pc \in {"markReturned", "confirm"} :
           /\ attempt' = [attempt EXCEPT ![id].pc = pc]
           /\ pc = "markReturned" =>
                Sui!lz_send_proof(Self, id, attempt[id].object.blob, attempt[id].object.endEpoch)
    BY <1>8 DEF SendProof, QuoteFails, Goto
  <2>3. pc = "markReturned" => Answered(id)'
    <3> SUFFICES ASSUME pc = "markReturned" PROVE \E p \in proofs' : p.id = id
      BY DEF Answered
    <3>1. PICK n : [id |-> id, blob |-> attempt[id].object.blob,
                    endEpoch |-> attempt[id].object.endEpoch, nonce |-> n] \in proofs'
      BY <2>2 DEF Sui!lz_send_proof
    <3> QED BY <3>1
  <2> QED BY <1>1, <2>1, <2>2, <2>3, BooksOnward DEF Answering
<1>9. CASE Confirm(id)
  <2>1. attempt[id].pc = "confirm" /\ UNCHANGED <<pnl, rows, executedIntents>>
    BY <1>9 DEF Confirm, sui
  <2>2. PICK pc \in {"markReturned", "failedPost"} :
           /\ attempt' = [attempt EXCEPT ![id].pc = pc]
           /\ pc = "markReturned" => Evm!ConfirmExecution(id)
    BY <1>9 DEF Confirm, Goto
  <2>3. pc = "markReturned" => Answered(id)'
    BY <2>2 DEF Answered, Evm!ConfirmExecution, Evm!MarkExecuted
  <2> QED BY <1>1, <1>3, <2>1, <2>2, <2>3, BooksOnward
<1>10. CASE MarkReturned(id)
  <2>1. attempt[id].pc = "markReturned" /\ Landed(id, "markDone")
        /\ UNCHANGED <<pnl, executedIntents>>
    BY <1>10 DEF MarkReturned, sui
  <2>2. rows'[id] = [rows[id] EXCEPT !.returned = TRUE]
    BY <1>0, <1>10 DEF MarkReturned
  <2>3. rows'[id].object = rows[id].object
    BY <1>0, <2>2 DEF Row
  <2>4. Answered(id)'
    BY <1>0, <2>1 DEF Books, Answering
  <2> QED BY <1>2, <2>1, <2>3, <2>4, BooksOnward
<1>11. CASE MarkDone(id)
  <2>1. attempt[id].pc = "markDone" /\ Landed(id, "book") /\ UNCHANGED <<pnl, executedIntents>>
    BY <1>11 DEF MarkDone, sui
  <2>2. rows'[id] = [rows[id] EXCEPT !.state = "done"]
    BY <1>0, <1>11 DEF MarkDone
  <2>3. rows'[id].object = rows[id].object /\ rows'[id].returned = rows[id].returned
    BY <1>0, <2>2 DEF Row
  <2> QED BY <1>2, <2>1, <2>3, BooksOnward DEF Answering
<1>12. CASE Book(id)
  <2> DEFINE decision == attempt[id].decision
             entry == [status |-> "completed", collected |-> decision.collected,
                       spent |-> decision.spent]
  <2>1. attempt[id].pc = "book" /\ UNCHANGED <<rows, executedIntents>>
    BY <1>12 DEF Book, sui
  <2>2. attempt'[id] = Idle /\ Idle.pc = "idle" /\ Idle.decision = None
    BY <1>0, <1>12 DEF Book, Idle
  <2>3. executedIntents[id] # None /\ Answered(id)'
    BY <1>0, <2>1 DEF Books, Answering, SettlementInv, AttemptsTellTheTruth, Recorded
  <2>4. pnl'[id] = pnl[id] \/ (decision # None /\ pnl'[id] = entry)
    BY <1>0, <1>12 DEF Book, RecordCompletion, Record
  <2>5. CASE pnl'[id] = pnl[id]
    BY <1>3, <2>1, <2>2, <2>5, BooksOnward
  <2>6. CASE decision # None /\ pnl'[id] = entry
    <3>1. pnl'[id].status = "completed" /\ pnl'[id].collected >= pnl'[id].spent
      BY <1>0, <2>6 DEF Books
    <3> QED BY <1>0, <1>3, <2>1, <2>2, <2>3, <3>1 DEF Books
  <2> QED BY <2>4, <2>5, <2>6
<1>13. CASE CallFails(id)
  <2>1. attempt[id].pc # "idle" /\ attempt' = [attempt EXCEPT ![id].pc = "failedPre"]
        /\ UNCHANGED <<rows, pnl, executedIntents>>
    BY <1>13 DEF CallFails, Goto, sui
  <2> QED BY <1>1, <1>3, <2>1, BooksOnward
<1>14. ASSUME NEW limit \in Nat, Count(id, limit)
       PROVE  rows'[id].object = rows[id].object /\ rows'[id].returned = rows[id].returned
  <2>1. rows'[id] \in {rows[id], [rows[id] EXCEPT !.state = "dead"],
                       [rows[id] EXCEPT !.attempts = @ + 1]}
    BY <1>0, <1>14 DEF Count, RetryOrBury, Uncounted
  <2> QED BY <1>0, <2>1 DEF Row
<1>15. CASE HandleFailure(id)
  <2>1. attempt[id].pc # "idle" /\ UNCHANGED <<pnl, executedIntents>>
    BY <1>15 DEF HandleFailure, sui
  <2>2. attempt'[id] = Idle /\ Idle.pc = "idle" /\ Idle.decision = None
    BY <1>0, <1>15 DEF HandleFailure, Idle
  <2>3. rows'[id].object = rows[id].object /\ rows'[id].returned = rows[id].returned
    BY <1>14, <1>15 DEF HandleFailure, SettlementAssumption
  <2> QED BY <1>3, <2>1, <2>2, <2>3, BooksOnward
<1>16. CASE TimesOut(id)
  <2>1. attempt[id].pc # "idle" /\ UNCHANGED <<pnl, executedIntents>>
    BY <1>16 DEF TimesOut, sui
  <2>2. attempt'[id].pc = attempt[id].pc /\ attempt'[id].decision = attempt[id].decision
    BY <1>0, <1>16 DEF TimesOut, Attempt
  <2>3. rows'[id].object = rows[id].object /\ rows'[id].returned = rows[id].returned
    BY <1>14, <1>16 DEF TimesOut, SettlementAssumption
  <2> QED BY <2>1, <2>2, <2>3, BooksOnward
<1> QED BY <1>4, <1>5, <1>6, <1>7, <1>8, <1>9, <1>10, <1>11, <1>12, <1>13, <1>15, <1>16 DEF Pipeline

\* Every step keeps the books.
LEMMA BooksStep == BooksInv /\ [Next]_vars => BooksInv'
<1> SUFFICES ASSUME BooksInv, [Next]_vars, NEW j \in Ids PROVE Books(j)' /\ Earned(j)'
  BY InvStep DEF BooksInv
<1>0. TypeOK /\ SuiKept /\ (Answered(j) => Answered(j)')
  BY SuiSteps, AnswersGrow DEF BooksInv, SettlementInv
<1>1. Earned(j)'
  BY <1>0, EarnedStep
<1>2. ASSUME NEW id \in Ids, RelayerStep(id) PROVE Books(j)'
  <2>1. CASE j = id
    BY <1>0, <1>2, <2>1, BooksChecks, BooksAttempt DEF RelayerStep
  <2>2. CASE j # id
    BY <1>0, <1>2, <2>2, OtherIntents, BooksUntouched
  <2> QED BY <2>1, <2>2
<1>3. ASSUME UNCHANGED <<rows, attempt, pnl, executedIntents>> PROVE Books(j)'
  BY <1>0, <1>3, BooksUntouched
<1>4. ASSUME NEW user \in Users, NEW blob \in Blobs, NEW deadline \in Deadlines,
             NEW value \in Payments, NEW fee \in Fees,
             Submit(user, blob, deadline, value, fee)
      PROVE  Books(j)'
  BY <1>3, <1>4 DEF Submit, sui, relayer
<1>5. ASSUME NEW id \in Ids, DeliverIntent(id) PROVE Books(j)'
  BY <1>3, <1>5 DEF DeliverIntent, Sui!lz_receive, relayer
<1>6. ASSUME NEW proof \in proofs, DeliverProof(proof) PROVE Books(j)'
  BY <1>3, <1>6 DEF DeliverProof, sui, relayer
<1>7. ASSUME OriginStep \/ SuiStep \/ UNCHANGED vars PROVE Books(j)'
  BY <1>3, <1>7 DEF OriginStep, SuiStep, vars, sui, relayer, Sui!Environment, Sui!Tick,
     Sui!NextEpoch, Sui!SetReceiverRelayer, Sui!SetExecutorRelayer, Sui!tables
<1>8. ASSUME Crash PROVE Books(j)'
  <2>1. /\ pnl'[j] = None /\ attempt'[j].pc = "idle" /\ attempt'[j].decision = None
        /\ UNCHANGED <<rows, executedIntents>>
    BY <1>8 DEF Crash, Idle, sui
  <2>2. Books(j)
    BY DEF BooksInv
  <2> QED BY <1>0, <2>1, <2>2 DEF Books, Answering
<1> QED BY <1>1, <1>2, <1>4, <1>5, <1>6, <1>7, <1>8 DEF Next

\* The P&L ledger agrees with the chains: what it books as completed made no loss, is on Sui
\* and was answered; what it books as skipped was not stored and is not paid for, however
\* late or lost the calls of earlier attempts were.
THEOREM HonestBooks == Spec => []BooksAreHonest
<1>1. Init => BooksInv
  <2> SUFFICES ASSUME Init PROVE BooksInv
    OBVIOUS
  <2>1. \A id \in Ids : /\ executedIntents[id] = None /\ escrows[id].status = "None"
                        /\ ~rows[id].returned /\ attempt[id].pc = "idle"
                        /\ attempt[id].decision = None /\ pnl[id] = None
    BY DEF Init, Sui!Init, Evm!Init, Evm!NoEscrow, Ids, Idle
  <2> QED BY <2>1, InvInit DEF BooksInv, Books, Earned, Answering
<1>2. BooksInv => BooksAreHonest
  BY DEF BooksInv, Books, Earned, Answered, BooksAreHonest
<1> QED BY <1>1, <1>2, BooksStep, PTL DEF Spec

-----------------------------------------------------------------------------
(* The number of proof packets.                                            *)

\* The attempt may still send its packet.
Sending == {"upload", "persistUpload", "executeStore", "persistStore", "sendProof"}

Limit == IF MaxStoreAttempts > ReturnMaxAttempts THEN MaxStoreAttempts ELSE ReturnMaxAttempts

Packets(id) == {p \in proofs : p.id = id}

\* An attempt pays for its packet when it is counted, when it ends uncounted, when it
\* buries the row or when it finishes it.  One under way has yet to pay, unless it is late:
\* then the timeout paid, also for the packet it may still send.
Budget(row, a, u, n) ==
    /\ row.attempts < Limit
    /\ a.pc = "book" => row.state = "done"
    /\ IF a.pc # "idle" /\ ~a.late
       THEN n <= row.attempts + u + (IF a.pc \in Sending THEN 0 ELSE 1)
       ELSE n + (IF a.pc \in Sending THEN 1 ELSE 0)
              <= row.attempts + u + (IF row.state \in {"done", "dead"} THEN 1 ELSE 0)

InBudget(id) == Budget(rows[id], attempt[id], uncounted[id], Cardinality(Packets(id)))

PacketsInv == SettlementInv /\ \A id \in Ids : InBudget(id)

\* What there is to count with.
LEMMA BudgetTypes ==
    ASSUME SettlementInv, NEW id \in Ids
    PROVE  /\ rows[id] \in Row /\ rows[id].attempts \in Nat
           /\ attempt[id] \in Attempt /\ attempt[id].late \in BOOLEAN
           /\ uncounted[id] \in Nat
           /\ IsFiniteSet(Packets(id)) /\ Cardinality(Packets(id)) \in Nat
           /\ Limit \in Nat \ {0} /\ MaxStoreAttempts <= Limit /\ ReturnMaxAttempts <= Limit
<1>1. rows[id] \in Row /\ attempt[id] \in Attempt /\ uncounted[id] \in 0 .. MaxUncounted
  BY DEF SettlementInv, TypeOK, RelayerTypeOK
<1>2. IsFiniteSet(Packets(id))
  BY FS_Subset DEF SettlementInv, Packets
<1>3. Cardinality(Packets(id)) \in Nat
  BY <1>2, FS_CardinalityType
<1>4. Limit \in Nat \ {0} /\ MaxStoreAttempts <= Limit /\ ReturnMaxAttempts <= Limit
  BY DEF Limit, SettlementAssumption
<1> QED BY <1>1, <1>2, <1>3, <1>4 DEF Row, Attempt, SettlementAssumption

\* lzSendProof sends one packet at most, of its own intent.
LEMMA OnePacket ==
    ASSUME SettlementInv, NEW id \in Ids, SendProof(id)
    PROVE  /\ Cardinality(Packets(id)') \in Nat
           /\ Cardinality(Packets(id)') <= Cardinality(Packets(id)) + 1
           /\ \A j \in Ids \ {id} : Packets(j)' = Packets(j)
<1>1. IsFiniteSet(Packets(id)) /\ Cardinality(Packets(id)) \in Nat
  BY BudgetTypes
<1>2. CASE UNCHANGED sui
  <2>1. UNCHANGED proofs
    BY <1>2 DEF sui
  <2> QED BY <1>1, <2>1 DEF Packets
<1>3. CASE Sui!lz_send_proof(Self, id, attempt[id].object.blob, attempt[id].object.endEpoch)
  <2>1. PICK p : p.id = id /\ proofs' = proofs \union {p}
    BY <1>3 DEF Sui!lz_send_proof
  <2>2. Packets(id)' = Packets(id) \union {p} /\ \A j \in Ids \ {id} : Packets(j)' = Packets(j)
    BY <2>1 DEF Packets
  <2>3. Cardinality(Packets(id) \union {p}) \in {Cardinality(Packets(id)), Cardinality(Packets(id)) + 1}
    BY <1>1, FS_AddElement
  <2> QED BY <1>1, <2>2, <2>3
<1> QED BY <1>2, <1>3 DEF SendProof, QuoteFails

\* No other step sends one, and no step touches what is counted on other intents.
LEMMA NoPacket ==
    ASSUME NEW id \in Ids, RelayerStep(id), ~SendProof(id)
    PROVE  UNCHANGED proofs
  BY DEF RelayerStep, Pipeline, Stage, Reject, Decline, Start, Upload, PersistUpload, ExecuteStore,
         PersistStore, Confirm, MarkReturned, MarkDone, Book, CallFails, HandleFailure,
         TimesOut, Expire, Sui!WriteBlob, Sui!execute_store, Sui!tables, sui

LEMMA OtherBudgets ==
    ASSUME PacketsInv, NEW id \in Ids, RelayerStep(id), NEW j \in Ids \ {id}
    PROVE  InBudget(j)'
<1>1. rows'[j] = rows[j] /\ attempt'[j] = attempt[j]
  BY OtherIntents DEF PacketsInv, SettlementInv
<1>2. uncounted'[j] = uncounted[j]
  <2>1. uncounted \in [Ids -> 0 .. MaxUncounted]
    BY DEF PacketsInv, SettlementInv, TypeOK, RelayerTypeOK
  <2> QED BY <2>1 DEF RelayerStep, Pipeline, Stage, Reject, Decline, Start, Upload, PersistUpload,
     ExecuteStore, PersistStore, SendProof, Confirm, MarkReturned, MarkDone, Book, CallFails,
     HandleFailure, TimesOut, Expire, Count, Uncounted
<1>3. Packets(j)' = Packets(j)
  <2>1. CASE SendProof(id)
    BY <2>1, OnePacket DEF PacketsInv
  <2>2. CASE ~SendProof(id)
    BY <2>2, NoPacket DEF Packets
  <2> QED BY <2>1, <2>2
<1> QED BY <1>1, <1>2, <1>3 DEF PacketsInv, InBudget

\* A call of store() that keeps the attempt under way and counts nothing.
LEMMA BudgetOnward ==
    ASSUME PacketsInv, NEW id \in Ids,
           attempt[id].pc # "idle", attempt'[id].pc # "idle",
           attempt'[id].late = attempt[id].late,
           attempt'[id].pc \in Sending => attempt[id].pc \in Sending,
           attempt'[id].pc = "book" => rows'[id].state = "done",
           rows'[id].attempts = rows[id].attempts,
           rows'[id].state \in {rows[id].state, "done"},
           UNCHANGED <<uncounted, proofs>>
    PROVE  InBudget(id)'
<1> DEFINE n == Cardinality(Packets(id))
<1>1. n \in Nat /\ rows[id].attempts \in Nat /\ uncounted[id] \in Nat /\ Limit \in Nat
      /\ attempt[id].late \in BOOLEAN
  BY BudgetTypes DEF PacketsInv
<1>2. Packets(id)' = Packets(id) /\ uncounted'[id] = uncounted[id]
  BY DEF Packets
<1>3. Budget(rows[id], attempt[id], uncounted[id], n)
  BY DEF PacketsInv, InBudget
<1>4. InBudget(id)' <=> Budget(rows'[id], attempt'[id], uncounted[id], n)
  BY <1>2 DEF InBudget
<1> HIDE DEF n
<1> QED BY <1>1, <1>3, <1>4 DEF Budget

\* The steps of store(), but for the one that sends and the one that ends it.
LEMMA BudgetCalls ==
    ASSUME PacketsInv, NEW id \in Ids,
           \/ Upload(id) \/ PersistUpload(id) \/ ExecuteStore(id) \/ PersistStore(id)
           \/ Confirm(id) \/ MarkReturned(id) \/ MarkDone(id) \/ CallFails(id)
    PROVE  InBudget(id)'
<1>1. /\ rows \in [Ids -> Row] /\ attempt \in [Ids -> Attempt]
      /\ rows[id] \in Row /\ attempt[id] \in Attempt
  BY DEF PacketsInv, SettlementInv, TypeOK, RelayerTypeOK
<1>2. UNCHANGED <<uncounted, proofs>>
  BY DEF Upload, PersistUpload, ExecuteStore, PersistStore, Confirm, MarkReturned, MarkDone,
         CallFails, Sui!WriteBlob, Sui!execute_store, Sui!tables, sui
<1>3. attempt[id].pc # "idle" /\ attempt'[id].pc # "idle"
      /\ attempt'[id].late = attempt[id].late
      /\ (attempt'[id].pc \in Sending => attempt[id].pc \in Sending)
  BY <1>1 DEF Upload, PersistUpload, ExecuteStore, PersistStore, Confirm, MarkReturned, MarkDone,
              CallFails, Goto, Landed, Sending, Attempt
<1>4. /\ attempt'[id].pc = "book" => rows'[id].state = "done"
      /\ rows'[id].attempts = rows[id].attempts
      /\ rows'[id].state \in {rows[id].state, "done"}
  BY <1>1 DEF Upload, PersistUpload, ExecuteStore, PersistStore, Confirm, MarkReturned, MarkDone,
              CallFails, Goto, Landed, Row, Attempt
<1> QED BY <1>2, <1>3, <1>4, BudgetOnward

\* The step that sends.
LEMMA BudgetSends ==
    ASSUME PacketsInv, NEW id \in Ids, SendProof(id)
    PROVE  InBudget(id)'
<1> DEFINE n == Cardinality(Packets(id))
           m == Cardinality(Packets(id)')
<1>1. n \in Nat /\ rows[id].attempts \in Nat /\ uncounted[id] \in Nat /\ Limit \in Nat
      /\ attempt[id].late \in BOOLEAN
  BY BudgetTypes DEF PacketsInv
<1>2. m \in Nat /\ m <= n + 1
  BY OnePacket DEF PacketsInv
<1>3. attempt[id].pc = "sendProof" /\ attempt'[id].pc \in {"markReturned", "confirm"}
      /\ attempt'[id].late = attempt[id].late
  <2>1. attempt \in [Ids -> Attempt]
    BY DEF PacketsInv, SettlementInv, TypeOK, RelayerTypeOK
  <2> QED BY <2>1 DEF SendProof, QuoteFails, Goto, Attempt
<1>4. UNCHANGED <<rows, uncounted>>
  BY DEF SendProof
<1>5. Budget(rows[id], attempt[id], uncounted[id], n)
  BY DEF PacketsInv, InBudget
<1>6. InBudget(id)' <=> Budget(rows[id], attempt'[id], uncounted[id], m)
  BY <1>4 DEF InBudget
<1> HIDE DEF n, m
<1> QED BY <1>1, <1>2, <1>3, <1>5, <1>6 DEF Budget, Sending

\* What counting an attempt pays.
LEMMA CountPays ==
    ASSUME SettlementInv, NEW id \in Ids, NEW limit \in Nat, limit <= Limit, Count(id, limit),
           rows[id].attempts < Limit
    PROVE  /\ rows'[id].attempts \in Nat /\ uncounted'[id] \in Nat
           /\ rows'[id].attempts < Limit
           /\ rows'[id].state \in {rows[id].state, "dead"}
           /\ \/ rows'[id].state = "dead" /\ rows'[id].attempts = rows[id].attempts
                 /\ uncounted'[id] = uncounted[id]
              \/ rows'[id].state = rows[id].state
                 /\ rows'[id].attempts + uncounted'[id] = rows[id].attempts + uncounted[id] + 1
<1>1. /\ rows \in [Ids -> Row] /\ rows[id] \in Row /\ rows[id].attempts \in Nat
      /\ uncounted \in [Ids -> 0 .. MaxUncounted] /\ uncounted[id] \in Nat
      /\ Limit \in Nat
  BY BudgetTypes DEF SettlementInv, TypeOK, RelayerTypeOK
<1>2. CASE RetryOrBury(id, limit) /\ UNCHANGED uncounted
  <2>1. CASE rows[id].attempts + 1 >= limit
    BY <1>1, <1>2, <2>1 DEF RetryOrBury, Row
  <2>2. CASE ~(rows[id].attempts + 1 >= limit)
    <3>1. /\ rows'[id].attempts = rows[id].attempts + 1 /\ rows'[id].state = rows[id].state
          /\ uncounted' = uncounted
      BY <1>1, <1>2, <2>2 DEF RetryOrBury, Row
    <3> QED BY <1>1, <2>2, <3>1
  <2> QED BY <2>1, <2>2
<1>3. CASE Uncounted(id)
  BY <1>1, <1>3 DEF Uncounted
<1> QED BY <1>2, <1>3 DEF Count

\* The end of an attempt, and its timeout: this is where it pays.
LEMMA BudgetEndings ==
    ASSUME PacketsInv, NEW id \in Ids, Book(id) \/ HandleFailure(id) \/ TimesOut(id)
    PROVE  InBudget(id)'
<1> DEFINE n == Cardinality(Packets(id))
           InBudgetNow == Budget(rows'[id], attempt'[id], uncounted'[id], n)
<1>1. n \in Nat /\ rows[id].attempts \in Nat /\ uncounted[id] \in Nat /\ Limit \in Nat
      /\ attempt[id].late \in BOOLEAN /\ MaxStoreAttempts <= Limit /\ ReturnMaxAttempts <= Limit
      /\ MaxStoreAttempts \in Nat /\ ReturnMaxAttempts \in Nat
  BY BudgetTypes DEF PacketsInv, SettlementAssumption
<1>2. attempt \in [Ids -> Attempt] /\ attempt[id] \in Attempt
  BY DEF PacketsInv, SettlementInv, TypeOK, RelayerTypeOK
<1>3. Budget(rows[id], attempt[id], uncounted[id], n)
  BY DEF PacketsInv, InBudget
<1>4. InBudget(id)' <=> InBudgetNow
  <2>1. UNCHANGED proofs
    BY DEF Book, HandleFailure, TimesOut, sui
  <2>2. Packets(id)' = Packets(id)
    BY <2>1 DEF Packets
  <2> QED BY <2>2 DEF InBudget
<1> HIDE DEF n
<1>5. ASSUME Book(id) PROVE InBudgetNow
  <2>1. attempt[id].pc = "book" /\ attempt'[id].pc = "idle" /\ UNCHANGED <<rows, uncounted>>
    BY <1>2, <1>5 DEF Book, Idle
  <2> QED BY <1>1, <1>3, <2>1 DEF Budget, Sending
<1>6. ASSUME HandleFailure(id) PROVE InBudgetNow
  <2>1. attempt[id].pc \in {"failedPre", "failedPost"} /\ attempt'[id].pc = "idle"
    BY <1>2, <1>6 DEF HandleFailure, Idle
  <2>2. CASE attempt[id].late
    <3>1. UNCHANGED <<rows, uncounted>>
      BY <1>6, <2>2 DEF HandleFailure
    <3> QED BY <1>1, <1>3, <2>1, <2>2, <3>1 DEF Budget, Sending
  <2>3. CASE ~attempt[id].late
    <3> DEFINE limit == IF attempt[id].pc = "failedPost" THEN ReturnMaxAttempts
                                                         ELSE MaxStoreAttempts
    <3>1. limit \in Nat /\ limit <= Limit /\ Count(id, limit)
      BY <1>1, <1>6, <2>3 DEF HandleFailure
    <3>2. rows[id].attempts < Limit
          /\ n <= rows[id].attempts + uncounted[id] + 1
      BY <1>1, <1>3, <2>1, <2>3 DEF Budget, Sending
    <3> HIDE DEF limit
    <3>3. /\ rows'[id].attempts \in Nat /\ uncounted'[id] \in Nat
          /\ rows'[id].attempts < Limit
          /\ \/ rows'[id].state = "dead" /\ rows'[id].attempts = rows[id].attempts
                /\ uncounted'[id] = uncounted[id]
             \/ rows'[id].attempts + uncounted'[id] = rows[id].attempts + uncounted[id] + 1
      BY <3>1, <3>2, CountPays DEF PacketsInv
    <3> QED BY <1>1, <2>1, <3>2, <3>3 DEF Budget, Sending
  <2> QED BY <2>2, <2>3
<1>7. ASSUME TimesOut(id) PROVE InBudgetNow
  <2>1. /\ attempt[id].pc \notin {"idle", "book"} /\ ~attempt[id].late
        /\ attempt'[id].pc = attempt[id].pc /\ attempt'[id].late = TRUE
    BY <1>2, <1>7 DEF TimesOut, Attempt
  <2>2. Count(id, MaxStoreAttempts)
    BY <1>7 DEF TimesOut
  <2>3. rows[id].attempts < Limit
        /\ n <= rows[id].attempts + uncounted[id] + (IF attempt[id].pc \in Sending THEN 0 ELSE 1)
    BY <1>3, <2>1 DEF Budget
  <2>4. /\ rows'[id].attempts \in Nat /\ uncounted'[id] \in Nat
        /\ rows'[id].attempts < Limit
        /\ \/ rows'[id].state = "dead" /\ rows'[id].attempts = rows[id].attempts
              /\ uncounted'[id] = uncounted[id]
           \/ rows'[id].attempts + uncounted'[id] = rows[id].attempts + uncounted[id] + 1
    BY <1>1, <2>2, <2>3, CountPays DEF PacketsInv
  <2> QED BY <1>1, <2>1, <2>3, <2>4 DEF Budget
<1> QED BY <1>4, <1>5, <1>6, <1>7

\* The steps around store(): an attempt starts on an active row, which owes nothing.
LEMMA BudgetChecks ==
    ASSUME PacketsInv, NEW id \in Ids,
           \/ \E blob \in Blobs : Stage(id, blob)
           \/ Reject(id) \/ Decline(id) \/ Start(id) \/ Expire(id)
    PROVE  InBudget(id)'
<1> DEFINE n == Cardinality(Packets(id))
           InBudgetNow == Budget(rows'[id], attempt'[id], uncounted[id], n)
<1>1. n \in Nat /\ rows[id].attempts \in Nat /\ uncounted[id] \in Nat /\ Limit \in Nat
      /\ attempt[id].late \in BOOLEAN
  BY BudgetTypes DEF PacketsInv
<1>2. /\ rows \in [Ids -> Row] /\ attempt \in [Ids -> Attempt]
      /\ rows[id] \in Row /\ attempt[id] \in Attempt
  BY DEF PacketsInv, SettlementInv, TypeOK, RelayerTypeOK
<1>3. Budget(rows[id], attempt[id], uncounted[id], n)
  BY DEF PacketsInv, InBudget
<1>4. InBudget(id)' <=> InBudgetNow
  <2>1. UNCHANGED <<proofs, uncounted>>
    BY DEF Stage, Reject, Decline, Start, Expire, sui
  <2>2. Packets(id)' = Packets(id)
    BY <2>1 DEF Packets
  <2> QED BY <2>1, <2>2 DEF InBudget
<1> HIDE DEF n
<1>5. ASSUME NEW blob \in Blobs, Stage(id, blob) PROVE InBudgetNow
  <2>1. /\ rows[id].state = "absent" /\ rows'[id].state = "active"
        /\ rows'[id].attempts = rows[id].attempts /\ attempt' = attempt
    BY <1>2, <1>5 DEF Stage, Row
  <2> QED BY <1>1, <1>3, <2>1 DEF Budget
<1>6. ASSUME Decline(id) PROVE InBudgetNow
  <2>1. /\ attempt[id].pc = "decline" /\ rows'[id].state = "dead"
        /\ rows'[id].attempts = rows[id].attempts
    BY <1>2, <1>6 DEF Decline, MarkDead, Row
  <2>2. \/ attempt'[id].pc = "idle"
        \/ attempt'[id].pc = "failedPre" /\ attempt'[id].late = attempt[id].late
    BY <1>2, <1>6 DEF Decline, Goto, Idle, Attempt
  <2> QED BY <1>1, <1>3, <2>1, <2>2 DEF Budget, Sending
<1>7. ASSUME Start(id) PROVE InBudgetNow
  <2>1. rows[id].state = "active" /\ attempt[id].pc = "idle" /\ rows' = rows
    BY <1>7 DEF Start, Claimed, Idle
  <2>2. /\ attempt'[id].pc \in {Resume(rows[id]), "failedPre"}
        /\ attempt'[id].late = FALSE
    BY <1>2, <1>7 DEF Start
  <2>3. Resume(rows[id]) \in {"upload", "executeStore", "sendProof", "markDone"}
    BY <1>2 DEF Resume, Row
  <2> QED BY <1>1, <1>3, <2>1, <2>2, <2>3 DEF Budget, Sending
<1>8. ASSUME Expire(id) PROVE InBudgetNow
  <2>1. /\ rows[id].state = "active" /\ rows'[id].state = "expired"
        /\ rows'[id].attempts = rows[id].attempts /\ attempt' = attempt
    BY <1>2, <1>8 DEF Expire, Row
  <2> QED BY <1>1, <1>3, <2>1 DEF Budget
<1>9. ASSUME Reject(id) PROVE InBudgetNow
  <2>1. /\ rows[id].state = "active" /\ attempt[id].pc = "idle" /\ rows' = rows
        /\ attempt'[id].pc = "decline" /\ attempt'[id].late = FALSE
    BY <1>2, <1>9 DEF Reject, Claimed, Idle
  <2> QED BY <1>1, <1>3, <2>1 DEF Budget, Sending
<1> QED BY <1>4, <1>5, <1>6, <1>7, <1>8, <1>9

\* A crash ends the attempts uncounted.
LEMMA BudgetCrash ==
    ASSUME PacketsInv, NEW id \in Ids, Crash
    PROVE  InBudget(id)'
<1> DEFINE n == Cardinality(Packets(id))
<1>1. n \in Nat /\ rows[id].attempts \in Nat /\ uncounted[id] \in Nat /\ Limit \in Nat
      /\ attempt[id].late \in BOOLEAN
  BY BudgetTypes DEF PacketsInv
<1>2. Budget(rows[id], attempt[id], uncounted[id], n)
  BY DEF PacketsInv, InBudget
<1>3. /\ attempt'[id].pc = "idle" /\ UNCHANGED <<rows, proofs>>
      /\ uncounted'[id] = IF attempt[id] = Idle THEN uncounted[id] ELSE uncounted[id] + 1
  BY DEF Crash, Idle, sui
<1>4. InBudget(id)' <=> Budget(rows[id], attempt'[id], uncounted'[id], n)
  BY <1>3 DEF InBudget, Packets
<1>5. attempt[id] = Idle => attempt[id].pc = "idle"
  BY DEF Idle
<1> HIDE DEF n
<1>6. CASE attempt[id] = Idle
  BY <1>1, <1>2, <1>3, <1>4, <1>5, <1>6 DEF Budget, Sending
<1>7. CASE attempt[id] # Idle
  BY <1>1, <1>2, <1>3, <1>4, <1>7 DEF Budget, Sending
<1> QED BY <1>6, <1>7

LEMMA PacketsStep == PacketsInv /\ [Next]_vars => PacketsInv'
<1> SUFFICES ASSUME PacketsInv, [Next]_vars, NEW j \in Ids PROVE InBudget(j)'
  BY InvStep DEF PacketsInv
<1>1. ASSUME NEW id \in Ids, RelayerStep(id) PROVE InBudget(j)'
  <2>1. CASE j = id
    BY <1>1, <2>1, BudgetCalls, BudgetSends, BudgetEndings, BudgetChecks DEF RelayerStep, Pipeline
  <2>2. CASE j # id
    BY <1>1, <2>2, OtherBudgets
  <2> QED BY <2>1, <2>2
<1>2. ASSUME UNCHANGED <<proofs, relayer>> PROVE InBudget(j)'
  BY <1>2 DEF relayer, PacketsInv, InBudget, Packets
<1>3. ASSUME NEW user \in Users, NEW blob \in Blobs, NEW deadline \in Deadlines,
             NEW value \in Payments, NEW fee \in Fees,
             Submit(user, blob, deadline, value, fee)
      PROVE  InBudget(j)'
  BY <1>2, <1>3 DEF Submit, sui
<1>4. ASSUME NEW id \in Ids, DeliverIntent(id) PROVE InBudget(j)'
  BY <1>2, <1>4 DEF DeliverIntent, Sui!lz_receive
<1>5. ASSUME NEW proof \in proofs, DeliverProof(proof) PROVE InBudget(j)'
  BY <1>2, <1>5 DEF DeliverProof, sui
<1>6. ASSUME OriginStep \/ SuiStep \/ UNCHANGED vars PROVE InBudget(j)'
  BY <1>2, <1>6 DEF OriginStep, SuiStep, vars, sui, Sui!Environment, Sui!Tick, Sui!NextEpoch,
     Sui!SetReceiverRelayer, Sui!SetExecutorRelayer, Sui!tables
<1> QED BY <1>1, <1>3, <1>4, <1>5, <1>6, BudgetCrash DEF Next

\* The return leg's cap bounds what is spent on LayerZero: however its attempts time out,
\* lose answers or crash, an intent has at most one proof packet for each attempt the limits
\* allow and for each that ended uncounted.
THEOREM PacketsAreBounded == Spec => []ProofPacketsBounded
<1>1. Init => PacketsInv
  <2> SUFFICES ASSUME Init, NEW id \in Ids PROVE SettlementInv /\ InBudget(id)
    BY InvInit DEF PacketsInv
  <2>1. rows[id].attempts = 0 /\ attempt[id].pc = "idle" /\ uncounted[id] = 0
    BY DEF Init, Idle
  <2>2. Cardinality(Packets(id)) = 0
    BY FS_EmptySet DEF Init, Sui!Init, Packets
  <2>3. Limit \in Nat \ {0}
    BY InvInit, BudgetTypes
  <2> QED BY <2>1, <2>2, <2>3, InvInit DEF InBudget, Budget, Sending
<1>2. PacketsInv => ProofPacketsBounded
  <2> SUFFICES ASSUME PacketsInv, NEW id \in Ids
               PROVE  Cardinality(Packets(id)) <= Limit + uncounted[id]
    BY DEF ProofPacketsBounded, Packets, Limit
  <2>1. Budget(rows[id], attempt[id], uncounted[id], Cardinality(Packets(id)))
    BY DEF PacketsInv, InBudget
  <2>2. /\ Cardinality(Packets(id)) \in Nat /\ rows[id].attempts \in Nat
        /\ uncounted[id] \in Nat /\ Limit \in Nat /\ attempt[id].late \in BOOLEAN
    BY BudgetTypes DEF PacketsInv
  <2> QED BY <2>1, <2>2 DEF Budget
<1> QED BY <1>1, <1>2, PacketsStep, PTL DEF Spec

-----------------------------------------------------------------------------
(* The contract inside the system.                                         *)

\* The composition refines the contract: whatever the relayer, its crashes and the order of
\* the packets make of the calls, the origin chain behaves as EvmEscrow describes.
THEOREM ContractInTheSystem == Spec => Evm!Spec
<1>1. Init => Evm!Init
  BY DEF Init
<1>2. TypeOK /\ [Next]_vars => [Evm!Next]_(Evm!vars)
  <2>1. EvmP!Next => Evm!Next
    BY Zenon DEF EvmP!Next, Evm!Next, EvmP!IdNext, Evm!IdNext, EvmP!SubmitIntent, Evm!SubmitIntent,
       EvmP!OpenEscrow, Evm!OpenEscrow, EvmP!LzReceive, Evm!LzReceive, EvmP!MarkExecuted,
       Evm!MarkExecuted, EvmP!ReleaseEscrow, Evm!ReleaseEscrow, EvmP!Credit, Evm!Credit,
       EvmP!ConfirmExecution, Evm!ConfirmExecution, EvmP!Refund, Evm!Refund, EvmP!RefundEscrow,
       Evm!RefundEscrow, EvmP!DepositUsdcWithPermit2, Evm!DepositUsdcWithPermit2, EvmP!Withdraw,
       Evm!Withdraw, EvmP!SetPermit2, Evm!SetPermit2, EvmP!SetRelayer, Evm!SetRelayer,
       EvmP!NextBlock, Evm!NextBlock, EvmP!Ids, Evm!Ids, EvmP!Accounts, Evm!Accounts,
       EvmP!Tokens, Evm!Tokens, EvmP!intentState, Evm!intentState, EvmP!ledgers, Evm!ledgers,
       EvmP!admin, Evm!admin
  <2>2. EvmP!vars = Evm!vars /\ EvmP!vars' = Evm!vars'
    BY DEF EvmP!vars, Evm!vars, EvmP!intentState, Evm!intentState, EvmP!ledgers, Evm!ledgers,
           EvmP!admin, Evm!admin
  <2> QED BY <2>1, <2>2, EscrowSteps
<1> QED BY <1>1, <1>2, TypeCorrect, PTL DEF Spec, Evm!Spec

\* The contract is as solvent in the whole system as it is alone: whatever the relayer, its
\* crashes and the order of the packets make of the calls, it holds what it owes.
THEOREM EscrowStaysSolvent == Spec => []Evm!Solvent
<1>1. Init => TypeOK /\ EvmP!Solvent
  <2> SUFFICES ASSUME Init PROVE TypeOK /\ EvmP!Solvent
    OBVIOUS
  <2>1. TypeOK
    BY InvInit DEF SettlementInv
  <2>2. EvmP!Init
    BY DEF Init, Evm!Init, EvmP!Init, Evm!Ids, EvmP!Ids, Evm!NoEscrow, EvmP!NoEscrow,
           Evm!Tokens, EvmP!Tokens, Evm!Accounts, EvmP!Accounts
  <2> QED BY <2>1, <2>2, EscrowConstants, EvmP!SolventInit
<1>2. TypeOK /\ EvmP!Solvent /\ [Next]_vars => EvmP!Solvent'
  <2> SUFFICES ASSUME TypeOK, EvmP!Solvent, [Next]_vars PROVE EvmP!Solvent'
    OBVIOUS
  <2>1. EvmP!TypeOK
    BY SameEscrowTypes DEF TypeOK
  <2> QED BY <2>1, EscrowSteps, EscrowConstants, EvmP!SolventStep
<1>3. EvmP!Solvent => Evm!Solvent
  BY Zenon DEF EvmP!Solvent, Evm!Solvent, EvmP!Owed, Evm!Owed, EvmP!MapThenSumSet,
     Evm!MapThenSumSet, EvmP!MapThenFoldSet, Evm!MapThenFoldSet, EvmP!Ids, Evm!Ids,
     EvmP!Accounts, Evm!Accounts, EvmP!Tokens, Evm!Tokens
<1> QED BY <1>1, <1>2, <1>3, TypeCorrect, PTL DEF Spec

=============================================================================
