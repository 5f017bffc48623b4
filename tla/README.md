# Bosphor: TLA+ models and proofs

Bosphor lets a user of an EVM chain or of Solana have a blob stored on Walrus:
the user submits and pays for an *intent* on the origin chain, LayerZero carries
its commitment to Sui, an off-chain relayer uploads the bytes to Walrus, records
the blob on Sui, and returns a proof to the origin chain, which releases the
escrowed payment to the relayer.  This directory holds models of that system,
the instances TLC checks and theorems TLAPS proves about them.

| file | what it is |
|---|---|
| `StoreQueue.tla` | the relayer's durable queue, store pipeline, reaper and ops ledger, with their effects on Walrus, Sui and the origin chain |
| `StoreQueueProofs.tla` | theorems about it |
| `MCStoreQueue.tla`, `StoreQueue_*.cfg` | its instances |
| `EvmEscrow.tla` | the escrow contract of an EVM origin chain |
| `EvmEscrowProofs.tla` | theorems about it |
| `MCEvmEscrow.tla`, `EvmEscrow.cfg` | its instance |
| `SuiStore.tla` | the contracts on Sui that receive intents, accept blobs and send proofs |
| `Settlement.tla` | an intent from payment to settlement: `EvmEscrow`, `SuiStore`, LayerZero and the relayer's spending side |
| `StorageBargain.tla` | what the system promises about payments; `Settlement` implements it |
| `SettlementProofs.tla` | theorems about `Settlement`, the refinement among them |
| `MCSettlement.tla`, `Settlement*.cfg` | the instances of `Settlement` |
| `SolanaAdapter.tla`, `LzInbound.tla`, `SolanaReturn.tla` | the Solana program, LayerZero's receiving end there, and the worker that delivers proofs; also an implementation of `StorageBargain` |
| `SolanaReturnProofs.tla`, `SolanaReturn*.cfg` | theorems about it, the refinement among them; its instances |
| `Intake.tla`, `IntakeProofs.tla`, `MCIntake.tla`, `Intake*.cfg` | how bytes, commitments and deliveries reach the queue: ingest API, watchers, checkpoint stream, byte recovery, lifecycle feed; theorems about it; its instances |
| `Client.tla`, `ClientProofs.tla`, `MCClient.tla`, `Client.cfg` | the SDK's store calls on both origin chains, theorems about them, and their instances |
| `Quotes.tla`, `MCQuotes.tla`, `Quotes*.cfg` | price oracle, quotes, break-even check, Solana fee cache |
| `WalTopUp.tla`, `RateLimit.tla`, `Canary.tla` | the WAL top-up, the rate limiter, the canary |
| `ServicesProofs.tla` | theorems about `Quotes`, `WalTopUp`, `RateLimit` and `Canary` |
| `MCServices.tla`, `Services.cfg` | `Quotes` and those three in one instance |
| `Deployment.tla`, `DeploymentProofs.tla`, `Deployment*.cfg` | the deploy and wiring scripts under the runbooks, and theorems about them |
| `PROJECT.json` | components, runs, the map from definitions to source lines, hazards, findings, theorems |

To check: `tlc -config StoreQueue_replicas.cfg MCStoreQueue`, `tlapm StoreQueueProofs.tla`.

## 1. Inventory

### The path of an intent

1. `submitIntent` on the origin chain derives the intent id, escrows the payment
   above the LayerZero fee and sends `(id, commitment)` to Sui.
2. The watchers see the submission and write it to the lifecycle store; the
   client uploads the bytes to the relayer's ingest API, which checks them against
   the commitment and stages them (`upsertBytes`).
3. LayerZero delivers to `lz_receiver` on Sui, whose `IntentReceived` event the
   checkpoint stream hands to the relayer (`markReceived`).  Bytes and event come
   in either order.
4. A row that has both is claimed, uploaded to Walrus, recorded on Sui with
   `execute_store`, ledgered, its bytes freed, its proof returned, and settled.
5. The proof packet (`_lzReceive`, or `lz_receive` on Solana) marks the intent
   executed and releases the escrow.  When sending fails, the owner-gated
   `confirmExecution` only marks it.  After the deadline anyone may refund.

### Components

| component | state | operations | talks to |
|---|---|---|---|
| Store queue `staged/*` | table `staged_intent`: state, received, bytes, upload, store digest, returned, attempts, backoff, claim and lease | `upsertBytes`, `markReceived`, `drainDue`, `persist*`, `freeBytes`, `mark*`, `reschedule`, `expire*`, `purgeTerminal`, byte-recovery gate | written by ingest, checkpoint stream, processor, reaper, possibly of several processes |
| Intent processor `intent/*` | `inProcess`, `tickStartedAt`, the attempts in flight | `tick`, `runStore`, `store`, return legs, `recoverMissingBytes`, start and drain | queue, lifecycle store, Walrus, Sui, EVM, Solana, ledger |
| Ops ledger `ledger/*` | table `storage_op_ledger` | inline `recordCompletedStore`, `backfill` sweep | queue |
| Ingest API `ingest/*` | none of its own | `ingest`: commitment, deadline, size and blob-id checks, admission against the staged-bytes cap | lifecycle store, queue |
| Lifecycle store and watchers | hops and commitment of each intent; block cursors | `recordHop` (merge), polling | chains, processor, ingest |
| Sui checkpoint stream | checkpoint cursor | poll, backfill, `processCheckpoint` | processor |
| EVM escrow adapter | `nonces`, `intents`, `executed`, `escrows`, credits, trusted relayer, Permit2 | `submitIntent`, `_lzReceive`, `confirmExecution`, `refund`, `withdraw*`, `depositUsdcWithPermit2`, admin | LayerZero, users, owner |
| Solana adapter | intent and escrow accounts, vault | `submit_intent`, `lz_receive`, `confirm_execution`, `refund_escrow` | LayerZero, return worker |
| Sui contracts | received and executed intents, relayer | `lz_receive`, `execute_store`, `lz_send_proof`, `confirm` | LayerZero, relayer |
| Pricing, settlement | price cache, P&L | quote, break-even guard, reconciliation | escrow reader, oracle |
| Walrus client, WAL top-up | top-up in flight | `upload`, store epochs, `ensureWal` | Walrus, exchange |
| Solana return worker `scripts/solana` | packets seen, frontier at which healing stopped (in memory) | loop, single delivery, heal; the operator's skip | Sui events, LayerZero endpoint, Solana program |
| SDK `sdk/src` | a call's progress | `store`, `submit`, `upload` with retries, `awaitProof`, resume | ingest, quotes, origin chain |
| Rate limiter `api/rate-limit.ts` | windows per address and application | `hit`, `sweep`, eviction | HTTP routes |
| Canary `canary/src` | a flag per leg, last outcome | preflight, probe, record | SDK, chains |
| Deploy and wiring scripts `scripts/deploy`, `scripts/util`, `scripts/solana` | the env file | one transaction per step, env written last | chains, operators |
| metrics, config, chaos, website | counters | plumbing | |

`PROJECT.json` lists each with its sources and status.

### What is hard here, and what would be wrong

- **The queue.**  Every step of a store is an `await`, an attempt works on the
  columns its tick read, JavaScript cannot cancel an attempt whose timeout
  elapsed, a tick may be presumed hung and overlap its successor, and several
  processes share the table through a lease.  Correct means: the origin chain is
  never told of a store that Sui did not record; a row is done only when answered;
  the only durable copy of accepted bytes is kept until the blob is recorded; the
  ledger loses no completed store; a settled row does not come back; a row that is
  ready is settled in the end, whoever crashes.
- **The escrow.**  Proof, owner confirmation, refund and deposit race around a
  deadline.  Correct means: each escrow pays exactly once, to who earned it, and the
  contract holds what it owes.
- **Intake.**  Four producers write one table and one feed.  Cursors move past events
  whose handling may have failed, hops are merged from stale reads, a watcher starts at
  the chain head, uploads race for one cap.  Correct means: an event is in the tables
  before a cursor passes it, or its loss has a name; a client's answer is true; a
  delivered intent is stored though its client is gone.
- **The return leg to Solana.**  Delivery is three transactions per packet, each of which
  may land unanswered; the endpoint delivers in order, so one lost packet blocks the rest.
  Correct means: what the worker has put aside is really delivered; a packet is skipped only
  when it is lost; a deliverable proof is delivered.
- **The client.**  Money leaves the wallet in the middle of a call.  Correct means: the
  call reports what it paid for, the price is the quoted one, and the call ends, unless an
  await that nothing bounds (a pending transaction) is never answered.
- **Prices.**  The quote is made long before the spend it must cover, from two feeds of
  which one may be wrong.  Correct means: the quote is honoured unless costs rose beyond
  its buffers, and a wrong feed costs a bounded share.
- **Operations.**  Scripts die between transactions, and two operators share an env file.
  Correct means: the file names only complete deployments, a deploy does not touch the live
  one, and re-running brings the lane up.
- **The money.**  The relayer spends WAL before it is paid, on the strength of an
  escrow on another chain with another clock; a packet may have left although the client saw
  an error, and the fallback confirmation then makes its delivery revert.  Correct means:
  a payment is released only for a blob that Sui accepted, and goes to one side once; a
  proof is one the origin chain accepts; the books say what happened.

## 2. Plan

| order | module | composes | status |
|---|---|---|---|
| 1 | `StoreQueue`, `StoreQueueProofs` | queue, processor, reaper, ledger | done |
| 2 | `EvmEscrow`, `EvmEscrowProofs` | adapter, vault | done |
| 3 | `SuiStore`, `Settlement`, `StorageBargain`, `SettlementProofs` | `EvmEscrow` with the Sui contracts, LayerZero and the relayer's guard, return leg and P&L; refines `StorageBargain` | done |
| 4 | `Intake` | ingest with concurrent upserts, checkpoint cursor, watchers, feed, byte recovery | done |
| 5 | `SolanaAdapter`, `LzInbound`, `SolanaReturn` | the program, the endpoint and the worker; refines `StorageBargain` | done |
| 6 | `Client` | the SDK against the answers of chains and relayer | done |
| 7 | `Quotes`, `WalTopUp`, `RateLimit`, `Canary`, `MCServices` | the services beside the pipeline | done |
| 8 | `Deployment` | the scripts and the runbooks | done |
| 9 | `ClientProofs`, `IntakeProofs`, `SolanaReturnProofs`, `DeploymentProofs`, `ServicesProofs`; mutual exclusion in `StoreQueueProofs`, the books in `SettlementProofs` | the inductive invariants of the parts above | done |
| 10 | sums and counts: `Solvent` in `EvmEscrowProofs`, the contract inside the system and the packets in `SettlementProofs`, the rate limiter in `ServicesProofs` | every invariant the runs check is a theorem | done |

## 3. StoreQueue

**State.**  `rows` is the table: a record per intent, `absent` when there is no
row.  SQL NULLs that the code tests are Booleans or `None`; `next_attempt_at` is
`due`, the lease is `claimedBy` together with `LeaseExpires`.  `task[p, k, i]` is the
attempt of process `p`, tick slot `k`, on row `i`: the `await` it stands at and its
own copy of the columns `mapRow` returned, since `store()` never reads the row
again.  `inProcess` is the processor's set.  `ledger` is the ops ledger;
`uploaded`, `recorded`, `proofSent`, `confirmed` are what Walrus, Sui and the
origin chain remember.

**Actions.**  One per statement or `await`: producers (`ObserveCommitment`,
`UpsertBytes`, `MarkReceived`), the claim loop (`DrainDue`, `Consider`,
`GetCommitment`, `TickFails`), the pipeline (`Check`, `Upload`, `PersistUpload`,
`ExecuteStore`, `PersistStore`, `RecordLedger`, `FreeBytes`, `SendProof`,
`ConfirmExecution`, `MarkReturned`, `MarkDone`), failure (`StepFails` of any step,
`TimesOut`, `HandleFailure`), the ledger sweep and the reaper (`Backfill`,
`ExpireDue`, `ExpireUnreceived`, `PurgeTerminal`), processes (`Boot`, `Crash`) and
time (`BackoffElapses`, `LeaseExpires`, `DeadlinePasses`, `WatchdogElapses`).
Updates of one row are SQL updates by `intent_id`: they do nothing when the
reaper has purged the row, and only those the code guards with `state = 'active'`
are guarded.  `ExecuteStore` follows `execute_store` on Sui: it needs an object the
relayer still owns, a deadline not passed and an intent not recorded; abort code 2
counts as recorded; its answer may be lost.  A failed write in the catch block
leaves the row claimed until the lease ends.

**Time.**  The configuration orders the limits: attempt timeout < tick watchdog <
lease < retention.  `Outlasted` names the limits that an await *without* a timeout
(a database call that hangs) may outlast.  The empty set is the healthy system;
with `"watchdog"` ticks overlap, with `"lease"` a claim is lost under an attempt that
is still awaited; `"retention"`, a row purged under one, is left to the theorems, which
hold for every `Outlasted`.

**Bounds.**  `Objects` bounds uploads, `Ticks` the overlapping ticks of a process,
`Procs` the boots.  Two objects are needed for a second upload of one intent, two
processes for a takeover, two tick slots for an overlap or for a straggler met by a
later tick, two attempts for a retry.  At least one
process survives (`Crash`).  The queue may stop: once every row is settled or waits for
its producers, and the deadlines have passed, nothing is left to do, so its runs do
not check for deadlock.

**Runs.**

| run | instance | shows |
|---|---|---|
| `queue_replicas` | 1 intent, 2 processes, 2 uploads, 2 attempts | nothing false is proved, settled or freed (`AnsweredMeansRecorded`, `DoneMeansAnswered`, `BytesKeptUntilRecorded`); awaited attempts never share a row (`AwaitedAttemptsDisjoint`); a settled row is not revived (`TerminalIsFinal`); a completed store is purged only with its ledger entry (`PurgedStoreIsLedgered`) |
| `queue_overlap` | 1 intent, 1 process, 2 ticks that overlap, awaits that outlast watchdog and lease | the inductive `HonestInv`, with stale copies |
| `queue_batch` | 2 intents, batch 2, concurrency 1, 2 tick slots | `ProcessRunsRowOnce` with stragglers, `LedgerIsEvidence` |
| `queue_takeover` | 1 intent, 2 processes, fairness | `ReadyIsSettled` |

Three further configurations have TLC show where the code departs from what is said of it:
`StoreQueue_claims_taken_over.cfg`, `StoreQueue_expires_stored.cfg` and
`StoreQueue_buries_recorded.cfg` (section 11).

**Fairness** (`FairSpec`).  The claim loop and the reaper are `@Interval` timers, so
`DrainDue` and `ExpireDue` are weakly fair; an awaited call settles or times out;
backoffs and the lease of a dead process elapse by the clock.  Strong fairness is
assumed of two database operations, the commitment lookup and the catch block's
write: a database that is asked again and again answers in the end.  A call that
outlived its timeout is assumed to settle; without it `ReadyIsSettled` does not hold
in one process, because the slot stays taken.

**Other disagreements met** (described here, without a run of their own):

- `intent.processor.ts:290` tests `inProcess` before the await of `getCommitment`
  and `runStore` adds to it only after the scan, and `drainDue` returns a process's
  own claimed rows, so two overlapping ticks can both start one row, although the
  comment at lines 89-90 says they get disjoint rows.  That is why
  `ProcessRunsRowOnce` is stated of runs without hung ticks.
- A failure between `walrus.upload` and `persistUpload` makes the retry buy a second
  object (`website/docs/benchmarks.md:130`: "never a second Walrus upload").
- `markDone` and `markDead` have no state guard, so a straggler turns one terminal
  state into another (`website/docs/relayer.md:157`: "`state = 'active'` guards every
  write").  `TerminalIsFinal` states what does hold.
- `withTimeout` does not abort the call, so a hung one keeps its in-process slot
  (`config.schema.ts:215`: "instead of pinning the in-process slot forever").

## 4. EvmEscrow

`BosphorEscrowAdapter` and `EscrowVault`: a transaction is a step, a revert is no
step.  `intents`, `executed`, `escrows` are the contract's mappings, `credit` both
pull-payment ledgers, `balance` what the contract holds.  `proven` remembers which
executions came from a proof packet.  An intent id *is* the tuple its hash
commits to, so ids are injective; the commitment is reduced to blob and deadline.
`OpenEscrow` is both `_openNativeEscrow` and `_openTokenEscrow`.  `withdraw` clears
the credit before it pays, so what a receiver calls from inside it is a later step.

The instance has two users, two relayers, two blobs, one submission each, two payments
and two fees (a payment below, at and above a fee), and three block times around the
one deadline.  Checked: `Solvent`
(holdings equal pending escrows plus credits, in each token), `ReleasedMeansProven`,
`RefundedAfterDeadline`, `SlotBelongsToSubmission`, `CreditsAreEarned`; that `value - fee`
never underflows is the theorem `TypeCorrect`.

`SlotBelongsToSubmission` also records a limit of the Permit2 path: a deposit takes
the slot of its intent id, `submitIntent` then reverts for that id, and a release
needs a submitted intent; so a deposit can only be refunded, although the comment at
`BosphorEscrowAdapter.sol:152-153` has it "released/refunded through the same
proof-gated lifecycle as native".

## 5. Settlement

**Parts.**  `SuiStore` models `lz_receiver` and `walrus_executor`, and what they need of
Sui and Walrus: blob objects with an end epoch, the
current epoch, the clock in milliseconds (the deadline is in seconds).  `Settlement`
takes `EvmEscrow` and `SuiStore` by INSTANCE and adds the relayer: the columns of a row that
money depends on, the attempt on it, the P&L ledger.  Each chain has its own clock and
nothing relates them.  LayerZero is external: a packet is delivered once, at any time and
in any order; one that reverts may be tried again.

**Actions.**  `Submit`, `DeliverIntent`, `DeliverProof`, `OriginStep` (refund, withdrawal,
owner, time) and `SuiStep` for the chains; `Stage`, then `Start` or `Reject` for the
checks of `store()` before it spends (bytes, duration cap, break-even), `Decline` for what
follows a reason to decline (the row is marked dead, which may fail or time out, then the
skip is booked), one action per call after them, `CallFails`, `HandleFailure`, `TimesOut`, `Crash`, `Expire`.  A call may
take effect and lose its answer (`Landed`; `SendProof` and `Confirm` likewise).  The relayer
is one process, because several are the subject of `StoreQueue`.  The P&L ledger is a map in
memory, so `Crash` empties it.  The guard may decide nothing (`None`): the reader returns no
terms when the escrow is not pending and native, and also when reading it failed.

**Bounds.**  One user and one submission: intents share no escrow, row or packet, so a
second one adds only interleavings.  Two blobs (committed and other bytes); a payment
between the two fees, so that one submission reverts; costs below and above what the
escrow covers with its margin; caps below and at the committed duration; two uploads, so
that one can be lost and repeated; one epoch change; two and three attempts; one attempt
lost uncounted.  The clocks pass the deadline.  An intent may settle or expire for good, so
the runs do not check for deadlock.

The run `settlement` checks `KeepsTheBargain` (refinement of `StorageBargain`: paid only for
an accepted blob, each payment to one side once), `ProofPacketsBounded` (the cap on the
return leg bounds the packets of an intent over retries, timeouts and crashes) and
`BooksAreHonest`.  `ProofsAreAcceptable` (every packet names a submitted intent and its
committed blob) is proved, and holds in this instance when it is added to the configuration.
`Settlement_booked_refunded.cfg` and `Settlement_epoch_rollover.cfg` show two
departures (section 11).

**Other disagreements met.**

- `processor` books a P&L entry only in the attempt that asked the guard, so an intent that
  is completed by a retry after its upload, or after a restart, has none.
- A failed read of the escrow makes the guard inert (`getEscrow` returns null on error), and
  the store proceeds.
- The comment at `intent.processor.ts:428-430` says of the post-store cap that the
  never-lose-money invariant holds; WAL is spent by then, and the escrow goes back
  to the payer after its deadline unless a packet got through.

## 6. Intake

**State.**  `log` is what each origin chain emitted, `delivered` the Sui checkpoints, `feed`
the lifecycle table, `rows` the columns of the queue the producers touch.  Each watcher has
a cursor and the batch it polled, as the places in the log it has yet to handle; the
checkpoint poll has the cursor file and the pass in progress; each upload is a request with the
`await` it stands at; `copy` is what a writer of the feed has read and not yet written back,
because `recordHop` reads, merges and writes in separate statements.  `lost` names the events that were really lost: a write whose error
`onReceived` swallows, a checkpoint or transaction the node did not serve, a watcher that
booted past the event.

**Actions.**  `pollLifecycleEvents`, `pollIntentSubmitted`, `WatchRead` and `WatchWrite`;
`backfill`, `processCheckpoint`, `SkipCheckpoint`; `ingestBlob` and the steps of an upload
(`FastPath`, `EncodeBlob`, `upsertBytes`, `Reread`); `recoverMissingBytes`; the pipeline by the
hops it writes (`tick`, `StoreStep`, `trackHop`); `Restart`, and a failure of each.
`upsertBytes` is two steps, as its sum is taken in the statement's snapshot, which does not
contain what a concurrent statement has not committed.

**Run `intake`** (`MCIntake`), two environments in one instance.  With one intent submitted, on
either chain: one upload of any bytes, one empty checkpoint, and one fault, wherever it falls, or
the deadline.  With both submitted, which the cap needs, there is no fault and no empty
checkpoint: the client of the EVM intent uploads, again when the answer tells it to, that of the
Solana intent is gone, one deadline may pass, and the cap is one blob.  `MCSpec` restricts only
what the environment does.  Checked: `NothingSlipsBy`, `AnswersAreTrue`, `CommitmentSticks` (no
writer of the feed erases a commitment, though each writes back an earlier read) and
`DeliveredGetsStored`.  `intake_cap`, two uploads without a fault, is **violated** (section 11).

*`DeliveredGetsStored`.*  Byte recovery fetches the blob of a delivered intent that has no bytes.
It may meet a cap held by the other blob, is answered "backpressure", and must get in later:
when the holder's bytes are freed after its upload, or by the reaper at its deadline.
The property has three exceptions: the deadline of the intent passes, an event of it was lost,
or the cap is full of blobs whose intents the queue does not know to be delivered.  The last is
what the code does: nothing but their own deadlines removes such blobs, and as long as one
follows the other, a delivered intent's recovery is refused with "backpressure", and
`recoverMissingBytes` backs off to be refused again.  Fairness: pollers, recovery sweep, reaper
and claim loop run on timers, a running attempt goes on.  That a node, the aggregator and the database answer or
fail in the end is an assumption on them: the awaits of these loops have no timeout of the
relayer's (only `store()` has, and new database connections), and each loop waits for its last
pass, so that one call that hangs for ever stops it.  Nothing is assumed of clients, deliveries
or faults.

## 7. SolanaReturn

`SolanaAdapter` has one action per instruction, with the account constraints and `require!`s
as guards; a vault is closed rather than marked, so `closedTo` remembers to whom.
`LzInbound` (external) has what the worker relies on: attest, commit, clear, skip, and an
inbound nonce that ends the gapless run.  `SolanaReturn` composes them with the proofs the
relayer sent and the worker: `Query`, `healReturnGap`, `Scan`, then `Deliver`, `Verify`,
`Commit`, `Receive` for a packet, `EndTick`; `runOne` for a single digest, `Crash`, and the
operator's `SkipReturnNonce`.  Every send may land, fail, or land unanswered (`sendPolled`).
What the worker has to deliver and what it saw of the window are sets of nonces, taken in
ascending order, as the code walks them oldest first.
The relayer's `confirmExecution` is the admin's fallback: it marks and never pays.

**Run `solana`.**  One payer, two intents, two packets among three events, a window of one and
a history of two events, so that packets fall out of the window and out of the history; two
faults.  `SeenMeansCleared`, `SkippedWasLost`, `KeepsTheBargain`, `ProofsGetCleared` under weak
fairness of the worker and of its restart by the service manager.  The history answers in
this run; `SolanaReturn_gives_up.cfg` lets a page fail (section 11).

## 8. Client, services, operations

**Client.**  A call of `store()` or `storePriced()` await by await on the EVM and the Solana
client: encode, quote, submit, upload with the retry policy, await the proof, abort,
resume.  The chains and the relayer are the answers they may give.  Two calls of one wallet run
at once, one EVM or Solana store beside a Solana store, so that nonces race; fees move once;
one fault; one resume.  The run `client` checks `ProgressIsTrue`, `PaidIsReported`,
`ChargedAsQuoted` and `StoreSettles`.

Any await of a call may stay unanswered for good (`Hangs`): the SDK gives its requests no
timeout, and `tx.wait()` returns when the transaction is mined and not before.  The
signal is handed to the requests to the relayer, so it ends those (`TakesSignal`, `Cancelled`)
and the waits between them (`throwIfAborted`), and nothing else.  In the instance a call hangs
only while it is the only one (`HangsAlone`): to another call, one that hangs is one that is
slow.  `StoreSettles` says that a call ends, or is stuck at an await that nobody answers and
that is not a request to the relayer whose signal was raised.  So retries, server-sent delays and polls are bounded, and a signal frees a call
from a relayer that stalls; a pending transaction, a wallet or a chain's view that never
answers does keep the call.  Fairness: the continuation of an answered await runs, and
timers fire (`WF` of `Own(c)`, which a call that hangs does not enable); that anything is
answered is not assumed.

**Quotes.**  One quote from `POST /quote` to the break-even check, with moving prices, one feed
that lags or is wrong by a half, 15 % or a factor two, moving Walrus and LayerZero costs; and
the Solana fee service with its cache, shared simulation and remembered failure.
`QuoteIsHonoured`, `LossIsBounded`, `FeeIsRecent`.  Amounts are small integers with the code's
rounding directions.

**WalTopUp, RateLimit, Canary.**  Two callers of `ensureWal`, stores and gas that spend in
between, one lost answer, two refills: `SwapsAreJustified`.  One address, two applications, a
window of two, three keys and a sweep every third hit: `BurstIsBounded` is about any window of
time, not only the limiter's own.  Two legs with a timer each, a Solana leg that may never
answer: `OutcomesAreTrue`, and `EvmKeepsProbing` under weak fairness of the EVM leg alone.  A
round trip of either leg may hang for good (`hung`), as it submits through the SDK's `tx.wait()`
and `CANARY_MAX_WAIT_MS` bounds the return leg only; `EvmKeepsProbing` excepts a hung EVM round
trip, since its guard `running` then stays set, and says that nothing on Solana stops EVM.
These and `Quotes` share no state, so `MCServices` lets each behaviour
exercise one of them.

**Deployment.**  A script reads the env file when it starts and sends one transaction per step;
the deploy scripts write the file last.  One operator follows a runbook (first deployment, escrow
redeploy, Solana lane), another may run any one script at any time, one script dies.
`EnvIsComplete`, `LiveLaneUntouched`, `LaneComesUp`.  Fairness: a running script goes on, the
operator goes on with the runbook; strong fairness only of acting on a refusal the script
prints, as another run may disable it again and again.

## 9. Runs

| run | module | expected |
|---|---|---|
| `queue_replicas`, `queue_overlap`, `queue_batch`, `queue_takeover` | `MCStoreQueue` | pass |
| `evm_escrow` | `MCEvmEscrow` | pass |
| `settlement` | `MCSettlement` | pass |
| `solana` | `SolanaReturn` | pass |
| `intake` | `MCIntake` | pass |
| `client` | `MCClient` | pass |
| `services` | `MCServices` | pass |
| `operations` | `Deployment` | pass |
| `intake_cap` | `Intake` | violated |

The type invariants of `StoreQueue`, `EvmEscrow`, `Settlement` and `SolanaReturn` are theorems;
those of the other modules hold in the instances above and are left out of the configurations.  Deadlock is
checked where the system may not stop (`evm_escrow`); the others may come to rest once every
intent is settled, every call has ended or every script has run.

## 10. Proofs

All theorems hold for every value of the constants under the assumptions named in
the modules (`ConstantsAssumption`: positive limits and a NULL that is nothing
else; `EscrowAssumption` and `SettlementAssumption`: amounts, deadlines, limits and bounds are
naturals; `NoneAssumption`: the NULL of `Settlement` is no object and no commitment;
`ConstantsAssumption` of `Client` and of `Intake`, `ReturnAssumption`, `DeploymentAssumption`,
`WalAssumption`, `QuotesAssumption`, `LimitAssumption`: the numbers are naturals, positive where
the code divides by them or a schema has a minimum (`config.schema.ts:167-179` for the limiter),
the two chains' intents differ, and placeholders are nothing else).  `FinitenessAssumption` of
`EvmEscrow`, repeated in `SettlementAssumption`: users, relayers, blobs and deadlines are
finitely many, as addresses, 256-bit ids and 64-bit deadlines are; without it a sum over all
accounts means nothing.  Hypotheses beyond those are in the theorem's ASSUME.

**StoreQueueProofs.**  `TypeCorrect`, then `Honest`: `HonestInv` is inductive.  The
safety properties are not inductive by themselves: `sendProof` looks only at where the
attempt stands, so one must know that an attempt stands there only when Sui has
recorded the intent; that depends on the attempt's copy of the row, hence on what
rows say.  `HonestInv` therefore adds `RowsTellTheTruth` and
`AttemptsTellTheTruth`.  They survive staleness because the chains only grow
(`Grow`): a copy that was true stays true, whichever attempt, process or reaper writes in
between.  The step lemmas are per action: what the row writes keep (`RowClaims`,
`Keeps`) and what the attempts keep (`TaskClaims`).  From it follow `NoFalseProof`,
`NoFalseDone`, `NoEarlyFree`, `NoFalseLedger`, and the action properties `NoRevival`
and `NoUnledgeredPurge`.  None of it assumes anything of the lease, the watchdog or the
in-process guard: honesty does not depend on mutual exclusion.

**EvmEscrowProofs.**  `EscrowInv` is the conjunction of the type invariant and three
of the safety invariants, which need each other: a release is native because the
slot of a submitted intent is, and a refund leaves proven intents alone because theirs
is no longer pending.  `Aside` covers the steps that leave slots, intents and proofs
alone, `OpenEscrowKeeps` both ways to open one.  `OnlyEarnedCredit` is an action
property proved from the types and `CreditEffect`.

*Solvency.*  `Solvent` compares a balance with two sums over finite sets.  The library's
induction theorems take an operator as a parameter, which the provers cannot instantiate; the
laws of sums are proved instead by induction over a *set* of finite sets, with the well-founded
order on cardinalities: the sum of a set with one element more, of a function changed at one
place, of two functions that agree.  `ContractIsSolvent` then has a step per way money moves:
an escrow opens (balance and sum grow alike), is released or refunded (from the pending sum to a
credit), a credit is withdrawn.

**SettlementProofs.**  `EscrowSteps` shows that what a step of the composition does on the
origin chain is a step of the contract, so the facts of `EvmEscrowProofs` are used by
instantiation instead of being proved again.  `SettlementInv` is inductive.  Neither
`KeepsTheBargain` nor `ProofsAreAcceptable` is by itself: `lz_send_proof` does not ask whether
the intent was executed, so that a proof is of a recorded store rests on where the attempt
stands, that on the columns of the row it started from (`Resume`), and those on what
earlier attempts found; `RowsTellTheTruth`, `AttemptsTellTheTruth` and `PacketsTellTheTruth` say
so, and `SuiKept` that a record on Sui stays.  `OneRow` reduces a step to the row and the
attempt it leaves behind.  From it follow `TypeCorrect`, `AcceptableProofs` and `BargainKept`:
each step maps to one step of `StorageBargain` (a submission pays, `execute_store` stores, a
proof earns, a refund gives back) or to none.

**SettlementProofs, the books.**  `HonestBooks` adds to `SettlementInv` why an entry is true when
it is made and stays so: `Books` relates entry, row and attempt to the chains (what Sui
recorded was persisted as uploaded before, the steps after the return leg have an answer, a
decision to store covers its cost, a skipped row is dead and has no attempt), `Earned` says that
a released escrow has its record on Sui.  Neither chain takes an answer back
(`AnswersGrow`).

**SettlementProofs, the packets.**  `PacketsAreBounded`: `Budget` says when an attempt pays for the
packet it sends, namely when it is counted, when it ends uncounted, when it buries the row or when
it finishes it.  An attempt under way has yet to pay; a late one has paid at its timeout, also for
the packet it may still send.  A row is counted less than the larger limit, so the packets are
at most that limit plus the uncounted attempts.

**SettlementProofs, the contract in the system.**  `ContractInTheSystem` shows that the composition
refines `EvmEscrow`: every step is one of the contract or leaves it alone, whatever the relayer and
the packets do.  So what is proved of the contract holds in the system, and
`EscrowStaysSolvent` states the most important part.

**StoreQueueProofs, mutual exclusion.**  Unlike honesty it depends on time, so the theorems have
hypotheses about `Outlasted`.  `SlotIsExclusive` (no tick is presumed hung while in flight):
`SlotInv` says that the awaited attempts of a process belong to one tick, that
`inProcess` contains every running attempt, a straggler included, and no attempt that has
yet to start.  `AwaitedRowIsHeldOnce` (nothing is outlasted): `HeldInv` adds that an awaited attempt
holds the row's claim (`ClaimHeld`), which no one else takes before the lease ends.  The
first disagreement of section 3 is why the first hypothesis cannot be dropped, and
`StoreQueue_claims_taken_over.cfg` why the second theorem speaks of awaited attempts.

**ClientProofs.**  For any calls, fees, caps and retry policy.  Each of the three properties looks
at both ends, so `ClientInv` has a part per end: `CallGood` says for where a call stands
which intent is its own and what was answered about it, `IntentGood` says of an intent on
chain which call sent it and with what fee.  `SubmitsOnce` ties them: a call has one
intent, so a nonce that two calls read is used by one of them.

**IntakeProofs.**  For any intents, uploads, checkpoints and faults.  `IntakeInv` follows the
events: `WatchOk` says that up to the cursor a submission is recorded or named in `lost`, and
while a batch runs, up to the new cursor, or is still in the batch; `PassOk` says the same of the
checkpoint pass and the cursor file.  `LogOk` and `StoreOk` say why a writer cannot erase a
commitment: an attempt runs only on a committed row, so its copy has the commitment, and a
proof is back only of an intent that had one.  `FeedOk` and `RequestOk` carry the answers.
`NoEventSlipsBy`, `CommitmentIsKept` and `AnswersHold` follow.

**SolanaReturnProofs.**  For any payers, packets, windows, histories, faults and crashes.
`ReturnInv`: the proofs to Solana are numbered in the order of their events and each is of a
stored blob (`EventsOk`), a closed vault is gone and its intent stays, so that the id is not used
again (`EscrowOk`), and `seen` is cleared at the endpoint, because clearing is never undone.
`ReturnTypes` and `SeenIsCleared` need nothing more.  `SkippedIsLost` supposes that no page of the
history fails (`PageErrors = FALSE`; `SolanaReturn_gives_up.cfg` shows why) and adds `GoneOk`: a
nonce the worker has given up on has left the history, which only moves on.
`ReturnKeepsTheBargain`, the refinement of `StorageBargain`, supposes that no admin key is a
payer's: to whom a vault was closed then tells the sides apart.

**DeploymentProofs.**  For every runbook, any scripts of the second operator and any deaths.
`LaneInv` says what a running script has already done at each step and that what it read when
it started is as good as what the file says now (`RunOk`), what the peers of adapters are
(`PeersOk`) and what the file names (`EnvOk`); packages are only added, or configured further
(`SuiGrows`), so a stale copy stays good.  `EnvNamesWholeDeployments` follows.
`DeployTouchesItsOwn` needs in addition that what a deploy script makes is named by no one
else: `BuildInv`, over both operators and the env files they have read.

**ServicesProofs.**  `WalTopUp`, `RateLimit` and `Canary` share no state with the others, so their
theorems are about their own specifications, `WalSpec`, `LimitSpec` and `CanarySpec`, of which a
behaviour of `MCServices` exercises one.
`WalInv` bounds the balance by the swaps that have landed and says what a run that
is about to swap has read; only one run is under way (`OneRun`).  `CanaryInv` adds types
only.  `FeeInv` dates what the fee service knows: a fee under way was live when it was read
and was asked for at most `MaxLatency` ago, the cached one when it was cached.  From it
`ServedFeeIsRecent` and `SimulationsAreRare`.
`QuoteInv` says of a quote that its escrow, in the origin token, covers the buffered cost
with the margin after rounding (`QuoteOk`).  The arithmetic is in lemmas about naturals:
`EscrowCovers` (rounding up loses nothing), `BuffersSuffice` (prices that rose within the buffers
leave the guard's margin), `DeviationCosts` (15 % on either side of a ratio), and `PricesAgree`
(what the oracle answers is within 15 % of every fresh feed).  `QuotesAreHonoured` supposes
`StoreEpochs <= MaxEpochs`: the defaults are 5 and 53, but `config.schema.ts:140-144` does not
compare them, and otherwise every quote without a duration is sold and then refused.
`WrongFeedCostsAShare` needs no hypothesis.

*The limiter.*  `BurstsAreBounded`.  `recent` holds a key's hits, moment by moment, over the length
of one window.  `Frugal` says of a key with an open window that the hits since it opened are at
most its count, that one of them fell on its opening, and that the hits before are fewer than the
budget; of a key without one, that all its hits are fewer than the budget.  It is the first hit
that makes the bound strict: when the window is over, that hit has left `recent`.  What
`hit` does to the array of windows is in lemmas of its own: a sweep and an eviction keep the order
and the other keys' windows (`SweepEffect`, `EvictEffect`), a renewal touches one (`ReplaceWindow`).
A sweep is a fold, and the sum over the moments is one, so `FoldExists` and `CountsExist` unroll
folds by induction over sets of numbers, as above.

**Only model-checked.**  `ReadyIsSettled`, `DeliveredGetsStored`, `ProofsGetCleared`,
`StoreSettles`, `EvmKeepsProbing`, `LaneComesUp`: liveness under fairness, which this prover does
not do.  Every other property of a passing run is a theorem.  `TypeOK` of
`Intake` has no theorem of its own; what the proofs need of it is part of `Shape`.

## 11. Disagreements met

**`intake_cap`** (the finding of `PROJECT.json`).  `upsertBytes` sums and inserts in one
statement; two statements for different intents conflict on no row and see snapshots
without each other's bytes, so both are admitted.  `staged-intent.store.ts:174` has them
"serialised" and `intent-ingest.service.ts:101` says that they "can never both slip past the"
ceiling.

**Further configurations**: TLC violates the named property, which states what is quoted.

| configuration | module, property | what the code does, what is said |
|---|---|---|
| `StoreQueue_claims_taken_over.cfg` | `MCStoreQueue`, `RowRunsOnce` | a timed-out attempt's `reschedule` gives up the claim while its `store()` runs, so another process drives the row too; `benchmarks.md:131`: "it is never driven twice at once" |
| `StoreQueue_expires_stored.cfg` | `MCStoreQueue`, `ExpiredNeverStored` | `expireDue` selects by deadline only and expires a stored row that owes its return leg; `staged-intent.types.ts:21`: "deadline passed before it stored" |
| `StoreQueue_buries_recorded.cfg` | `MCStoreQueue`, `UnstoredDeadLetterIsUnrecorded` | after a lost answer of `execute_store` the object is no longer the relayer's, the retry fails on ownership and not with abort code 2, and a recorded blob is dead-lettered as pre-store; `config.schema.ts:210`: "blob not yet on Walrus+Sui" |
| `Settlement_booked_refunded.cfg` | `MCSettlement`, `BookedNeverRefunded` | the value is booked as collected when the packet was sent or the fallback mined, and may still be refunded; `chaos/src/scenarios.ts:249`: "No reimbursement is booked without a real proof" |
| `Settlement_epoch_rollover.cfg` | `MCSettlement`, `UploadCoversCommitment` | the epochs bought count from the upload, the check in `execute_store` from its own epoch, and a retry reuses the upload; `commitment-format.md:40`: "the stored duration always covers the commitment" |
| `SolanaReturn_gives_up.cfg` | `SolanaReturn`, `SkippedWasLost` | one failed page ends the search, and the worker tells the operator to skip a nonce that is still in the history (`solana-return.ts:552`, `607-610`); the comment at 567-581 has it pause for unrecoverable nonces only |
| `Intake_gone.cfg` | `Intake`, `GoneMeansSettled` | the cap refuses the write, then other bytes are freed before the total is read again: the outcome is 'terminal' and the client gets 410 for an active row; `staged-intent.store.ts:160`: "the row exists but is terminal" |
| `Quotes_return_fee.cfg` | `MCQuotes`, `SpendIsCovered` | the guard uses the configured return fee (`intent.processor.ts:552-553`); `quote.service.ts:71`: "recomputes them at execution time against live values" |
| `Deployment_m4.cfg` | `Deployment`, `LaneComesUp` | `M4_REDEPLOY.md` has `wire.ts` run while `EVM_ADAPTER_ADDRESS` still names the old adapter, so the escrow adapter is not wired |
| `Deployment_dvn.cfg` | `Deployment`, `DvnsAgree` | `set-dvn.ts` fails after its EVM half; its header says it updates both sides |

`Quotes.cfg` is the pricing half of `services` alone, with `SimulationsAreSpaced` (one
simulation per cache age, however many callers).

**Without a configuration.**

- `lifecycle.types.ts` calls the status the furthest hop reached; a retry of the return leg
  records `received` again, and the status moves back.
- `sdk/src/solana/client.ts:104-108` says that the id is never assumed from a nonce; the backend
  derives it from the nonce it read.  `ProgressIsTrue` holds because the transaction that
  loses the race aborts.
- The quote checks `WALRUS_MAX_EPOCHS` only, the store also `max_epochs_ahead`: a quoted duration
  may be refused (the first exception in `QuoteIsHonoured`).
- The canary awaits the Solana probe's construction before any timer is set, so a Solana RPC
  that fails at startup also stops EVM probing; `main.ts:88-93` holds once the timers are set.
- `tx.wait()` in `sdk/src/evm/client.ts:347` has no timeout and does not take the signal: a
  transaction that stays pending or is dropped keeps `store()` for ever, although `AwaitProofOptions`
  has its signal cancel "the whole `store` flow" (`store-flow.ts:77`), and the canary's EVM leg with
  it: `canary/src/main.ts:101-118` skips every later tick.
- A swap whose answer was lost may be repeated (`SwapsAreJustified` allows one per lost answer).
- `set-dvn.ts` ignores `BOSPHOR_ENV_FILE`; `wire.ts` with a stale messaging channel applies its
  EVM half only; `set-evm-receive-uln.ts` refuses once the env names the new adapter.
- The worker reads frontier and payload hash at different slots (`solana-return.ts:326`);
  `init-store.ts:43` is safe to run again; a Solana fee simulation has no timeout, so one that
  hangs holds every caller (the model bounds it by `MaxLatency`).

## 12. Not modelled

The components marked `not_modelled` in `PROJECT.json`, with the reason.  Of modelled ones:

- `StoreQueue`: numbers of storage epochs and prices (`Check` may reject an intent before its
  upload for any of these reasons; `Settlement` has them), metrics.
- `Settlement`: Permit2 deposits, an intent from Solana, a confirmation mined after the relayer
  gave up waiting for it, the cached preflight of the send path (a preflight that fails is a
  send that fails).
- `StoreQueue`, the comparison of blob ids: `Check` may reject a row whose object is not yet
  uploaded; the code compares on every attempt (`intent.processor.ts:477-484`), which finds nothing
  new later, as ingest lets no other bytes in.
- `Intake`: sizes (all blobs have one), request headers, paging of the feed, the extra `confirmed`
  hop of the Solana fallback (`intent.processor.ts:791`), which the other paths leave to the watcher.
- `SolanaReturn`: fees, compute budgets and account addresses.
- `Client`: `getEscrow`, refund and withdraw helpers, the byte codecs and account derivation,
  thin quote-and-store wrappers.
- `RateLimit`: bypass keys and header parsing.  `Canary`: balance gauges, error reports.
- `Deployment`: upgrade caps, network presets, inspection scripts.
- Everywhere: message wording; the signature checks of Permit2 and of LayerZero, which are
  external.
