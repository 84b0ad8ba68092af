# TLA+ models and proofs for dabdub

dabdub (CheesePay) takes payments in XLM and USDC on Stellar and pays merchants
in fiat money. This directory holds TLA+ modules that model its core, TLC
configurations that check them on small instances, and TLAPS proofs of the
properties that matter most. `PROJECT.json` is the machine-readable index:
components, runs, the map from definitions to source lines, hazards, findings
and theorems. Source paths below are relative to the repository.

## 1. The system

| Part | State it keeps | Operations | Interacts with |
| --- | --- | --- | --- |
| `payment_escrow` contract | one record per payment, registry address, last drain ledger, version | deposit, release, release_partial, expire, refund, dispute, resolve_dispute, emergency_drain, set_registry, upgrade | token contracts, merchant registry |
| `merchant_registry` contract | one record per merchant, admin | register, suspend, reactivate, set_kyc_status, transfer_admin | called by the escrow |
| Stellar monitor (`stellar-monitor.service.ts`) | in-memory cursors | scan every 30 s, confirm, expire | payments table, settlements service, webhooks |
| Settlement intake (`settlements.service.ts`) | settlements and payments tables | initiateSettlement, 15-minute batch job, approveSettlement | settlement queue |
| Settlement execution (`queue.processors.ts`, `settlements.service.ts`) | Bull queue, Redis lock per merchant | handle, executeFiatTransfer, handlePartnerCallback, retrySettlement | partner API, Soroban, webhooks |
| Payments service (`payments.service.ts`) | payments table | create, createBatch, confirmPayment, refund | Stellar, Soroban service |
| Payment API (`backend/src/payment`) | payments, Redis keys | create behind the idempotency interceptor, cancel, notify | HTTP clients, processor |
| Soroban monitor (`soroban-monitor.service.ts`) | cursor and processed ids in memory | poll, map events to statuses | payments table |
| Event indexer (`soroban-event-indexer.service.ts`) | ledger cursor in the cache | poll every 5 s, page, emit, dead-letter | listeners, dead letter queue |
| Soroban client (`soroban.service.ts`, `stellar.service.ts`) | sequence number of one source account | invokeContract, submitTx with retries | RPC server |
| Webhooks (`backend/src/webhooks`) | webhooks, delivery logs, Bull jobs | register, dispatch, post, retry on a schedule, deactivate | merchants' servers |
| Mails, alerts, notifications (`email`, `notifications`, `alerts`) | mail rows, delivery log, alerts, feed, preferences | queue, send, raise, acknowledge, page, purge, update | mail provider, Bull |
| Analytics (`backend/src/analytics`) | payments, settlements, a materialized view, export rows | reports, exports to PDF, merchant figures | database, storage, mails |
| Accounts (`merchants`, `auth`, `admin`) | merchants table, Redis | register, edit, suspend, bulk changes, API keys, sessions, second factor, fees | database, cache |
| Rate limit, cache, retry queue | Redis, process | sliding window, cache-aside, delayed retries | HTTP handlers |
| Groups (`backend/src/groups`) | groups, members | create, edit, join by invite code | chain, database |
| Wallets, pause switch (`blockchain-wallet`, `security`) | encrypted wallets, pause flag and log | provision, syncBalance, pause, resume | contract registry |
| Health, backups, cron (`health`, `backup`, `cron`) | cron log, bucket | probes, daily backup under a timeout | services, storage |
| Contracts `admin_timelock`, `multisig_admin`, `rbac_access` | proposals, roles | propose, approve, apply, cancel, grant, revoke | - |
| Contracts `payment_request`, `stellar_confirmations`, `batch_payments`, `settlement_ledger`, `reconciliation` | payment states, counters, ledger entries | create, confirm, settle, expire, record | backend |
| Contracts `fee_calculator`, `fee_distributor`, `slippage_protection`, `liquidity_router` | rates, shares | arithmetic on amounts | - |
| Waitlist, infrastructure, frontend | rows, configuration, UI | queries, CRUD | - |

What is hard in it: contract calls of several parties reach the ledger in any
order and deadlines are ledger numbers with a saturating sum; every backend
handler is a sequence of awaits between which other handlers run and at each of
which it can die; handlers save entities they read earlier; the settlement
queue delivers jobs more than once; the partner's answer may be lost and its
callbacks repeat and arrive late; the merchant lock has a time limit. Two more
patterns run through the backend: an entity that was loaded is changed and all of
it saved, so the save undoes what happened in between (webhooks, alerts,
accounts, groups); and a value in Redis is checked and then set, while others do
the same (idempotency, rate limit, cached fees, sessions). The list of hazards, each at its line and with the properties aimed at it, is in
`PROJECT.json`.

What makes the parts correct: the escrow pays out what was deposited, once, to
the party entitled to it, and does not keep it for ever; a confirmed payment is
settled through one settlement whose total is that of its payments; large
settlements wait for approval; a payment is settled only when the partner took
the transfer; one worker at a time serves a merchant; nothing stays in
`processing` with nobody to move it. No event of the contract is skipped, a call
to it takes effect once however often it is sent, what is recorded as sent was
sent, every queued delivery ends; a stale save or a stale cache entry does no more
harm than the code's design allows; reports add up; what was stored encrypted can
be read again.

## 2. Modules

* `EscrowPromise` - the abstract specification of the escrow: an amount is
  locked once under an id, parts of it go to the merchant, what is left may go
  back to the customer in one piece, a closed id is never used again.
* `PaymentEscrow` - the contract `payment_escrow/src/lib.rs`, one action per
  entry point, named like it. A contract call is atomic and a panic undoes it,
  so a call that panics is no step and every check of the code is a conjunct.
  `seq` is the ledger sequence, `payments` the stored records, `balance` what
  the token contracts hold for the escrow; `paid`, `treasury` and `drains` are
  history variables the properties speak of. `EmergencyLastDrainLedger` is
  `lastDrain`, with 0 for never, as in the code.
* `MerchantRegistry` - the contract `merchant_registry/src/lib.rs`.
* `EscrowWithRegistry` - the two composed: `Escrow == INSTANCE PaymentEscrow
  WITH approved <- ActiveMerchants, ...`, so a deposit reads the registry in the same
  step while all other calls interleave.
* `SettlementIntake` - `initiateSettlement` (called by the monitor's
  `confirmPayment`), `batchSmallConfirmedPayments` with `flushMerchantBatch` and
  `createBatchSettlement`, and `approveSettlement`. One action per stretch
  between two awaits. A `Crash...` action stands for a process that dies and
  for an await that throws: either way the rest of the handler is not run.
* `SettlementExecution` - `SettlementQueueProcessor.handle`,
  `executeFiatTransfer`, `handlePartnerCallback` and `retrySettlement`, again one
  action per await. `proc` is the program counter and the local variables of
  each worker and request handler. Bull, Redis and the partner are external and
  modelled from their use: a job gets a number of attempts, a job whose worker
  died is delivered again, a key set with `EX` disappears, the partner knows a
  transfer by its reference and repeats its callbacks.
* `PaymentMonitor` - the payment row from creation to refund:
  `PaymentsService.create`, `createBatch`, `confirmPayment` and `refund`, and the scans of
  `StellarMonitorService` on several backend instances, each with its cursor in
  memory (`cursor`, forgotten by `Restart`). `horizon` is the list of
  transactions of the deposit address, `scan` the program counter and local
  variables of each instance's scan. `refunds` and `confirms` are the requests under
  way, each with what it loaded; `SettlementLoad` and `SettlementSave` stand for what
  the settlement service does to the row through the `entity` it holds; its own steps
  are in the two modules above. Every handler saves the whole entity it loaded some
  awaits before, so a row can be written from an entity older than its decision:
  `expireOldPayments` expires a payment that `confirmPayment` confirmed after the query.
* `SorobanLedger` - the accounts and the ledger the small contracts share;
  `AdminTimelock`, `MultisigAdmin`, `RbacAccess` - the three administration
  contracts, one action per entry point, a panic being no step; `Governance`
  - the three on one ledger.
* `EscrowEventSync` - `pollEscrowEvents` and `confirmPayment`, which write the
  same column. The cursor and the set of processed ids move before an event is
  applied; `unsure` is the history of what a failed save or a page limit dropped.
* `EventIndexer` - `pollEvents` on several instances with one cursor in the cache.
* `SorobanRpc` - `invokeContract` and `submitTx`. The network is external: a pool,
  an account with a sequence number, each transaction included at most once.
  Its last part is the retry queue, `RetryQueueService.run` with the delays of
  `RetryConfigService` and a task that may fail each time.
* `WebhookDelivery`, `EmailDelivery` - Bull jobs with attempts, workers that die
  and are replaced, rows written after the fact. `posts` and `accepted` count what
  the other side got. Bull runs a job whose worker died once more and fails it when
  that happens again (`maxStalledCount` is 1, nothing sets it): `EmailDelivery` has both,
  in the other modules with jobs a second death is outside the bounds on crashes.
* `PaymentApi` - creation behind `IdempotencyInterceptor` for one key, `cancel`
  and `notify`, one action per await.
* `RateLimit`, `FeeCache`, `AdminAlerts` - check-then-act around Redis or a row, one
  action per command, with a clock that passes between them. A raise saves the alert
  and notifies in two awaits, and its process may die between them (`untold`).
* `MerchantAccounts` - every operation that changes a merchant's row, as load,
  change and save; a save is two queries, a SELECT of the row and an UPDATE of the
  columns in which the entity differs from it; bulk changes id by id; the deletion.
  (The saves of the other modules are one step: between these two queries they lose
  nothing that a save begun a step earlier would not lose.)
* `Authentication` - two components without shared state: the sessions of a merchant,
  check-then-act around Redis like the above, and the second factor, base32 of a
  secret with its bit buffer in a word of `WordBits` bits (16 to 32) and the acceptance of codes
  around the current step.
* `Analytics`, `AnalyticsExport`, `MerchantSignups` - ranges, buckets, decimal
  arithmetic and reports whose queries run side by side while rows change; the
  export job with its tokens; the signups, activation and activity of merchants. `MonthStarts` gives a calendar of months of two and
  three days.
* `Groups` - one group: `create` on the chain and in two rows, joins that check and
  then add, edits that save the group with the members it was loaded with. `beside` is
  the history of the joins that were between their count and their insert together.
* `NotificationFeed`, `NotificationPrefs` - the walk through the feed with a cursor
  while rows arrive and are purged; the item-wise update of the preferences.
* `DailyBackup` - the backup inside `CronJobService.run`: the timeout ends the wait,
  not the task.
* `Wallets` - `provision` and `syncBalance` over an encrypted column; ciphertexts are
  terms, a tag with what is inside. Its second part is the pause switch.
  `HealthCheck` - five probes, the verdict and the readiness check.
* `PaymentEscrowProofs`, `ContractProofs`, `PaymentMonitorProofs`,
  `SettlementExecutionProofs`, `SettlementIntakeProofs` - the theorems and proofs
  about `PaymentEscrow`, the administration contracts with `EscrowWithRegistry`, and
  the three modules whose names they carry; `MessagingProofs` and `ServicesProofs` - those about the two sums
  below; `SumTheorems` - facts about sums over finite sets and about least and
  greatest elements, which the library does not have.
* `MC...` modules give constants their small sets; every `.cfg` is one run.
  `EscrowWithRegistry` and `Governance` are run as they are.

`MCMessaging` and `MCServices` put together components that share no state (the
reports and their exports do, and are one component of the sum). Interleaving them
would multiply their states and show nothing, so `active`, chosen by `Init`,
names the one that runs and the others keep their initial state; where a
component can begin in several ways, the others see one of them. Every behaviour of
each component is a behaviour of the run.

Some of the contract source does not compile as it stands; it is read as its
evident intent: `expire` calls `transfer_from_contract` without the asset type
and is modelled like its twin `refund`, `token_address` (used, not defined) is
the token of the asset type, and `is_approved` of the escrow's client trait is
the registry's `is_merchant_active`, the query it offers under another name.
The same holds of the backend: `scanPendingPayments` ends by calling
`pollTransferEvents`, which does not exist, and `getLastRunStatus` holds an
unreachable `pollEscrowEvents`; the scan is read as ending with the poll of
escrow events, which `EscrowEventSync` models. `create` calls a
`createPayment` that `SorobanService` lacks; it is read as returning the expiry
ledger.
Operators named "Mutant" above their definition are deliberately wrong versions
of the definition that follows them; each breaks the property it is listed with
in `PROJECT.json`, which shows that the property can fail.

## 3. Runs

| Run | What it checks | Bounds |
| --- | --- | --- |
| `escrow_safety` | `TypeOK`, `Conservation`, `Backed`, `DrainsSpaced`, `PayoutRules`, `KeepsPromise` | two ids, both assets, amounts 0..2, ttl 0..3 with maximum 2, ledgers 1..4 = u32 maximum, cooldown 2, one upgrade |
| `escrow_with_registry` | `EscrowImplemented`, `EventuallyLeaves`, `NoClaimsWhileInactive` | one id, payee a merchant or the customer itself, two registry admins, ledgers 1..4 |
| `intake` | `CountedOnce`, `TotalsMatchLinks`, `LargeOnlyApproved`, `SmallGetsBatched` | two merchants, three small payments and one large, five settlement rows, one scheduler, one admin, one crash |
| `intake_approval` (violation) | `ApprovedGetsQueued` | one large payment, no crash |
| `execution_safety` | `SettledWasAccepted`, `NoStranded`, `OverlapBounded` | one settlement, three workers and job slots, so that an overlap can pass from worker to worker, one handler, one attempt, one crash, one execution that outlasts its lock, two callbacks |
| `execution_liveness` | `WorkEnds` (`LockReleased`, `JobsEnd`), `RowsAgree` | two settlements of one merchant, two workers, two attempts, one crash, no key that expires early (that lets workers go on sooner) |
| `execution_failed` (violation) | `FailedMeansUnpaid` | one worker, no crash |
| `payment_monitor` | `ConfirmedOnce`, `RefundedWasSent`, `DecidedStays`, `ExpiresUnpaidOnly`, `ScansConclude` (`LateEnds`, `PaidIsSeen`) | one payment, two instances whose scans do not overlap, two transactions in pages of one, one failed await, one restart, one refund request, one `confirmPayment` request, settlement of the payment |
| `refund_twice` (violation) | `RefundedAtMostOnce` | one payment, two refund requests, no failures |
| `governance` | `AppliedOnceAfterDelay`, `ExecutedByTwo`, `DecisionsKept` (`ChangesKept`, `ProposalsKept`), `SupersDecide` | three accounts, ledgers 1..3 = u32 maximum, delays 0..2, two changes, one proposal that expires after one ledger |
| `messaging` | `NothingLost`, `NoMoreThanAsked`, `RecordsTellTheTruth`, `OnlyRacesUndo`, `QueuesDrain` | see below |
| `services` | `RowsFollowChain`, `PollsApplySafely`, `FiguresAgree`, `VolumeIsComplete`, `StaleWithinBounds`, `RecordsComplete`, `SecondFactorWorks`, `LimitsHold` | see below |

The properties of the two sums are conjunctions, each of one promise that several
components make. Their parts stand in the modules of the components, each with
its own comment.

| Component | Parts | Where | Bounds |
| --- | --- | --- | --- |
| indexer | `NothingSkipped`, `EventsAreHandled` | `NothingLost`, `QueuesDrain` | two instances, two ledgers of up to two events in pages of one, one failure |
| webhooks | `PostsBounded`, `CountsOnlyFailures`, `OnlyStaleSavesRevive`, `DeliveriesEnd` | `NoMoreThanAsked`, `RecordsTellTheTruth`, `OnlyRacesUndo`, `QueuesDrain` | one webhook, two events at once, a schedule of three, deactivation at three failures, one database error or crash |
| mails | `SentWasAccepted`, `OutcomeRecorded`, `MailsBounded`, `MailsEnd` | `RecordsTellTheTruth`, `NothingLost`, `NoMoreThanAsked`, `QueuesDrain` | one mail of each queue, two attempts, two failures |
| contract calls | `CallAppliedOnce`, `OkMeansApplied` | `NoMoreThanAsked`, `RecordsTellTheTruth` | two calls, two attempts each, two lost or refused requests |
| retries | `RetriesAsConfigured` | `NoMoreThanAsked` | 1 to 4 attempts, 1, 2 or 5 delays |
| pause switch | `LogTellsPauses` | `RecordsTellTheTruth` | two admins, four entries, two operations |
| payment API | `LateCreatesNothing`, `OnlyRacesCancelDecided` | `NoMoreThanAsked`, `OnlyRacesUndo` | two creations with one key, one cancellation, two notifications, one failure |
| wallets | `SecretsRecoverable`, `RegisteredIsStored` | `NothingLost`, `RecordsTellTheTruth` | two users, one with a row of the older kind, two provisions, one balance sync, two failures |
| preferences | `UpdateInForce` | `OnlyRacesUndo` | three overlapping updates of up to two items, one of which names a pair twice, one failure |
| health | `VerdictAgreesWithReadiness` | `RecordsTellTheTruth` | three changes of a service |
| escrow poll | `RowsFollowChain`, `AppliedInOrder`, `ShortNeverConfirmed` | `RowsFollowChain`, `PollsApplySafely` | one payment and a foreign id, three events in pages of two, two ids remembered, one failure |
| reports | `ReportsAddUp`, `VolumeIsComplete`, `PeriodsAdjoin`, `ChangeIsExact` | `FiguresAgree`, `VolumeIsComplete` | two payments, one settlement, months of two and three days, two days of clock |
| exports | `SectionsAgree`, `AnnouncedLinkWorks` | `FiguresAgree`, `RecordsComplete` | one export, two failures |
| merchant figures | `SignupsShown` | `FiguresAgree` | one user, half days, a window of two days |
| accounts | `BulkReportsTruth` | `RecordsComplete` | one account, one request beside a bulk change naming it twice, three changes of the table, one failure |
| fees | `BoundedStaleness`, `NoQuietStale`, `HistoryIsComplete` | `StaleWithinBounds`, `RecordsComplete` | one reader, two updates, time to live 2, one failure |
| sessions | `RevokedRefused` | `StaleWithinBounds` | one request at a time, tokens that live two ticks |
| second factor | `SecretRoundTrips`, `CodesLastAStep` | `SecondFactorWorks` | secrets of up to five bytes, words of 22 bits, steps of two ticks |
| groups | `CapacityKept` | `LimitsHold` | two users, sizes 1 and 2, two edits, one failure |
| rate limit | `WindowBounded`, `DenialsJustified` | `StaleWithinBounds` | two requests at a time, limit 2, window 3, one tick of latency |
| alerts | `NotificationsSpaced`, `SilenceIsRecent` | `StaleWithinBounds`, `LimitsHold` | two raisers, one admin, cooldown 2, three raises, one death of any of their processes |
| feed | `WalkIsComplete` | `RecordsComplete` | three notifications, pages of one, purge after one tick |
| backups | `NewestBackupKept`, `CompletedMeansDone`, `FailuresAlerted` | `LimitsHold`, `RecordsComplete` | three days, retention one day, one failure or restart |

Why these bounds are enough to meet the interesting cases: with two amounts a
payment can be released in parts and end in every way; ledgers 1..4 put a
deposit, its dispute window, its expiry and two drains in every order, and with
`MaxU32 = 4` the saturated sums are reached; two payments of one merchant reach
the 10 USD threshold together, the third never does and must wait for the
window, the fourth needs approval; two attempts and two job slots let a job
fail for good while a retry queues another. In `payment_monitor` pages of one
transaction make two instances lag behind each other, and the restart makes one
of them read everything again; two transactions are one that pays and one that does
not, in either order, or a payment made twice. One row is enough for what these
properties say, which relates the writers of one row; the theorems about it hold for
any number. The one row is written by the scans, `confirmPayment`, the settlement
service and a refund, each from an entity it loaded earlier. In `governance` the ledger can pass the deadline of a
change and the expiry of a proposal, two changes can be in every pair of states,
and with `MaxU = 3` the deadlines saturate. One crash is enough for every
single point of failure; two are left out.

In the two sums the bounds follow the constants the code compares with: as many
failures as deactivate a webhook, fewer remembered ids than events and fewer
events in a page than there are, attempts that can all fail, windows and
cooldowns that can pass within the clock, a retention shorter than the days. A word
of 22 bits is overflowed by a buffer that is not kept short after three bytes
instead of five. Each check-then-act has two requests in it at once; one cache
reader beside two updates is what a stale store takes, and one request to be
validated beside a logout.

Deadlock is not checked where clocks and slots are bounded: a behaviour that has
used up its bounds stops.

### Fairness

* Escrow: ledgers keep closing, and somebody calls `expire` or `refund` on an
  expired payment (the monitor's `expireOldPayments` does, and anybody may).
  Nothing obliges the admin to release or to resolve a dispute, and
  `EventuallyLeaves` is stated accordingly.
* Intake: timers fire and awaits resolve, so the confirming handler, the cron
  job and an approval once begun go on. No admin has to approve.
* Monitor: Bull repeats the scan every 30 s on some instance and awaits resolve
  (`WF` of a scan step of some instance); failures and restarts are finite in
  number. Time, customers and merchants owe nothing.
* Execution: workers whose awaits resolve go on, Redis keys expire, Bull finds
  stalled jobs (one crash is the bound, so none stalls twice). No admin has to retry, no partner has to call back, and an
  error may be thrown at every await.
* Indexer: the cron starts a poll every 5 s on every instance and awaits resolve
  (`WF` of each instance's step). Webhooks and mails: Bull runs every job, delayed
  ones when their time has come, and the job of a dead worker again (`WF` per
  delivery and per mail). Failures are finite in number.

### What the violations show

* `intake_approval`: an approval between the two saves of `initiateSettlement`
  answers "Settlement approved and processing initiated" and queues nothing.
* `execution_failed`: a settlement the partner accepted can be `failed`, which
  the documentation calls retryable.
* `refund_twice`: `refund` refuses more than the amount of the payment, but two
  requests that both loaded it as settled both send all of it.

More disagreements, without a run of their own:

* The repository describes running several backend instances (`README.md:150`,
  `PGBOUNCER.md:7`); each has its cron. With two values in `Schedulers` in
  `MCSettlementIntake.cfg` TLC finds `CountedOnce` violated: two runs of the
  batch job settle the same payments twice. With one instance it holds, crashes
  included.
* `queue.processors.ts:66` takes the lock "for merchant isolation". Its key lives
  60 s, nothing renews it, and the `finally` block deletes it whoever set it, so an
  execution that takes longer lets a second worker pay settlements of the same
  merchant: with `1 + overruns[m]` replaced by `1` TLC finds `OverlapBounded` violated in
  five steps (take a job, take the lock, the key expires, and the same for another
  worker). `OverlapBounded` says how far this goes: one worker more for each such
  execution. The overlap does not end with it, though: the first worker's `finally`
  deletes the key of the second while that one is at work, and so on.
* `stellar-monitor.service.ts:232` saves the payments `expireOldPayments` loaded some
  awaits before. One that `confirmPayment` confirmed in between is expired. TLC finds it in `payment_monitor`
  if `DecidedStays` is asked without `~HeldFromBefore`; the property
  says that nothing but such an entity does it, and for how long.
* `payment_escrow/src/test.rs:1138` expects a release to a merchant without KYC
  to panic, and the contract never asks the registry for KYC.
* `admin_timelock/src/lib.rs:79` says that a delay must be at least 17,280 ledgers;
  `MIN_DELAY_LEDGERS` is 1, so the model takes the minimum as a parameter.
* Stale saves and lost updates of webhooks, alerts, accounts and groups are in the
  models. A save of an account whose row another request changed since the load brings
  back a lifted suspension, an old API key, a second factor whose secret was replaced, or a
  row that was deleted; no property promises otherwise, so none is checked, and
  `BulkReportsTruth` asks only that no status is written behind both the report and the
  audit. Where a property excuses such a save it says so: `NotificationsSpaced` ("unless a
  stale save put an earlier time back"), `OnlyStaleSavesRevive`, `OnlyRacesCancelDecided`.
  `CountsOnlyFailures` bounds a webhook's counter from above: what lost updates take from
  it, and the success counted as a failure when its log entry cannot be written, it
  does not see. A group exceeds its size when joins overlap; `CapacityKept` counts by
  how many.
* `admin-alert.service.ts:58` saves `lastNotifiedAt` before it notifies. A process that
  dies in between leaves an alert nobody was told of, and the raises of the next cooldown
  are silent; `SilenceIsRecent` says that one such death silences one cooldown.
* `soroban.service.ts:106` takes a transaction whose poll answers without a status for
  successful, and `getFunnel` without `compareWith` has no range and otherwise uses days
  of the server's time zone; neither is in the models, which ask for a success and count
  whole UTC days.
* `MerchantAnalyticsController`'s `/analytics/funnel` is shadowed by the route of
  `AnalyticsController`; `logout`, `checkAndFlag`, `checkSlippage` have no callers;
  the queue metrics list a dead letter queue their map of queues lacks; the
  rates processor swallows the errors its retries wait for.

`RowsAgree`, `ExpiresUnpaidOnly` and `PaidIsSeen` are stated
with the condition under which they hold (no concurrent callback or retry;
no await that failed: a transaction whose
verification failed is behind the cursor and is not looked at again).

## 4. Proofs

`PaymentEscrowProofs` proves of `PaymentEscrow`, for all constants that satisfy
`ContractAssumption` and `SignersAssumption` (the constructor's checks: positive
cooldown, three distinct signers):

* `TypeCorrect`: `Spec => []TypeOK`;
* `MoneyConserved`: `Spec => [](Conservation /\ RefundedIffExpired)`;
* `CooldownRespected`: `Spec => []DrainsSpaced`;
* `PayoutsFollowRules`: `Spec => PayoutRules`;
* `RefinesPromise`: `Spec => KeepsPromise`, that is, the contract implements
  `EscrowPromise`.

* `FullyBacked`: `Spec => []Backed`, for a finite set of ids (`IdsAssumption`).

They rest on the invariant `IInv`: `TypeOK`, `Conservation`, `RefundedIffExpired`,
`DrainHistory` and `DrainsSpaced`. `Conservation` alone is not inductive: that
nobody is paid from an id without a record, and that a closed payment has
nothing left, are needed for the next deposit and for every payout; with
`RefundedIffExpired` the two shares of a payment follow from its status.
`DrainsSpaced` needs `DrainHistory`: `lastDrain` is 0 exactly when there was no
drain and is otherwise the latest of `drains`, none of which lies in the future.
One lemma per group of actions shows that a step preserves `IInv`; payouts share
`PayoutStep`-style lemmas because all of them go through
`transfer_from_contract`. `Backed` compares a balance with the sum of what is owed
under all ids. `SumTheorems` shows that such a sum changes with the one term a step
changes; it rests on an induction over finite sets, carried out through the strict
subset order, which the library proves to be well-founded.

`ContractProofs` proves of `Governance`, for all constants that satisfy
`LedgerAssumption`, `TimelockAssumption`, `MultisigAssumption` and
`RbacAssumption`, every property its run checks:

* `GovernanceTypeCorrect`: `GovernanceSpec => []GovernanceTypeOK`;
* `ChangesApplyOnce`: `GovernanceSpec => []AppliedOnceAfterDelay`;
* `ExecutedByThreshold`: `GovernanceSpec => []ExecutedByTwo`;
* `DecisionsStay`: `GovernanceSpec => DecisionsKept`;
* `OnlySupersDecide`: `GovernanceSpec => SupersDecide`.

There is one invariant per contract. `TimelockInv` adds to the property that the
stored deadline is the saturated sum of the ledger and the delay, and that every
event belongs to an applied change: without it a later `apply_change` could add a
second event. `MultisigInv` speaks of the length of `approvals` and says that no
admin is in it twice; `ApproversCounted` turns the length into the number of
admins through a bijection (`FS_CountingElements`). `RbacType` is enough for the
roles. Applying and cancelling share `FinishStep`, proposing and approving share
`StoreStep`.

Of `EscrowWithRegistry` it proves, under `EscrowAssumption` (the assumption of
`PaymentEscrow`):

* `RegistryRefines`: `System => EscrowImplemented`. Every call on the registry changes
  its answer on one merchant or on none (`RegistryAnswers`, which needs that records
  keep their type), so it is the environment's step of `PaymentEscrow`; what is
  proved of `PaymentEscrow` holds of the two contracts together;
* `InactiveGainNothing`: `System => NoClaimsWhileInactive`. A step rewrites the record of
  one payment at most (`SystemRewrites`): by a first deposit, which the registry
  accepted, or with a record of the same merchant that owes no more.

`SettlementIntakeProofs` proves of `SettlementIntake`, for all amounts, thresholds,
numbers of schedulers and admins and bounds on the crashes that satisfy
`IntakeAssumption`:

* `TypeCorrect`: `Spec => []TypeOK`;
* `LargeWaits`: `Spec => []LargeOnlyApproved`;
* `TotalsMatch`: `Spec => []TotalsMatchLinks` and `EachCountedOnce`:
  `Spec => []CountedOnce`, both for at most one scheduler (`OneScheduler`), a finite set
  of payments and a large threshold of at least twice the small one
  (`ThresholdsAssumption`; the code has 10 and 10 000 USD).

`LargeOnlyApproved` says nothing of a handler on its way to the queue, so `IInv`
adds `HandlersFit` (a handler past its first save goes on with a row that exists
and requires approval exactly if the total it computed does; an admin about to
queue has approved) and `QueueFits` (only rows that exist are queued, or a fresh
row could take over the jobs of another). The other two need to know who holds which
payment. `LinkInv` says of each handler, at each of its awaits, which payments only it
may link, of the batch job that no other handler links what it has loaded, and of each
row whether its links are those it counted. Two schedulers break it, as TLC shows
(section 3).

`SettlementExecutionProofs` proves of `SettlementExecution`, for any numbers of
workers, handlers, jobs, attempts, crashes and callbacks:

* `TypeCorrect`: `Spec => []TypeOK`, by `WorkInv`, which ties each worker to the
  active job it runs and says that no job runs twice at a time;
* `OverrunsCounted`: `Spec => []OverlapBounded`. `LockInv`: those inside are the worker
  the key names, if it is inside, and at most one for each overrun; the property
  alone does not survive a delete of somebody else's key. The proof counts the
  workers through the theorems on finite sets;
* `SettlesAccepted`: `Spec => []SettledWasAccepted`, whether or not the lock outlives
  the execution. `AcceptInv`: whoever is about to write a success, and every
  callback of a success, speaks of a transfer the partner took;
* `NobodyStranded`: `Spec => []NoStranded` if every settlement has payments. (`handle`
  drops the job of a settlement without payments.) `WayInv` names the retry, the job
  that will write the row, or the retry that was cut short;
* `RowsEndAgreed`: `Spec => []RowsAgree` if `Handlers = {}`. `RowsInv`: there is one
  job for a settlement, what a worker has written so far fits its place in
  `executeFiatTransfer`, and a settlement without a job agrees with its payments. A
  late callback or a retry beside a redelivered job breaks the first part, which is
  why the condition is there.

`ExecutionAssumption` says that no payment belongs to two settlements. This is what
`CountedOnce` says of the intake for the settlements it queues; the two modules
meet there.

`PaymentMonitorProofs` proves of `PaymentMonitor`, for any numbers of payments,
instances, transactions, failures and restarts:

* `TypeCorrect`: `Spec => []TypeOK`;
* `RefundsWereSent`: `Spec => []RefundedWasSent`, from `SentInv`: a refund about to be
  saved was sent;
* `ConfirmsOnce`: `Spec => []ConfirmedOnce` if `~ScansOverlap`, from `ScanInv`: one scan
  is under way, and nobody was told of a row that is pending or that a scan is about to
  confirm. No other writer disturbs it, because no save makes a row pending again
  (`StepDecides`). With overlapping scans two instances hold the same pending row, and
  the property does not hold;
* `DecidedRowsStay`: `Spec => DecidedStays`, without that condition. A row that is
  confirmed may well be expired or lose its transaction, by a save of an entity loaded
  while it was pending; what holds is that only such an entity can do it. The property
  is inductive: as long as no scan, request or service holds an older entity of the row
  (`DecidedForGood`), none gets one, since each loads the row as it is;
* `ExpiresOnlyUnpaid`: `Spec => ExpiresUnpaidOnly` if `~ScansOverlap`, from `SeenInv`:
  the payment of every transaction exists, cursors and page ends stay within the
  transactions there are, and what an instance has read was dealt with - the payment
  it paid for is no longer pending, or this instance is about to confirm it.

`MessagingProofs` proves of `MCMessaging`, for any values of its components' constants
that satisfy their assumptions:

* `ThmNothingLost`: `Spec => []NothingLost`;
* `ThmNoMoreThanAsked`: `Spec => []NoMoreThanAsked`;
* `ThmRecordsTellTheTruth`: `Spec => []RecordsTellTheTruth`;
* `ThmOnlyRacesUndo`: `Spec => OnlyRacesUndo` if the processor notifies of decisions
  only (`ProcessorDecides`: it never sends `pending` or `cancelled`).

`ServicesProofs` proves of `MCServices`, in the same way:

* `ThmStaleWithinBounds`: `Spec => []StaleWithinBounds`;
* `ThmRecordsComplete`: `Spec => []RecordsComplete`;
* `ThmRowsFollowChain`: `Spec => []RowsFollowChain`;
* `ThmPollsApplySafely`: `Spec => PollsApplySafely`;
* `ThmLimitsHold`: `Spec => LimitsHold`;
* `ThmFiguresAgree`: `Spec => []FiguresAgree`;
* `ThmVolumeIsComplete`: `Spec => VolumeIsComplete`;
* `ThmSecondFactorWorks`: `Spec => []SecondFactorWorks`.

Each component has an invariant of its own, kept by its own steps; `Steps` says that a
step of the sum is a step of one component and a stutter of the others, and the
conjunction of the invariants is the invariant of the sum. What the invariants add to
the properties:

* `IndexInv`: the events of a poll that are still to do are the first unread ones, and
  the cursor is only ever saved over events that were dealt with, also when a slower
  instance moves it back.
* `HookInv`: the failures counted on a webhook, and on every stale copy of it, are
  failures that happened; a delivery has posted as often as it attempted, plus faults.
* `MailInv`, `RpcInv`, `RetryInv`, `PauseInv`, `WalletInv`, `HealthInv`: the place of a
  worker tells what the other side has taken and what is on record. `RpcInv` ties a
  call to the one sequence number its transactions carry.
* `ApiInv`, `AlertInv`: a handler whose version is still that of the row holds the row
  itself, so its save undoes nothing. `AlertInv` adds that every `lastNotifiedAt` in the
  row or in a loaded copy belongs to a raise that told, will tell or died (`Told`), and
  how far the opened alerts are apart.
* `GroupInv`: the members that are not `beside` a join under way leave it a place.
  `AccountInv`: the bulk request works on the account at its position.
* `PrefInv`: of the pairs an update has written, all are in force unless another update
  was writing at the same time.
* `CacheInv`: what a reader holds, and what is cached, was the fee at some time since;
  the entry dies one read and one lifetime after that. `SessionInv`: the blacklist
  outlasts every token revoked before it was shortened.
* `RateInv`: in every window those admitted and those counted and not yet admitted
  are together no more than the limit and the other clients.
* `SyncInv`: the processed ids are ascending and without a gap from the cursor on, and
  as a page is no longer than the ids kept (`EventPage <= DedupMax`) none from the
  cursor on is forgotten; a row is as its last event says, or known to be unsure.
* `FeedInv`: everything shown is no older than the cursor; what was there at the start
  was shown, is as old as one that was, is behind the cursor or was purged.
  `ExportInv`: no two exports share a token, and a job that announced a link left its
  token in the row. `BackupInv`: a task deletes only what is older than some backup
  that stays.
* `ReportInv`: a report covers a range that begins at a day or at the first day of a
  month, and the period it compares with adjoins it and has as many buckets.
  `PartsInv`: each part that has been read is a sum over the rows in question that have
  not moved since the report began, and over some of those that have (`Between`); so
  two parts differ by no more than the rows that moved. That grouping by bucket loses
  no row, and counts none twice, rests on the calendar and on `CountByValue` and its
  neighbours in `SumTheorems`.
* `SectionsFit`, part of `ExportInv`: the volumes an export has read are those of the
  range the settlements would have now, or midnight fell after it read them.
  `SignupInv` adds that no request is asked for a later moment than the clock's.
* `TotpInv` keeps the verdict and that the text shown decodes to the secret; the work is
  in what the steps compute. `StepsApart`: two times a step apart, or two, and what
  division does with them. `RoundTrip`: `base32Decode(base32Encode(q)) = q` for every
  sequence of bytes. The folds of the model are chosen recursive functions; such a
  function exists, agrees with that of a longer sequence on the common part
  (`FoldExists`, `FoldsAgree`), and so a fold of one more element is one more step
  (`FoldOfMore`), each shown on a smallest counterexample, with no induction rule of the
  library. `Tied` says what holds after any number of bytes, for the letters made so far:
  they decode to all the bytes, or to all but the last, whose upper bits wait in the
  decoder's buffer and whose lower bits in the encoder's. Five lemmas (`FromNone` to
  `FromFour`) take a byte into it, one for each number of waiting bits, and four
  (`PadOne` to `PadFour`) the zero bits of the last letter. They read off the lowest 12
  bits of a buffer only (`Pushed`), which is why the overflow of JavaScript's 32-bit word,
  in secrets of more than four bytes, does no harm, and a word of 16 bits would do.

The assumptions the proofs added to the modules are of the code or of nature: ids,
users, slots, notifications and the rows of the reports are finite sets, the cursors
of the feed are no notifications, days are integers, amounts natural numbers.
`CalendarAssumption` says that `MonthStarts` has every month that the reports reach from
a day they are asked about: the default range and the range before it, a range between
any two of those days and the one before it, and the next month. A `Date` has them all.

Only model-checked is everything under fairness (`EventuallyLeaves`,
`SmallGetsBatched`, `WorkEnds`, `ScansConclude`, `QueuesDrain`): TLAPS has no rule for
it here.

## 5. Plan

Done: the escrow with its registry, settlement intake and execution, the payment
monitor with refunds, the administration contracts, and the services of the backend
in two sums. Next, in this order:

1. `PaymentContracts`: `payment_request`, `stellar_confirmations`,
   `batch_payments` and `settlement_ledger` on `SorobanLedger`; fees, slippage,
   Merkle reconciliation as functions checked against a reference definition.
2. `EscrowEventSync` composed with `PaymentMonitor`: the two polls of one scan.

## 6. Not modelled

* Contracts `payment_request`, `stellar_confirmations`, `batch_payments`,
  `settlement_ledger`, `reconciliation`, the fee, slippage and router contracts:
  atomic calls on the pattern of those modelled; item 1 of the plan.
* The waitlist (one insert, counts), the frontend, configuration, migrations,
  metrics: no protocol of their own. Of the PDF exports the layout; of the cache
  the encoding, its metrics and the invalidation channel; of the admin API the
  deletion of sandbox data, soft deletion of payments and compliance reports; the
  address filters; `checkAndFlag`, the slippage check and the expiry reminder,
  which nothing calls.
* `getTopMerchants` and `getPaymentFunnel` of the merchant analytics: one query each, with
  no step between what it reads and what it returns.
* The payment API (`backend/src/payment`) writes another entity,
  `../database/entities/payment.entity`, which the repository does not hold, and no module
  imports its `PaymentModule`. Its cancel and notify are in `PaymentApi` and are no
  writers of the row of `PaymentMonitor`.
* The reports are modelled without the cache in front of them, which `FeeCache`
  models for values that only expire. Wallet balances are the constant the code
  stores.
* Cryptography, authentication and signatures are assumed to work: `require_auth`
  is the choice of the caller, ciphertexts are terms, a one-time code stands for the
  step it was made for. Amounts of the settlement modules are whole USD; rounding of
  fees to six decimals is not modelled.
* Two windows no property excludes: a process that dies after a payment is
  `confirmed` and before its settlement is initiated leaves it confirmed, and one
  that dies between saving a wallet and registering the user leaves the wallet
  unregistered. Nothing in the code looks for either.
