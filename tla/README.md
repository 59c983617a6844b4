# A TLA+ verification of Brain's core protocols

Brain (`src/`) is a financial back end for companies whose agents propose
payments. It ingests raw documents, builds a ledger from them, lets agents
propose payment intents, evaluates a tenant's policy, collects human approvals,
executes what was approved through a payment rail, and keeps a hash-chained
audit log whose roots are anchored on chain. These modules model the part where
a mistake moves money twice, moves it without authority, or loses the evidence
of it.

## 1. Inventory

State, operations and interactions of each component, and what makes it correct.

| Component (source) | State | Operations | Correct when |
|---|---|---|---|
| Payment intents (`services/execution/src/payment-intents`) | `ledger_payment_intents.status` and its decision columns | create, approve, reject, cancel, pause, resume, execute, completeExecution, failExecution | the status only moves along the state machine, at the word of someone entitled to it, and a request that read it before an `await` cannot undo a decision |
| Approvals (`services/execution/src/approvals`, `members/authorizeApproval.ts`) | `approvals` rows: signer, role, policy version, valid or stale | sign, list, count valid, mark superseded | an intent is executed only with the quorum its policy demands, under the version the gate evaluated |
| Pre-execution gate (`shared/src/gate`) | none (reads everyone's) | runPreExecutionGate | its verdict still holds when it is used |
| Execution outbox (`services/execution/src/outbox`) | `execution_outbox` rows: status, lock, attempts, receipt | enqueue, claimNext, reclaimStale, markDispatched, markSettled, markFailed, markPermanentlyFailed, markReconciling | one row per intent; each row handed over ends settled, failed or parked; no effect twice |
| Outbox workers (`outbox/worker.ts`, `shared/src/workers`) | the batch and the row in hand | runOutboxCycle, processClaimedRow | crash at any step is recovered by the next claim |
| Rails (`services/execution/src/rails`) | the outside world | dispatch | a retry is harmless where the provider keeps the key |
| Reservations (`services/ledger/src/repository/reservations.ts`) | `ledger_reservations.status`, account balances | reserve, consume, release, expire, sum | funds are held exactly while an intent may still spend them |
| Agents and kill switch (`services/execution/src/agents`, `main.ts`) | agent state | halt, restore | a halt stops every dispatch whose guard comes after it |
| Policy (`services/policy/src`) | policy versions, one active | draft, sign, activate, evaluate | one version is active and is the one evaluated |
| Audit log (`shared/src/audit`, `services/audit/src`) | `audit_events` chain, `audit_chain_heads` | emit, verify | the chain is linear; a key is logged once |
| Anchoring (`services/audit/src`, `services/api/src/anchorBroadcaster.ts`, `contracts/src/BrainAuditAnchor.sol`) | `audit_anchors`, the contract's published roots and latest pointer | anchor cycle, on-demand publish, reconcile, anchor, anchorBatch | every event ends in a published root that can be recomputed |
| HTTP idempotency (`shared/src/idempotency`) | a Redis entry per tenant and key: in flight, or the answer | probe and mark, store, discard, expire | an answer is replayed only for the same request, and a retry does not run beside the first |
| Collections proposals (`services/api/src/agents`, `services/execution/src/proposals`, `agents/AgentService.ts`) | `proposals`: one pending row per invoice, decisions, key-ed events | propose, refresh, supersede, decide, undo | one actionable proposal that follows its invoice, each decision on record |
| Webhooks (`services/audit/src/webhook-*`, `shared/src/webhooks`) | deliveries, dead letters | dispatch, retry, replay | at least once, in bounded attempts |
| Raw ingestion (`services/raw`) | artifacts, `raw_parsed` pages and their version, queue, sync leases | ingest, parse, repair, sync | no artifact is lost |
| Canonical projection (`services/canonical`) | canonical records, `canonical_projection_log` | poll, project, record a failure, quarantine, replay | the log never claims a version that was not projected; every page ends projected or quarantined, with its event |
| Ledger projection (`services/ledger/src/projection`) | Ledger rows, `ledger_projection_quarantine` | poll, project, skip, count, quarantine | the Ledger follows the canonical store; a poison row holds back no other |
| Agent runs and router (`services/agent-router`, `agent-runs.ts`) | runs | start, claim, complete, cancel | a run ends once |
| OAuth (`services/auth`) | codes, refresh tokens, sessions | authorize, exchange, rotate | a code or token is used once |
| Tenant deletion (`services/api/src/tenant-deletion`) | tenant, `do_not_delete`, agents, deletion jobs, purge jobs, their audit outbox, artifacts and object versions | request, fence, delete, restore, purge, hold, deliver, replay | what is reported erased is gone, a verdict stands, every job and intent ends |
| Smart contracts (`contracts/src`) | escrow jobs, session keys, caps | create, release, refund; execute | funds leave once, caps hold |
| Wiki, internal agents, surfaces, MCP, SDK, infrastructure | rows, prompts, configuration | read, infer, render, deploy | not protocols |

How they interact: a request creates an intent after a policy evaluation;
members' approvals are signed against a policy version; `execute` runs the gate
and, in one transaction, moves the intent to `dispatching`, reserves funds and
enqueues an outbox row. Workers claim rows, check the kill switch, call the
rail, store the receipt, and settle the intent, which consumes the hold. Every
step emits audit events, and the publisher batches those into Merkle roots.
PostgreSQL transactions and conditional updates are the only synchronisation;
between two of them any other process may run, and any process may stop.

What is hard: requests that await several services between reading a status and
updating it; workers that die, or outlive their lock, between two writes;
providers that time out after having acted; policies that change between
approval and execution; logs written before or after the change they describe;
connections held while another is awaited; a page that is repaired while it is
being projected. The list with lines is `hazards` in `PROJECT.json`.

## 2. Modules

| Module | Models | Relation to the code |
|---|---|---|
| `Rails` | what the action types, rails and receipts decide | constant tables; no state |
| `ExecutionOutbox` | hand-off, kill switch, outbox rows, workers | one action per transaction or external call |
| `Settlement` | what the outbox promises to one intent | abstract: hold funds, transfer, execute or fail |
| `MCExecutionOutbox` | values for TLC | |
| `ExecutionOutboxProofs` | theorems about `ExecutionOutbox` | |
| `PaymentApproval` | creation, approvals, decisions, the approval check of the gate | one action per awaited step of a request |
| `MCPaymentApproval` | values for TLC | |
| `PaymentApprovalProofs` | theorems about `PaymentApproval` | |
| `AnchorContract` | `BrainAuditAnchor` for one tenant, and the chain's order | one action: mine the next transaction |
| `AuditAnchor` | emitter, scheduled publisher, `POST /audit/anchor/publish`, broadcaster, orphan reconciler; extends `AnchorContract` | one action per database write, broadcast or awaited answer |
| `MCAuditAnchor` | values for TLC | |
| `AuditAnchorProofs` | theorems about `AuditAnchor` | |
| `AuditChain` | emitters of two revisions, the backfill migration, tampering, the paged verifiers | one action per statement under the lock, page of a verifier or trigger |
| `IntentRequests` | `POST /payment-intents` behind the idempotency plugin, the MCP tool, Redis | one action per Redis command, insert or event |
| `CollectionsProposals` | agent runs, the reconciler and members on one invoice, with the connection pool and the locks | one action per awaited statement or event |
| `TenantErasure` | both deletion paths, the purge worker and the audit outbox | one action per transaction or storage call |
| `Projection` | raw pages, the canonical projector, the Ledger's projection workers | one action per poll, transaction or emit |
| `MC...`, `...Proofs` of these five | values for TLC; theorems | |

### ExecutionOutbox

`intent`, `hold` and `agent` are the statuses of the intent, its reservation
and the proposing agent. A call (`execute` or `resume`) has a step and an
intent; it gates, then hands off or aborts. `row[c]` is the outbox row call `c`
inserted: intent, idempotency key, status, attempts, whether a receipt is
stored, whether it is locked and how its lock and back-off have aged
(`elapsed`). The key is that of the code, `pi:<intent>:<policy decision>`: the
decision is the one of the call's gate run, so two calls on one intent would
give it two keys. Wall time is abstracted to that flag: `TimePasses` ages a
row past its back-off or, when locked, past the stale-lock age. A worker has a
program counter, the batch it claimed and the row it works on, with the
snapshot it read at the claim: later steps use the snapshot, not the table, as
`processClaimedRow` does. `executions` counts recorded settlements, `after` notes
external dispatches in the audit log. `moved` counts the transfers the outside
world made and `known` the keys under which it made one: a call on a keyed rail
sends `KeySent` and makes a transfer unless that key is known. That the provider
keeps its keys is the only thing assumed of it; that every attempt sends the
same key, and that no second row brings another one, is what the model shows.
`late[w]` records the rail calls worker `w` made for the agent since it was
halted. The audit emission after the commits of `completeExecution` and
`failExecution` may fail too, so an intent may have its outcome while the row
goes on to `markFailed` or `markReconciling`.

Properties: `HandedOverOnce`, `FundsFollowIntent`, `KeyedRailPaysOnce`,
`HaltOvertakesOneCallEach` (after a halt a worker finishes at most the one call
whose guard came before it, whatever it had claimed), `ClaimsAreExclusive`,
`AttemptsStayUnderCeiling`, `TransfersAreAccountedFor` (without an idempotency
key an intent is paid at most once for each attempt and each cycle cut short),
`InFlightIsRecoverable`, `OutcomesAreFinal`, `OneExecutionPerSettlement`,
`RowsOutliveTheirIntents`, `ExecutedWasPaidAndAudited`, the liveness properties
`RowsResolve` (a row handed over is settled, failed or parked) and
`StoredReceiptSettles` (a stored receipt leads to a settlement, unless the
intent failed before, or the row is parked because its settlement kept failing
or the executions table refuses its rail), and
`KeepsPromise`: the whole implements `Settlement` under the refinement mapping
written beside it.

### PaymentApproval

One intent. Every request keeps in `req[r]` what the code keeps in local
variables across its awaits: the status it saw, the approvers it counted, the
policy version it evaluated. `signedAt` and `stale` are the `approvals` rows,
`decisions` the `proposal.decided` events with their idempotency keys, `ruling`
the event the intent's row names. `ActivatePolicy` may come at any time.
`Crash` ends a request at any step: a dead process, a thrown await, a member
without authority.

Properties: `ApprovedHasAuthority`, `HandedOverWithQuorum`,
`DecisionIsOnRecord`, `DualControl`, `DecisionsStand`.

### AnchorContract and AuditAnchor

One tenant. `txs` are the transactions of the publisher account in nonce order,
`mined` counts those the chain has taken, `publishedBy[r]` is the one that
emitted `AnchorPublished` for root `r`, `latest` the contract's pointer. An
event is stamped inside the emitter's transaction (`stamp`) and is visible when
that commits (`stored`). `anchor[r]` is the `audit_anchors` row of a root:
status, transaction, window. `sched` holds the local variables of `runAnchor`
and of the broadcast it awaits, `req[p]` those of a call of the route. The
reconciler reads a row as pending and writes it after asking the chain, when it
may be anything: `Reconcile` writes any row whose root is published, at any
time, which includes what the code does. `Throw` is an exception
in a cycle, `Stop` the end of the process, `RequestFails` either for a request.

Properties: `AnchorTxIsWinner` (the row's transaction is the one that published
the root), `LatestIsNewest`, `RootsRecompute` (what the verifier recomputes is
the row's root), `CoveredEventsAreLeaves` (no gap behind `covered_to`), and the
liveness properties `PendingIsResolved` and `EveryEventIsAnchored`.

An event may commit at any time after its stamp, also when a window already
computed or a row already made covers it: a slow commit, or an emitter's clock
behind the publisher's (never ahead of it). `Commit` puts such an event into
the history variable `late`: its stamp is not after the end of some row, or lies
before the start of a window a publisher has computed. These events are lost to
the anchors (§5). `RootsRecompute`, `CoveredEventsAreLeaves` and
`EveryEventIsAnchored` except them by name: each leaf is found in its row's
window, what is found besides committed late, and every other event is covered
and, unless a row was marked reverted (§5), published in the end.

Abstractions: a root is the set of its events (hashing is ideal), so a row is
keyed by its root; the `isPublished` reads of one loop are one step; the limit
on a batch and rows whose events cannot be found are left out, as is rotation of
the publisher key; the event the reconciler emits is one of `Events`; the route's
cooldown only bounds how often it is used; the scheduler is one process, as
`anchorRunning` makes it within a process.

### AuditChain

One tenant's chain. `rows[p]` is the `audit_events` row at place `p` of the
(created_at, id) order; the clocks of hosts are skewed, so an emit may take any
free place, and the chain order is another one. A hash is the pair of place and
content it was computed from. The events `Existing` before the deployment may
have been hashed under another `hash_schema_version` (`OtherVersion`), which the
content verifier passes over (`audit-consistency.ts:265`). `call` holds what an
emit has read under the advisory lock; those of `Previous` are of the revision before
`audit_chain_heads` and run while the migration that fills it does (`backfill`).
`Edit` changes or deletes rows behind the application's back, after the
migration; `checkpoint` and `findings` belong to the two paged verifiers.

Properties: `ChainIsLinear` (one genesis, no fork, no gap, and the head names
and counts it), `EmitIsServed` (the database refuses no emit of the new
revision, and an answered emit has one row with its key and content),
`TamperIsFound` (an anchored event that was tampered with is found, unless its
hash version is another and its stored hash was left as it was),
`CleanPassIsHonest` (a pass that ends clean has seen all that was wrong since
it began).

Abstractions: changes of `prev` alone are not modelled; the structural check,
which only sets gauges, and lost replies of calls without a key are left out.

### IntentRequests

`entry[k]` is what Redis holds under a key, `intent[r]` the row request `r`
inserted, `logged` its events, `request[r]` the step of the request and its
answer. A retry is a request of its own with the key and body of the first. A
process may be lost at any step; entries expire at any time. Statuses are
`approved` or not; a conflict and an error are both `refused`, since the plugin
treats every answer of 400 and more alike. A call of MCP carries no key and
collides on the dedup index.

Properties: `AnswersAgree` (an answer names an intent made from the same body
under the same key, over MCP the only one) and `AnsweredIsLogged`.

### CollectionsProposals

One invoice. Runs propose, reconcilers refresh or supersede the pending
proposal, members decide. `proc` is where each of them is in its transaction,
`events` the audit events with a key; who holds the advisory lock of the
invoice, the row, and which of the connections follows from the steps. `TimesOut` is the statement timeout of a wait for a lock, which
does not bound a wait for a connection. `Says` is what the event tells.

Properties: `OneActionableProposal`, `DecidedIsOnRecord` (with the content that
was decided upon), `ProposalFollowsInvoice` (a pending proposal is brought in
step with the invoice or superseded; excepted are rows that the policy would
not leave pending and supersessions blocked by a key conflict). The run
`pool_deadlock` refutes `ClientsAreReleased`.

Abstractions: a run evaluates when it begins and a reconciler lists when it
begins; the events `agent.action.proposed` and `.refreshed`, which have no key,
and the cooldown are left out; the other subjects of proposals use the same
code under another lock.

### TenantErasure

One tenant with one agent. `job` is its row of `tenant_deletion_jobs`, `leader`
the holder of the advisory lock, `deleter` the snapshot each worker works with,
`self` the tenant's own DELETE, `rows` and `bytes` the artifacts and object
versions of each upload, `purge` and `purger` the purge job and its workers,
`intents` and `log` the audit outbox and what it wrote. Row locks on the
tenant make its own DELETE, the request, protection and the deletion take turns
(migration 0047). Each upload is one object version, possibly under legal hold.

Properties: `ErasureIsReal` (what is reported complete has left neither the
tenant nor the bytes of an erased artifact), `PurgeVerdictStands` (no worker
overwrites the end of a purge), `ErasureSettles` (every job ends and every
intent is delivered or dead-lettered).

Abstractions: adapters without an inspection of holds and the details of
retention; a registration that comes while a purge counts is a fault; four kinds
of intent are tracked, the others are delivered the same way; a fence that fails
may have committed with its reply lost, and its worker then restores nothing;
attempts are set back when a row is exhausted.

### Projection

One tenant. `version[p]` stands for `extracted_at` of a page, `log` for
`canonical_projection_log`, `canon` for the source of each canonical record: the
page and version that wrote it last. `projector[w]` holds the pages polled and
the one in hand with the version the poll read. Several projectors run at once:
the leased worker, which alone is fair, and the drains after an upload, which
hold no lease. `told` are the current versions with `canonical.projected` in the
audit log, `lost` those whose projector died, or could not record its failure,
before it could write it. On the Ledger's side `carrier` is a cycle of a worker,
`held` the quarantine, and `fresh` the records whose Ledger row is not older
than the canonical one. That is how the polls compare `updated_at`; since
`now()` is the start of a transaction, a commit that began before a Ledger write
leaves the row fresh (`since`).

Properties: `TerminalIsCurrent` (a page the projector is done with is in the
canonical store as of its current version, whatever older versions others held
and whenever it was repaired), `ProjectedIsLogged` (it has its event, or
somebody is about to write it or to have the page tried again, but for the two
losses named), `ProjectionSettles` (nothing is left that a poll would select and
that could be placed: every page ends projected or quarantined, every record
carried, quarantined, or waiting for a row that is not there).

Abstractions: a poll takes any part of what is pending (passes, LIMIT, filtered
drains), one of the Ledger all that it selects, so its limit of 50 is left
out; the content of Ledger rows is not kept; the link repair of
`canonical_counterparty_id`, overlays, rebuilds after an upload, the chart of
accounts and the gauges are left out.

## 3. Runs

| Run | Shows | Bounds |
|---|---|---|
| `outbox_two_rails` | the money path with one worker, an onchain and an ACH intent, operators, kill switch, a crash, a failing settlement | 2 intents, 2 calls, 1 worker, ceilings 2 and 3, 1 crash, 1 row whose settlement may fail, 1 halt |
| `outbox_two_workers` | exclusive claims, ceilings, transfers accounted for, finality, stored receipts settle, while no live worker outstays its lock | 2 workers, an onchain and an x402 row, 1 crash, 1 row whose settlement may fail, ceilings 1 and 2 |
| `outbox_slow_workers` | what still holds when a lock goes stale under a live worker; the refinement of `Settlement` | 2 workers, 1 row, 1 crash, a settlement that may fail |
| `outbox_double_transfer` | violated claim: one economic effect per key (onchain) | 1 of each |
| `approvals` | the approval protocol | 2 members of different roles, one beyond the own dual-control threshold, 4 requests, 3 policy versions that tighten, crashes |
| `anchoring` | events, scheduled publisher, one call of the route and the reconciler over the contract, with commits behind a window: no gap, recomputable roots, the right transaction, and everything else published in the end | 2 events, 1 request, 4 clock values, windows of 1, 2 ticks to a second, 1 fault |
| `chain` | emitters of both revisions, the backfill, an edit and the verifiers: linear, served, found | 3 calls, one key used twice, 1 older event of another hash version, 3 places, pages of 1 and 1, 1 edit, 1 anchored window |
| `intent_requests` | retries of a create, with and without a crash, and of the MCP tool | 3 requests under 1 key, 1 with another body, 1 MCP call and its retry |
| `collections` | runs, reconciler and a member on one invoice | 2 runs, 1 member, 1 reconciler, 3 connections, 2 days, 2 rule sets, 2 changes or rollbacks |
| `pool_deadlock` | violated claim: a client is released | 2 runs, 2 members, 2 connections, no reconciler, no change |
| `erasure` | both deletion paths, purge and outbox | 2 replicas of each worker, 1 upload that may come at any time, 2 purge attempts, 1 attempt to deliver, 2 faults |
| `projection` | projectors, repair, quarantine, replay and the Ledger's worker | 2 pages, 3 versions, 2 records, 2 projectors, 1 Ledger worker, 2 attempts, 1 fault or replay |

The bounds are enough for the cases that matter to occur. In the outbox two
workers contend for a row only pairwise, a crash and a fault at every step are
both within the budget, ceilings 2 and 3 leave one retry on each side of either
limit, and the settlement of one row may fail as often as the row is tried,
which is what exhausts its attempts with a receipt stored. Two events are enough
for one to commit behind the window that anchors the other. Four requests of `PaymentApproval` are two approvals racing a rejection
or an execution. In `chain` two emits of the new revision and one of the old
contend for a head while the backfill works on its snapshot, and each verifier
needs a page for every row it examines. In `intent_requests` a retry meets
every state of the entry, and so does a request that reuses the key. Three
connections let each of three transactions begin but not all of them emit. In
`erasure` either path may win, a replica may take over from a stalled one (one
fault) and meet another fault, and the artifact may come before, between and
after. One attempt to deliver leaves the dead letter and its replay in reach. In `projection`
one version is poisoned and one is rejected by the Ledger, the pages share a
record, one names a counterparty that the other brings, and two attempts tell a
budget that is reset from one that is not.

`MaxAborts`, `MaxFaults`, `MaxHalts`, `MaxTurns`, `MaxEdits`, `MaxAnchors`,
`MaxPlace` and `MaxTime` bound counters and appear only in guards; `MaxFaults`
of `ExecutionOutbox` bounds the rows whose settlement fails, not how often; that
of `TenantErasure` and `Projection` bounds operators' replays too, `MaxTurns`
the changes of invoice and rules together with rollbacks. Requests are finite in
`PaymentApproval` and `IntentRequests`, runs and days in `CollectionsProposals`,
events and jobs in `AuditAnchor` and `TenantErasure`: their behaviours end, and
deadlock is not checked there. Nor is it in `projection`, where a poll that finds
nothing changes nothing. It is in the outbox and in `chain`.
Requests are symmetric in `approvals`; in `intent_requests` a call and its retry
are. Neither run has a liveness property.

Fairness. In the outbox each worker's cycle is weakly fair, since
`startManagedInterval` polls for ever and a crashed process is restarted, and
time passes. In `AuditAnchor` the cycle is weakly fair, the chain mines, and a
database transaction of the emitter ends. In `AuditChain` each verifier's page
is strongly fair: the cycle alternates between them and a failed page is tried
again. In `CollectionsProposals` waits for a row or an advisory lock and for a
connection are served in the order they began, which strong fairness of the
reconciler, of each member and of the runs together states, and some timeout of
the waits that can end does fire (weak fairness); nobody is fair who waits for a
connection that nobody gives back. In `TenantErasure`
one weak fairness of all workers' work together suffices, less than the code
gives. In `Projection` the leased projector and each leased Ledger worker are
weakly fair. Nothing is assumed of requests, operators, members, drains,
providers, emitters or the reconciler of anchors. A process that crashes for
ever is excluded by the bound on faults, not by fairness.

A violated claim quotes the line that makes it; the finding in `PROJECT.json`
says what the run shows. Each is stated in the model of the code as it is: no
claim was weakened and no step added for it. Every property of a passing run has
a mutant: a definition `X_...` beside `X` that breaks it.

## 4. Proofs

`ExecutionOutboxProofs` proves for every number of intents, calls and workers,
every ceiling and every bound, with slow workers allowed: `TypeOK`,
`HandedOverOnce`, `FundsFollowIntent`, `OneExecutionPerSettlement`,
`RowsOutliveTheirIntents`, `ExecutedWasPaidAndAudited`, `KeyedRailPaysOnce`,
`HaltOvertakesOneCallEach`, and that `ExecutionOutbox` implements `Settlement`.

None of these is inductive alone. The invariant `IInv` adds: a busy worker
holds an existing row (`WorkersHoldRows`, `WorkersHoldExisting`), calls and rows
name intents and a row's intent is past approval (`CallsNameIntents`,
`RowsMatchIntents`), what a worker's program counter implies of its row and
intent (`Outcome`: a worker about to record a settlement holds a row whose money
moved), and what a stored receipt implies (`Receipted`). `KeysNameRows` carries
`KeyedRailPaysOnce`: a row has the key of its call, the providers know a row's
key exactly when they have paid its intent, and nothing is paid before its
hand-off; with one row per intent a second transfer would need a key that is
not known (`DispatchPaysOnce`). `Overtaking` carries the halt: a worker that is
past the guard of a halted agent has made no call since, and once it has made
one no guard lets it past again. Each action preserves
each part; a lemma per action keeps the proof readable. The hypotheses are the
named assumptions on the constants in `Rails` and `ExecutionOutbox`, which TLC
evaluates in every run.

Five more theorems have the hypothesis `~SlowWorkers`: a live worker finishes
its batch within `staleSeconds`, the 300 seconds of `runOutboxCycle`, so only
the locks of dead workers go stale. The code relies on it and does not enforce
it; without it the five are false. They are
`ClaimsAreExclusive`, `AttemptsStayUnderCeiling`, `InFlightIsRecoverable`,
`OutcomesAreFinal` and `TransfersAreAccountedFor`. Exclusive claims are not
inductive: that no second worker takes a row rests on its lock, and that the
lock is still there rests on nobody else having written the row. `Exclusive`
puts the two together. One worker at most holds a row (`OwnersAreUnique`); a row
somebody holds is `dispatching` or `dispatched`, locked, and not stale
(`LocksCoverHolders`). Then nobody can reclaim or claim it (`ClaimsAndReclaims`),
and whoever writes it is its holder and lets go of it when the row leaves that
state (`HolderWrites`). The ceiling follows because only a claim of a row
below it makes a holder, and a holder counts one attempt at most; finality
because the outcome of a row nobody holds has no writer.

The account of transfers adds what a worker's snapshot knows: it has a receipt
exactly when the row has (`ReceiptsDecide`), so a resumed row is settled from its
receipt and not dispatched again. `Metered` then weighs each row: its attempts,
one more while its dispatch is neither counted nor recorded, and the cycles that
were cut short pay for every transfer. TLC finds the bound tight on
`outbox_two_workers`.

`PaymentApprovalProofs` proves all six properties of `PaymentApproval` for any
finite set of members with any roles and thresholds, any sequence of policies
and any requests, with crashes or without. The invariant says that what a
request keeps in its local variables is still true when it acts on it
(`GoodLocals`), which holds because signatures, listed approvals and logged
events are never taken back (`Grows`, `LocalsPersist`): the approvers it counted
have still signed, so with its own signature there are enough (`Enough`); the
event it logged is still there, alone under its key (`GoodLog`); and the quorum
the gate saw can only have grown (`GrantedGrows`). Members are assumed finite,
with `RoleOf` and `Policies` of their types (`ApprovalAssumption`).

`AuditAnchorProofs` proves for all events, requests, window lengths and bounds,
whenever events commit: `TypeOK`, `AnchorTxIsWinner`, `LatestIsNewest`,
`RootsRecompute` and `CoveredEventsAreLeaves`.

The first three follow from `IInv`: no stamp, clock reading or window lies in
the future (`Timely`); a mined transaction has published what it names and a
root is named by its publication (`ChainInv`); and what a process holds in its
local variables is still true when it acts on it (`GoodCycle`, `GoodCall`: the
rows of a batch exist, what is about to be recorded is on the chain). The chain
only grows, so these persist through the steps of the others (`GoodPersists`).
The last two need `LogInv`, which speaks of the events that did not commit late:
those before a window that was computed are leaves (`GoodWindow`), so a row made
from it leaves nothing out before its end, and its leaves are what its window
holds (`WholeRow`). A commit keeps both (`CommitKeepsLog`), since an event that
would break either is, by that, late. `WindowFacts` is the arithmetic of
`nextAnchorWindow`.

`AuditChainProofs` proves `ChainIsLinear`, `EmitIsServed` and
`CleanPassIsHonest` for any calls of either revision, any keys, contents, clocks
and page sizes. `LogInv` says that every row but the genesis has the row it
names as its predecessor and no two have the same (`Linked`), that the head is
the one row nobody names, with its number (`HeadEnds`), and that the snapshot of
the backfill is either still the end or has been overtaken by a head
(`SnapshotHolds`); `CallInv` that a predecessor read under the lock is still the
head. The third theorem rests on `Seen`: what was wrong when the pass began and
lies before its checkpoint has been reported.

`IntentRequestsProofs` proves both properties for any requests, keys and bodies.
`EntriesReal` and `AnswersReal` say that what Redis stores and what a request is
about to answer name an intent that exists, of that key and body, with its
events; `DedupKeysUnique` is the partial index. `Monotone` (rows and events are
never taken back) carries both through the steps of others.

`CollectionsProposalsProofs` proves `OneActionableProposal` and
`DecidedIsOnRecord` for any processes, rules and pool sizes. `LocksInv` says
that two processes with a transaction on the invoice hold different rows or
different locks (`HoldersApart`) and that what each has found is still so;
`RowsInv` that a row that left `pending` has its event.

`TenantErasureProofs` proves `ErasureIsReal` and `PurgeVerdictStands` for any
numbers of replicas, uploads, attempts and faults. The strengthening: a live
tenant is untouched, an artifact's bytes were stored before its row, a worker
whose round ended clean and still holds the lease has left nothing, and only a
job under way has a holder.

`ProjectionProofs` proves `TerminalIsCurrent` and `ProjectedIsLogged` for any
pages, contents, poisoned or rejected versions, and any number of projectors and
Ledger workers. `TerminalIsCurrent` speaks of pages whose log row names their
current version and is not inductive, because a projector may write the row of
an older one; `LogIsTrue` says of every row without an error, whichever version
it names, that the store holds that version. `NothingNewer` (nobody holds a
version newer than its page) gives the rest: a repair makes every row of its
page stale.

All these rest on the named assumptions about the constants in the modules
themselves, which TLC evaluates in every run, and on nothing else.

Only model-checked: liveness under fairness, which is beyond the prover
(`RowsResolve`, `StoredReceiptSettles`, `PendingIsResolved`,
`EveryEventIsAnchored`, `TamperIsFound`, `ProposalFollowsInvoice`,
`ErasureSettles`, `ProjectionSettles`). Every other property of a passing run is
proved. The type invariants are proved; the runs leave them out.

## 5. Known deviations that no run states

What the code does against a comment, a document or its own intention, met while
modelling. The models do what the code does; where a property would fail because
of one of these, its definition excepts the case and says so.

Money path

* A failed intent may be paid. After a crash between `failExecution` and
  `markPermanentlyFailed` the next holder dispatches the row without reading the
  intent's status again (`worker.ts:227`; the comment at `worker.ts:370` says
  otherwise).
* A permanent rejection that follows an ambiguous attempt fails an intent whose
  money may have moved; `KeyedRailPaysOnce` only bounds the number of transfers.
* `markDispatched` stamps no lock (`OutboxService.ts:227`) and `reclaimStale`
  passes over rows without one, so a slow worker may leave a dispatched row that
  nothing selects, which `worker.ts:310` calls recoverable.
* Receipts of the x402 and escrow rails are refused by the check on
  `executions.rail` (`migrations/0002_executions.sql:8`, against
  `worker.ts:322`): such a row ends parked with its receipt, the money moved and
  the intent `dispatching`. So does a row whose settlement fails until its
  attempts are used up. `StoredReceiptSettles` excepts both.
* A Plaid receipt has no `ach_trace`, which `receipts.ts` demands, and
  `parseAchAction` demands a `user.legal_name` no payload supplies: `Rails`
  carries both as constants, and the runs give the credentials that make ACH
  reach the provider.
* The kill switch is checked under a lock released before the provider is
  called, so one call of each worker may go out after a halt
  (`HaltOvertakesOneCallEach`).
* Two slow workers on one row may count past the attempt ceiling.
* A hold on funds stops counting when it is consumed, before any balance is
  written (`gate-loaders/index.ts:37` says otherwise), its expiry is swept by
  nothing (`reservations.ts:221`), and the window cap of micropayments counts
  executed intents only (`agent-window-spend.ts`), so concurrent intents may
  overrun it.

Approvals and requests

* Two approvers at once may leave an intent `awaiting_second_approval` with both
  signatures (`PaymentIntentService.ts:614`; `protocol/payment-intents.md:125`
  says it is approved).
* A policy that names one role twice cannot be satisfied (`approverRoles.ts:29`).
* A gate that evaluated an older policy version marks newer signatures stale
  (`approvals/repository.ts:112`); a signer cannot sign again, so such an intent
  cannot be executed.
* A request that dies after logging `proposal.decided` makes the emitter refuse
  every other approver of the same status.
* The idempotency plugin discards a key after its own 409 (`middleware.ts:110`),
  so the next retry runs beside the first request and may insert a second intent
  (`store.ts:8` promises the 409). The key does not name the route. The marker of
  a crashed request blocks until it expires or until a retry's 409 discards it.
  An error after the insert followed by a retry creates a second intent. A retry
  over MCP may be answered with an intent whose events are not yet logged.

Audit log and anchoring

* An event whose emit commits behind a window's end is never anchored
  (`emitter.ts:355`; `protocol/audit-and-proof.md:3` says every event is). If a row
  of that window exists, the verifier of roots, which recomputes it from the
  events it finds, then takes it for a tampered one. `RootsRecompute`,
  `CoveredEventsAreLeaves` and `EveryEventIsAnchored` except these events
  (`late`).
* The content verifier examines no row of another hash version
  (`audit-consistency.ts:265`), so a change of its content that leaves the stored
  hash alone is never found: a root is recomputed from the stored hashes.
* A row marked reverted may have a published root (`anchorBroadcaster.ts:409`,
  against line 43) and no longer counts for `covered_to`, so the next window
  starts at its events again, finds the row by its root and does nothing more;
  when the window is clamped it stays there until an operator acts.
  `EveryEventIsAnchored` excepts this case.
* Pending rows are retried oldest first up to the batch size; that many rows
  whose events cannot be found keep out all others (`main.ts:3767`).
* `stableJsonValue` maps `undefined` and dates otherwise than `JSON.stringify`
  stores them, so the recomputed hash of such an event differs from the stored one.
* The deletion of unanchored rows at the end of a chain is seen at the next emit
  at the earliest.

Collections

* A run works with the policy and the day it read when it began and may write
  over a fresher refresh; an approver may approve content that was refreshed
  after it was read.
* A decision that is rolled back after its event was written blocks the same
  decision by another member, or after a refresh, with
  `audit_idempotency_conflict`.
* An error of one proposal ends the reconciler's cycle for all tenants
  (`reconciler.ts:161`). A crash after an event's key was claimed loses the
  event (`agent-run-service.ts:182`).
* A transaction that decides holds one connection and waits for another to
  emit: `pool_deadlock`.

Tenant deletion

* The tenant's own DELETE does not look at `do_not_delete`, which
  `0035_tenant_deletion_jobs.sql:55` asks of every path.
* It hands the outbox inputs without the `event_key` that the drain adds
  (`service.ts:486`, `blob-purge-audit-outbox.ts:394`): when the immediate emit
  succeeded, the row conflicts with the event already written and ends exhausted,
  which `docs/audit-outbox-recovery-runbook.md:5` reads as evidence missing.
* `markFailed` is not fenced (`admin-delete-worker.ts:117`): a stale worker turns
  a job that is complete or purging into a failed one, and may fence and execute
  a failed one. A failed job cannot be requested again, and when restoring fails
  the agents stay quarantined, and so they do when the fence committed but its
  reply was lost: the worker then restores from an empty snapshot
  (`admin-delete-worker.ts:285`).
* Lists of objects are read before the rows are deleted, so an artifact that
  arrives between has no purge job; an upload under way may store bytes after the
  purge. `ErasureIsReal` speaks of the artifacts that were listed.
* An event of a purge's lifecycle, retried by another process, conflicts with its
  first copy until it is exhausted.
* A deletion by the tenant while an administrator's job is queued ends that job
  as failed although the tenant is gone.

Canonical and Ledger projection

* The poll of counterparties does not select `extensions` (`obligations.ts:529`)
  which their projection reads; it throws, and every counterparty that changes
  ends in quarantine after five attempts.
* A Ledger row written from an older poll carries a newer `updated_at` than the
  canonical version it lacks, which is then never selected (`obligations.ts:500`
  says the Ledger is kept current). A canonical commit that began earlier has
  the same effect.
* Skipped rows count as successes and stay first: fifty of them fill the batch of
  every tenant, which migration 0055 was to prevent. Errors in the chart of
  accounts are not counted. The Ledger's quarantine names no version and has no
  replay.
* A success keeps the canonical `attempts`, so one failed emit quarantines the
  page again (against the comment at `worker.ts:265` of the projectors).
* A failed emit whose `recordFailure` fails too leaves a page that no poll selects
  and that has no event; a crash between commit and emit loses
  `canonical.projected` and the hook of an upload. `ProjectedIsLogged` names both.
* A page retried late writes over what a newer page wrote of a shared record, and
  records that a page no longer holds remain.

## 6. Plan

Done, in the order it was written: `Rails`, `ExecutionOutbox` and `Settlement`;
`PaymentApproval`; `AnchorContract` and `AuditAnchor`; `AuditChain`;
`IntentRequests`; `CollectionsProposals`; `TenantErasure`; `Projection`; each
with its proofs. What is left, most important first:

1. A composition of `PaymentApproval` with `ExecutionOutbox` through the intent.
2. `Reservations`: accounts shared by intents, the gate's sum, balances.
3. `Escrow` and `SmartAccount`: the contracts' state machines and caps.
4. Webhook delivery, rotation of OAuth tokens, agent runs and sagas.
5. The queue of normalisation and connector syncs before `Projection`; the batch
   limits of the anchor's retries and of the Ledger's poll.

## 7. Not modelled, and why

Parsers, model inference, retrieval, rendering and deployment have no protocol
state: most of the repository's lines are of this kind (wiki, gateway surfaces,
client SDKs, Python agents, scripts), or are routes and wiring around the
protocols that are modelled. Cryptography (signatures, hashes, Merkle proofs) is
taken as ideal: a root is the set of its leaves. SQL isolation is that of the
code's statements: a transaction whose statements lock what they read is one
action, others are split. `PROJECT.json` lists every component with its status
and the reason.
