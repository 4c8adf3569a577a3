# RevenueGuard: formal models, checks and proofs

RevenueGuard receives signed Razorpay webhooks about failed payments, opens a
*recovery case* for each, lets a deterministic policy choose one *recovery
action* at a time, executes it at a provider, and credits recovered money only
on authoritative evidence. It is a Python monorepo: a FastAPI gateway, a Celery
worker on Redis, PostgreSQL as the only durable store, and a Next.js console.

This directory holds TLA+ models of everything in it that keeps business state:
the event inbox, the case state machine and its decisions, the policy engine,
the action outbox and its executor, the receivables playbook, the detection of
payment incidents, and the row locks and audit entries of the transactions. Paths
below are relative to `src/`; `INT`, `DOM`, `WRK` and `API` stand for
`packages/integrations/src/revenueguard_integrations`,
`packages/domain/src/revenueguard_domain`, `apps/worker/src/revenueguard_worker`
and `apps/api/src/revenueguard_api`.

## 1. Inventory

| Component | State | Operations | What makes it correct |
|---|---|---|---|
| Webhook gateway (`API/routes/webhooks.py`, `API/persistence.py`) | none of its own | verify, store, acknowledge | acknowledged only after the inbox row is durable |
| Event inbox and dispatch (`INT/persistence/repositories.py`, `WRK/tasks.py`) | `webhook_events`, `event_dispatches`, `event_ingestion` queue | record, claim, publish, process, fail, replay | both rows agree, also when an event is processed again; nothing waits unclaimable |
| Provider state and evidence (`INT/persistence/status_ordering.py`, `repositories.py`) | payments, subscriptions, invoices, `event_case_links` | upsert, order evidence | status never goes back, whatever the delivery order |
| Case state machine (`DOM/cases.py`) | `recovery_cases.state`, `state_version`, `updated_at` | `transition_case` | only listed transitions, time never goes back |
| Diagnosis, agent validators, scoring (`DOM/diagnosis.py`, `packages/agents`, `DOM/portfolio.py`) | none (pure) | diagnose, validate advice, rank | advice never widens what diagnosis and policy allow |
| Policy engine (`DOM/policy.py`) | none (pure) | `evaluate_policy` | limits, cooldowns, incidents, consent, approvals |
| Recovery service and repositories (`INT/recovery/service.py`, `INT/persistence/recovery_repositories.py`) | cases, reviews, outbox rows, interventions, policies, incident links | process event, re-evaluate, decide review | what a decision read still holds when it is executed; one contact at a time over all cases of a customer; no deferred case is forgotten |
| Human reviews (`DOM/reviews.py`) | `human_reviews` | request, decide, expire | an approval authorises one action under one policy |
| Action outbox (`INT/persistence/action_repositories.py`) | `recovery_actions`, `action_attempts`, `verified_outcomes` | store, claim, begin, finish, mark stale, resolve, cancel | one caller per action, no second effect, terminal rows stay terminal |
| Execution service (`INT/execution/service.py`) | the rows above and the case | prepare, record result, reconcile, verify signed event | ambiguity is never guessed; credit only on evidence |
| Providers (`INT/execution/providers.py`) | payment links (external) | execute, lookup | classification into definite and ambiguous |
| Playbooks (`INT/playbooks`, `DOM/playbooks.py`, `INT/persistence/playbook_repositories.py`) | invoices, responses, promises, escalations | ingest overdue, record response, maintain promises | settled invoices are left alone; a promise holds outreach and ends once |
| Portfolio incidents (`INT/playbooks/service.py`, `DOM/portfolio.py`) | `payment_outcome_observations`, `portfolio_incidents` | observe, assess, maintain | an incident ends after its clear windows, and does end |
| Audit ledger (`INT/persistence/audit_ledger.py`) | `audit_entries`, `audit_ledger_heads` | append, verify | one gapless chain per merchant, committed with the rows it tells of |
| Worker tasks (`WRK/tasks.py`, `WRK/celery_app.py`) | broker messages | scheduled and queued tasks | every step may be redelivered, late, or lost |
| Agent graph runtime, dashboards, web console, evaluation harness | trace rows, read models, session cookie, reports | prompts, queries, reports | no state of the recovery flow |

How they interact. The gateway commits an inbox row and a dispatch row. Beat
starts a dispatcher every five seconds; it leases due rows, publishes
`<event, lease>` messages and records the publication. A handler normalises the
event, writes the provider rows and the payment observation, lets the incident
rule assess the merchant, links the event to a case, and lets the recovery
service decide and `verify_signed_event` use it as evidence; all of that is one
transaction. A decision diagnoses the evidence, asks the agent graph for advice,
ranks candidates, reads contacts, incidents and provider rows, and evaluates
policy: to proceed inserts an outbox row (and, for a contact, an intervention
that coordinates all active cases of the customer), to defer stores a wake
time, to require a human stores a review. A second dispatcher leases outbox
rows; an executor evaluates policy again, records an attempt, calls the provider
*outside* the transaction and records the result. Every thirty seconds a
reconciler marks stale calls UNKNOWN and looks up what still waits for an
outcome, and a sweep decides every deferred case whose time has come; every
minute promises and portfolios are maintained. Customers' replies and operators'
decisions arrive over the API. Every material write appends an audit entry in
its transaction. Celery acknowledges late and redelivers the messages of lost
processes.

What is hard: a provider call between two transactions; leases that expire
while the holder still works; redelivery of messages already handled; evidence
in any order that carries the time it was observed; two rows per event written
by four writers; an authorisation whose facts change before it is executed
(payment, dispute, opt-out, policy, approval, incident, promise); limits and
cooldowns shared by the cases of a customer; sweeps that decide many rows in one
transaction; assessments made as of an earlier moment; transactions that take
the same locks in different orders. `PROJECT.json` lists each of these hazards
at its line, with the properties that would catch it.

## 2. Modules

| Module | Models | Extends |
|---|---|---|
| `CaseLifecycle` | `DOM/cases.py`: states, transition table, paths of transitions in one transaction | |
| `ActionExecution` | outbox, execution service, provider, reconciler, signed events; decisions as a choice of verdicts | `CaseLifecycle` |
| `RecoveryContract` | nothing in the code: what a merchant is promised | |
| `EventDispatch` | inbox, dispatch, publication, processing, failure, replay | |
| `PolicyGates` | `evaluate_policy` as operators | |
| `CaseDiagnosis` | diagnosis table, what the agent validators accept, rankings | `PolicyGates` |
| `RecoveryDecision` | provider rows, evidence order, cases, incidents' effect, contacts, policies, reviews, execution check, deferred sweep | `CaseLifecycle`, `CaseDiagnosis` |
| `Playbooks` | overdue invoices, replies, promises, reminders, disputes | `CaseLifecycle`, `PolicyGates` |
| `PortfolioIncidents` | observations, degradation, clear windows, maintenance | |
| `LedgerTransactions` | lock orders of the transactions, deadlock victims, audit chain | |
| `MC*` | instances for TLC: constants, scenarios, symmetry | the module in their name |
| `*Proofs` | theorems (section 5) | the module in their name, `TLAPS` |

The components are composed through the operators they share. `RecoveryDecision`
and `Playbooks` call `Evaluate` of `PolicyGates` for both policy checks, with the
inputs the services build; `ActionExecution`, whose subject is what happens to an
action once it was authorised, lets policy answer any verdict the counters do not
exclude, which contains theirs. `RecoveryDecision` in turn has one step where
`ActionExecution` has the claim, call and result of an action, and its
`RepeatWebhook` is what a second commit of `ProcessEvent` of `EventDispatch` does
to the cases. `LedgerTransactions` shows in which order the transactions that the
other modules take as one step (or two) take their locks, that what they append
stays a chain, and which of them meet in a cycle; such a meeting is a rollback,
which those modules have as a step that did not happen or as a lost worker.

### ActionExecution

*State.* `action[a]` is the `recovery_actions` row together with its open
`action_attempts` row; `lease`/`claims` stand for the random `lease_token`
(the n-th one issued), `open` for the lease token of the attempt without
`completed_at`, `expired` and `overdue` for `lease_expires_at` and
`reconciliation_deadline` compared with the clock. `caseState`, `review` and
`spent` are the case's state, whether a review is REQUESTED, and its counters;
`credited` holds the actions with an authoritative SUCCEEDED outcome carrying
money. `broker`, `worker`, `recon` and `event` are messages and what each
process has read so far. `effects`, `link` and `charged` are what the provider
knows, which the code never sees directly.

*Time.* `transition_case` refuses `occurred_at < updated_at`. Observations
(provider answers, lookups, webhooks) carry their own time, so `timeline[c]`
keeps, oldest first, the observations made since the case last moved. A
transition at an observation's time needs the observation to be there and
removes it and all older ones; a transition "now" empties it.

*Actions.* One per transaction or external call: `Evaluate` (via
`ProcessRiskEvent`, `ReevaluateDeferred`, `ApproveReview`), `CloseReview`,
`ClaimDueAction`, the three outcomes of `prepare_execution`
(`PrepareRejected`, `CancelBeforeExecution`, `BeginAttempt`),
`ProviderExecute`, `RecordExecutionResult`/`ResultDiscarded` (the latter when
the transaction raises), `WorkerLost`, `MarkStaleCallUnknown`,
`SelectForReconciliation`, `LookupProvider`, the three outcomes of
`record_lookup`, `ReceiveSigned` and the three outcomes of
`verify_signed_event`; `LinkAppears`, `PayLink`, `CloseLink`, `LeaseExpires`
and `DeadlinePasses` are the environment.

*Abstractions.* Handlers read `now` before they take row locks; the model makes
a transaction one step at its commit, so a transition "now" is newer than every
observation already made. The policy's answer is any verdict, except where the
counters or the class of action exclude it (`PolicyMayAnswer`). Contacts are
counted per case; the code also counts them per customer, which only denies more
(`RecoveryDecision` has that). The unknown-equivalent guard is applied to the
same action only. The adapters are those of `RAZORPAY_TEST` mode:
CREATE_PAYMENT_LINK at Razorpay, everything else at the simulator, which
accepts. "Expired" links are in `cancelled`; partial payments do not occur. A
reconciliation batch is one selection per process. A queued event that raises
stays queued; its retries are `EventDispatch`'s subject.

### EventDispatch

*State.* `dispatch[e]` is the dispatch row; its lease token is written
`<<replay, attempt>>`, which no two claims share. `inbox[e]` is
`processing_state`; `committed` holds the events whose processing transaction has
committed, once or more often. `dispatcher` and `handler` are what each process
holds.

*Granularity.* A dispatcher claims, publishes and records publication in three
steps; each row of a batch is a dispatcher step of its own. A handler reads the
dispatch row without a lock (`Begin`), locks the inbox row (`LockInbox`) and
commits (`ProcessEvent`). The failure recorder locks dispatch then inbox, so a
handler that holds the inbox row deadlocks with it: `WriteInbox` makes the
handler the victim; `FailureUnrecorded` is the other outcome.
`mark_dispatch_succeeded` assigns to the row object loaded by `Begin`, which a
`FOR UPDATE` read does not refresh, so a lease taken in between stays and a
failure written in between is overwritten.

*Abstractions.* Back-off is an arbitrary delay; another delivery of the same
webhook finds its rows and changes nothing; events share no state here, so one
or two are enough. What processing does to the cases, also the second time, is
`RecoveryDecision`'s subject.

### RecoveryContract

Per action: its request takes effect at most once; per case: at most one action
is credited, and only when money backs it. `ActionExecution!Contract` maps
`backed` to "link paid or target charged for the expected amount".

### PolicyGates and CaseDiagnosis

`Gates(p, e, c)` is the sequence of the early returns of `_evaluate_candidate`
in their order; the verdict is that of the first gate that holds, and the last
one always does. `GlobalStops` is the same for what stops a case before any
candidate is looked at, and `Evaluate` is `evaluate_policy`: the first candidate
that does not skip answers. Amounts, confidences and net values are integers,
times positive integers with 0 for "none", quiet hours hours of a day of length
`Day` that may cross midnight.

`Diagnoses` is the table of `diagnosis.py`. The bounded agent graph is
represented by what its validators let through (`Acceptable`): any non-empty
order of action types of the diagnosis, the diagnosis code or another one unless
it is terminal, and a confidence not above the deterministic one. The scoring
artifact is a permutation of the scored candidates (`Rankings`) with a choice of
net values.

### RecoveryDecision

*State.* `truth[s]` is time and status of the payment, subscription or invoice
row; `disposition` the `event_case_links`; `case[k]` the case of an episode with
its counters, evidence, diagnosis, wake time and incident; `incident`, `links`
the portfolio incidents and the cases linked to them; `resolving` what an open
resolution of an incident has read; `action`, `intervention` and `review` rows by
idempotency key and case; `published` the policy versions; `optedOut` the consents.

*Actions.* `ProcessWebhook` is the whole event transaction (`LinkEvidence`,
`OpenCase`, `ApplyEvidence`): upsert, incident observation, evidence order and
decision. `RepeatWebhook` is the same transaction for an event that is linked
already: it changes nothing, except that it creates the case of an event whose
subject has none left. `ReevaluateDeferred`, `ApproveReview`, `CloseReview`,
`CancelBeforeExecution`, `BeginAttempt`, `RecordExecutionResult`,
`RecordLookup`, `CloseIntervention`, `BeginResolve` and `EndResolve` are the others.
`EvaluateCase` takes the rows as the transaction has written them so far, so a
decision sees the provider row and the incident its own event has just written,
as `_evaluate_case` does. `Tick`, `PublishPolicy` and `OptOut` are the
environment.

*Exceptions.* `store_customer_intervention` raises when the contact of a
re-authorised action already has an intervention that coordinates other cases
(`Conflicts`). The transaction is rolled back, so `RecordDecision` has
`~Raises` as a guard; the sweep decides its rows in one transaction, so the
model takes the first due case first and an exception there stops the sweep.

*Granularity.* A transaction that decides or executes holds the row of its case,
and one that reads more cases than it locks (an event, a review) holds the
merchant, so each is one step. The resolution of an incident is two: it holds the
merchant, but reads the linked cases without a lock, and the sweep and the
executions neither take the merchant nor lock the incidents they read. Between
`BeginResolve` and `EndResolve` they find the incident ACTIVE and may link, defer
or move a case that the resolution has read or missed; events and reviews wait.

*Abstractions.* Incidents open and are refreshed when a related failure is
processed (a choice: the rule is `PortfolioIncidents`' subject), not by
maintenance, and the cases they are attached to are read and written in one step
with the event. A resolution is about one incident. All contacts go by e-mail, as in
`diagnosis.py`. Receipts, predictions and explanations are not read back by any
decision and are left out; the fields of a receipt that execution reads are in
`action[a]`.

### Playbooks

*State.* `invoice[i]`, its `case[i]`, `response[r]`, `promise[r]` and
`escalation[r]` by reply, `action` by invoice and contact type,
`intervention[i]`. *Actions.* `IngestOverdue` (a new notice or one of the same
time), `MakePromise`, `Freeze` (dispute, already paid), `AskForReview`,
`EndPromise` and `RemindOf` (the two halves of `maintain_promises`),
`Reevaluate`, `CancelContact`, `SendContact`, `VerificationDeadline`,
`CloseIntervention`; `PayInvoice` and `Tick` are the environment. Reminders are
decided without the invoice's status and the customer's other contacts, as in
the code; the check before execution reads both. *Abstractions.* Every invoice
has its own customer; sending a contact and its acceptance are one step; a
batch of maintenance is taken row by row; intent extraction is a choice between
the reply's intent and UNKNOWN; reviews are not answered here.

### PortfolioIncidents

*State.* `outcome[s]` is an outcome that waits in the inbox or its observation,
`incident[d]` the ACTIVE row of a dimension, `degradedAt[d]` a history variable.
Every time is an age, so the clock has no bound; ages beyond `Horizon` are not
told apart because no comparison of the code does. Slots bound the outcomes that
are in the inbox or a window at once. `ObserveAndEvaluate` assesses as of the
receipt of the webhook, `MaintainPortfolios` as of now. Rates are the code's
integer basis points.

### LedgerTransactions

*State.* `todo[j]` is what is left of the transaction of job `j`, one lock order
for each of its cases, taken one after the other (empty for a case that a batch
skipped); `holder` is the lock table, `draft[j]` the set of its uncommitted audit
entries, `chain`, `head` and `version` what is committed. `HeadSeen` and
`VersionSeen` are what the transaction reads: its own uncommitted rows first.

*Orders.* There is one for each of the seventeen kinds of transaction that lock
rows or append: the acceptance of a webhook; the processing of a failure and of a
payment, with the observation and its incident; a recorded processing failure or
replay; an overdue notice, a customer's reply, a review; the claim of dispatches
or actions; preparing, recording and looking up an action, stale calls; the
deferred sweep, promise reminders, broken promises and portfolio maintenance.
Each says which of webhook, dispatch, merchant, incident, invoice, case, action,
review, promise, customer and head it locks, in which order, and where it
appends. An observation also locks the other cases of its merchant that the
incident is attached to or taken off (`Affected`), which nobody has locked for it.
`SKIP LOCKED` batches take only free rows. `AbortVictim` is PostgreSQL's deadlock
detector (any member of a cycle), `LoseWorker` a lost process.

*Abstractions.* The data of the rows is a version number; the digest of an entry
is the name of the entry (sequence, row, version), which holds as long as SHA-256
has no collision. Left out are rows through which no cycle goes: provider rows
(upserted first, in one order), interventions (locked last) and simulations; and
the shared locks of foreign keys, which add waits. A policy publication locks
nothing. An event always observes, and a case has one event, action, review and
promise at a time.

## 3. Runs

| Run | Instance | Shows |
|---|---|---|
| `MCActionExecution` | 1 payment-link action, 2 workers, 1 reconciler, 1 signed event, 2 attempts, 2 leases | safety under crash, redelivery, late results and lookups; with fairness, `InFlightResolves` and `AwaitingSettles` (one action is creditable: that a case is credited for one of *several* actions is `CaseCreditedOnce` of section 5) |
| `MCTwoActions` | a payment link and a counted retry of one case, 2 workers, 1 reconciler, 1 attempt and 2 leases each | limits shared by the actions, refinement of `RecoveryContract`; with fairness, the case waits for neither action forever, unless a late result of the older one crosses the newer one (`Crossed`) |
| `MCEventDispatch` | 1 event, 2 dispatchers, 2 handlers, 2 attempts, 1 replay | agreement of the two rows and a lease for every claim, however often the event is delivered, processed, failed and replayed; with a fair dispatch schedule, an accepted event does not stay behind |
| `MCRecoveryDecision` | 2 subscriptions of one customer, one paid later; 2 policy versions, the second with a lower review threshold; an opt-out; days of 3 hours, 3 hours in all | what was authorised is checked against the facts at execution; contacts over all cases |
| `MCIncidents` | two payments of one subscription that fail at its issuer (two episodes), a model that may advise, reviews, repeated events, one incident, a fair sweep | work authorised before an incident does not start in it; a case points only at an incident whose resolution finds it by its link; a repeated event acts for one case; deferrals move forward, and a deferred case is decided again, also when the resolution crosses the sweep |
| `MCPlaybooks` | one invoice, replies promise(2), promise(3), dispute, quiet hours, 4 hours in all | settled invoices and promised ones are not contacted; promises end, once |
| `MCPortfolioIncidents` | one merchant and dimension, 3 outcomes at a time, windows 3 and 1, 2 clear windows, outcomes up to 2 late | an incident is resolved after its clear windows, never earlier, and always at last |
| `MCLedgerTransactions` | any two of thirty-one jobs of all seventeen kinds over two cases of one customer and a case of another merchant, 1 rollback each | the chain stays linear and gapless and follows its rows; transactions that lock their merchant first meet in no cycle, however they go on (`MerchantWorkSerializes`); a delivery is never a deadlock victim (`WebhookIsNoVictim`) |
| violations | as `MCTwoActions`; as `MCActionExecution`; two overdue invoices of one customer with quiet hours; a subscription that fails and is charged | the disagreements below |

Why the bounds are enough to be interesting. Two attempts make a retry and a
last attempt differ; two leases let an old message meet a new claim; two workers
are needed for redelivery to race; one replay makes an old claim's message reach
a reset row. Two cases of one customer are the least that share a contact limit,
an intervention and a sweep; two policy versions the least that invalidate an
approval; three hours let a wake time, a review's expiry and an intervention's
end each fall before, on and after one another. Two promises of different days
make "the latest promise" and a repeated reply differ, and a dispute can come
before, between or after them. Two clear windows, a window of late outcomes and
three outcomes let a late failure arrive between two clear windows. Two
transactions with the locks of three cases give every cycle of length two, those
over two merchants included. Two payments of one subscription are the least that
let an event be evidence of an earlier payment's case. Two actions have one
attempt each: a second attempt of one is `MCActionExecution`'s subject, and two
leases still let an old message meet a new claim. The event of `MCEventDispatch`
is one that can be processed; that an event the normaliser refuses (`Poison`)
keeps its rows in agreement and leased is in the proofs only. `MaxClaims`,
`MaxReplays`, `MaxTime`, `MaxLag` and `MaxTries` bound counters the code does not
bound; the rest are parameters of the code.

`CHECK_DEADLOCK FALSE` wherever the bounded system really stops: leases, time
or replies are used up. `MCLedgerTransactions` checks for deadlock (`Finished`
is the only step without progress), and `PortfolioIncidents` never stops.

### Where documents and code disagree

| Run | Statement | What the code does |
|---|---|---|
| `MCAgedWaitEnds` | ARCHITECTURE: aged unknown actions are reconciled, unresolved cases escalated | a redelivered message cancels an action whose call is out; a newer action is begun; the older one's late success moves the case to VERIFYING; every lookup of the newer one then raises, before and after its deadline |
| `MCNeverGuessedFailed` | README: ambiguous results are never guessed as failed | a redelivered message makes the final policy check cancel an action whose call was or may be accepted |
| `MCSweepPoisoned` | diagrams: PostgreSQL holds durable wakeups, Beat dispatches due work; PHASE_6: each case re-enters the policy path | a deferred contact that is authorised again conflicts with its stored intervention and rolls the whole sweep back, every time |
| `MCChargedStopsRetry` | PHASE_6: `subscription.charged` is authoritative success evidence | the stored status ACTIVE stops nothing; the retry is executed |

Further statements of the documents that do not hold of the models are kept as
definitions, quoted in their comments, and have no run:

- `ActionExecution`: `EscalatedHasReview` (an exhausted deadline escalates without
  a review), `ReadyHasAction` (the failed row of the idempotency key is reused as
  it is), `SignedEvidenceUsable` (evidence older than the case's last move raises
  on every retry) and, for two actions of a case, `AwaitingIsReconcilable`.
- `EventDispatch`: `DeadLetterFailed` (a failure recorded late takes an event that
  was processed to the dead-letter path) and `ExpiredIsRecoverable` (the last
  permitted claim, once expired, can be neither claimed nor replayed).
- `RecoveryDecision`: `OneCasePerEvent` (an event linked to a case of its subject
  that has ended, processed again, creates a second case, which stays DETECTED),
  `ResolutionWakes` (a case that the sweep defers while the resolution commits goes
  on waiting for the resolved incident) and `IncidentStopsRetry` (advice may store
  another diagnosis code, which the incident does not explain).
- `LedgerTransactions`: `ContentionSerializes` (case before action and action
  before case wait for each other; the victim may be the recording of a provider's
  answer) and `UnrelatedMerchantsContinue` (a batch over several merchants keeps the
  head of one while it waits for a case of another).
- `Playbooks`: `QuietHoursMoveReminder` and `FrozenIsNotContacted`.

## 4. Fairness

`ActionExecution`: weak fairness of marking stale calls, of each reconciler's
select, lookup and record steps (beat starts them every 30 s, `celery_app.py`)
and of wall-clock expiry. Nothing is assumed of dispatchers, execution workers,
customers or the provider. `AwaitingSettles` still holds because the deadline
passes and every lookup after it either resolves or escalates. It leaves out
`Crossed`: a late result of a cancelled action that moves the case of a newer one,
after which every lookup raises (`MCAgedWaitEnds`).

`EventDispatch`: strong fairness of claiming each event (beat every 5 s, rows
taken oldest first, `SKIP LOCKED`, so a row that is claimable again and again is
claimed), weak fairness of a dispatcher's own steps and of lease expiry.
Nothing of handlers, broker or operator.

`RecoveryDecision`: the clock and the deferred sweep (beat, every 30 s). The
sweep's weak fairness is written with `CanReevaluate` in place of ENABLED: some
answer of the model and the scores lets the first due case be decided without an
exception. Where none does (`MCSweepPoisoned`), nothing is demanded, which is
exactly why the case then never wakes.

`Playbooks`: the clock and, per reply, the settling of a promise whose day has
passed (`maintain_promises`, every minute, broken promises first).
`PortfolioIncidents`: the clock, the maintenance (every minute) and the
processing of each received outcome. `LedgerTransactions` states no fairness: its
properties are about what may happen.

## 5. Proofs

The proofs hold for every value of the constants that satisfies the named
assumptions of the modules, which TLC evaluates in every run. A proof cites only
those it needs. What they ask for and why the code provides it:

- `ActionsAssumption`, `BoundsAssumption`, `ObserversAssumption`,
  `PoisonAssumption`: the constants have their types; limits are positive.
- `DayAssumption`, `DelayAssumption`: a day has hours, and the delays of
  `diagnosis.py` are not negative.
- `EventsAssumption`, `CaseIdsAssumption`: a fact is a normalised event; the
  placeholder `NoCustomer` is no customer; the cases are finitely many, being rows.
- `PoliciesAssumption`, `PolicyAssumption`: the columns of `merchant_policies` as
  the domain model validates them (positive deferral, a natural contact limit, an
  hour of the day, a fixed offset of the time zone); versions have distinct
  effective times, and one of them is in force from the start. Published policies
  are finitely many.
- `IncidentsAssumption`: `NoIncident` is no incident, and scopes are systemic.
- `RepliesAssumption`: replies are rows, finitely many, each about an invoice.
- `WindowsAssumption`, `MerchantsAssumption`: the windows and counts of the
  assessment are positive, the current window is the shorter one, and merchants
  have distinct ids.
- `JobsAssumption`: a job is one of the seventeen kinds of transaction, and an
  incident affects a list of cases.
- `DecisionBoundsAssumption`, `PlaybookBoundsAssumption`: the bounds of the models
  (`MaxTime`, ...) are positive. No proof depends on how large they are.

The safety properties that passing runs check, invariants and action properties,
are proved as well, except `MerchantWorkSerializes` and `WebhookIsNoVictim` of
`LedgerTransactions`; the liveness properties are not. Proved without a run are
`OptOutIsRespected` (the check of `PaidIsNotCharged` on another fact), the `TypeOK`
of `PortfolioIncidents` and of `LedgerTransactions`, `LeaseMatchesAttempt` and
`WaitingIsClaimable`.

**`ActionExecutionProofs`** proves `TypeCorrect`. `TypeOK` is inductive:
`TypeStep` has one case per action of `Next`, over lemmas on what each row
transformation (`Released`, `Settled`, `Paid`, `Finished`) and each move of a
case does to the types. The second part proves `OneCallerPerAction`, `AtMostOneEffect`,
`LeaseMatchesAttempt`, `NeverReopened` and `WithinLimits`. That an action has one
effect does not follow from its row alone: the provider may execute a request
while the row is being given up, and a late result may be recorded after it was. The
invariant `Safe` therefore relates row, process and provider. `Fit` says which
combinations of state, lease, open attempt and spent attempts a row may have,
among them that an unused lease was given for an attempt that is left;
`CallsSafe` that a process between `begin_attempt` and its result holds the open
attempt of its action, or an action already settled, and that nothing has
happened at the provider while the call is pending; `EffectsSafe` that a
runnable row without an open attempt has had no effect. Steps that touch no
call and keep every row fit are `Quiet`, and one lemma covers them; beginning
an attempt, the provider's answer and recording it have a lemma each. The
counters of a case (`SpentSafe`) are raised only by an authorisation or a
deferral that found its limit unexhausted in the same transaction.

**`CreditProofs`** proves `CreditBacked`, `CreditedOnce` and that
`ActionExecution` implements `RecoveryContract`. Its invariant `CreditSafe` adds
to these what each observation in flight means: a lookup result or a signed
event that reports a matching payment is held only while the payment exists, and
a link exists only where the request took effect once. A step is one of three
kinds: `Plain` (neither a credit nor a payment), `Credits(a)` (the case of `a`
becomes RECOVERED and `a` is credited, on evidence) or `Outside` (the provider
or the customer acts). The kinds give both the preservation of the invariant and
the step of the contract it maps to. Another section proves `ExecutingIsWorked`:
a step either finishes no row in work and moves no case into EXECUTING (`Works`),
or moves one case, not into EXECUTING, and touches only rows of that case
(`Leaves`), or begins an attempt. The last section proves `UnknownResolvedByFact`:
a step leaves a row, prepares it, records the result of its open attempt or
settles it on evidence (`RowMoves`), and the evidence that a reconciler holds is
still true when it settles the row, because a link that is paid or closed stays
so (`AnswersSafe`).

**`EventDispatchProofs`** proves four properties from one inductive invariant
`IInv == RowsSafe /\ ProcessesTyped`. `RowsSafe` says of every event that its
two rows are a safe pair: they are typed, they agree, a claimed row is leased, and
an absent or waiting row has an attempt left. `RowsAgree` needs both rows to be
written by the same step, whoever writes and whatever it has read before,
`ClaimIsLeased` that a late publication is refused, and `WaitingIsClaimable` the
attempt bound; none of them is inductive alone. Each row transformation of the
code (`ClaimedRow`, `FailedRow`, publication, success, replay, expiry) has a
lemma that it keeps a pair safe; each process step changes the rows of at most one
event (`OneEventWritten`), and the step lemmas combine the two. How often an event
is processed is not bounded, and nothing is proved of it.

**`PolicyGatesProofs`** proves about the pure policy, for every policy and input,
what both checks rest on: `FirstGate` (the answer is that of the first gate that
holds), `ProceedPassesEveryGate` and `ProceedMeans` (PROCEED of a candidate means
that none of the sixteen gates before it held), `StopsStop`, `OnlyCandidate` (a
re-check of one candidate answers for it or for NO_ACTION), and the theorem
`ProceedIsAuthorised`. `DeferralsAreLater` says when a deferral ends: after the
moment of the decision, whichever gate deferred it, or on the day of an active
promise, which may be over. Its hardest gate is the one of incidents, whose
earliest end needs that a set of naturals has a least member (`LeastNat`). The
library has no such theorem without induction; it follows from the well-founded
order of finite sets, of which the intervals `0..x` are some.

**`RecoveryDecisionProofs`** proves what an execution may rely on:
`PaidIsNotCharged`, `HighValueIsApproved`, `OptOutIsRespected`,
`IncidentSuspendsWork` and `TruthIsMonotone`. Only `BeginAttempt` starts an
action; its guard is a second `Evaluate`, and the lemmas above turn PROCEED into
facts of that moment. They need the invariant `Begun`: the outbox keeps a row for
each key, and a running incident has begun, without which a gate that compares
with its start would let work through. `TruthRows` carries `TruthIsMonotone`.

The parts on contacts and incidents prove `OneContactAtATime` and
`PointerIsLinked`. The first is about two actions and no single row forbids it.
`Coordination` says that the intervention of a contact that waits or is executed is ACTIVE
(`Owned`) and that a customer has at most one ACTIVE intervention (`OneActive`):
the decision that authorises a contact has passed the gate
`CUSTOMER_CONTACT_ALREADY_IN_PROGRESS`, and an intervention is closed only after
its action has ended. `Pointed` says that a case which points at an incident
points at one that was observed and is linked to it, through decisions that mark
cases of several incidents at once and through a resolution that writes over
decisions it has not seen. It does not say that the incident still runs, which is
not true (`ResolutionWakes`).

The part on wake times proves `DeferralMovesForward` and the module's `TypeOK`
from one invariant, `Wakeful /\ Reads`: a policy is in force, running incidents end,
every case is a sound row (`Sound`: typed, resting on evidence that has a diagnosis,
with a wake time while it is DEFERRED), what an open resolution has read is a moment
and cases that point at an incident (`Reads`), and a case has at most one action in
flight, which keeps it in READY or EXECUTING (`Working`). The last is what makes
the types hold: the state a result puts a case in is computed from the state the
case is in, and only `Working` says which that is. `EvaluateWakes` shows that a
decision keeps `Wakeful` from any rows its transaction may have written before,
`DeferralsAreLater` gives the wake time, and the step lemmas also prove `Forward`,
of which `DeferralMovesForward` is a consequence. The resolution of its incident
wakes a deferred case at the moment it has read, which is why the property leaves
out the step that takes a case's incident away; and because it may write that
moment into a case that has been decided since, a case that is no longer DEFERRED
may have a wake time.

The part on the contact ceiling proves `ContactCeiling`. The property sums the
contacts of a customer's cases with a recursive fold of the library, and what a
recursion computes is in general beyond these provers. It can be done for a sum
over a finite set, by a smallest counterexample in the order of strict inclusion:
a table of sums over the subsets of a finite set exists (`SumsExist`), any two
agree (`SumsAgree`), hence the sum of a set is any member's share and the sum of
the rest (`TotalTakes`) and sums follow their summands (`TotalStays`). What
remains is about the code: every step but the beginning of an attempt keeps the
contacts of every case, and a new case has none (`ContactsCounted`, through
decisions, evidence, reviews, incidents and results); an attempt to contact has
passed the gate `CONTACT_LIMIT_REACHED` on the sum over all cases of the
customer (`AttemptIsBelow`), under the policy in force, whose limit is at most the
largest.

The part on repeated events proves `RepeatActsOnce`. Its invariant `ActsOnce` adds
that the evidence of every case has been linked: a decision takes evidence only from
an event that was not linked before, so that no second case is ever decided on it,
and a repeated event leaves a case of an episode that had none, hence (by `Owned`)
without actions. `TakenOnce` reduces the preservation to one question per step: for
which case, if any, it takes evidence.

**`PlaybooksProofs`** proves `TypeOK`, `SettledIsNotContacted`,
`PromiseHoldsOutreach`, `PromiseEndsOnce` and `DisputeStays` from the invariant
`Kept` (rows typed; a case has had no more contacts than the policy allows, and
has a wake time while it is DEFERRED; an active promise is due on the day its
reply named; a reply that was not stored has made no promise). Contacts are
counted by the step whose check has read the counter (`SendMovesCase`); wake times
come from `DeferralsAreLater`, also where the gate of a promise defers to a day
that is over. `PromiseHoldsOutreach` needs that a finite non-empty set of promises
has a latest one, which is what the finiteness of `Response` is for.

**`PortfolioIncidentsProofs`** proves `TypeOK` and `ResolvedAfterClearWindows`.
The code counts clear windows in one column and dates the last count in another,
while the property speaks of the last degraded assessment. `Paced` ties them
together: between that assessment and the last count lie as many whole windows as
were counted, or the assessment is so old that its age is `Horizon`. `Punctual`
bounds the age of an outcome that still waits, without which a late one could be
assessed before the window it clears.

**`LedgerTransactionsProofs`** proves `TypeOK`, `ChainIsLinear` and
`AuditFollowsRow`, for any number of concurrent transactions over any cases. The
invariant looks at the ledger as each transaction sees it, with the entries it has not committed: `LedgerSafe` says that the committed ledger is a
chain of the versions of its rows (`CommittedSafe`), that so is every
transaction's view (`ViewSafe`), and that whoever has uncommitted entries of a
merchant holds the merchant's head row (`HeadHeld`). An append extends one view; a
commit makes one view the ledger, and `HeadHeld` says that no other view of that
merchant has entries, so the others still are chains. Neither property is
inductive over the committed rows alone.

Not proved, model-checked only: liveness (`InFlightResolves`, `AwaitingSettles`,
`Dispatched`, `DeferredCaseWakes`, `PromiseSettles`, `IncidentClears`) and the
ENABLED-like `CanReevaluate`, which are outside the prover's reach; and
`MerchantWorkSerializes` and `WebhookIsNoVictim`, checked for two transactions.

## 6. Not modelled

- Parsing, canonical JSON, HMAC, HTTP and SQL text of the gateway and the
  normaliser: pure data; what they refuse is `Poison` in `EventDispatch`, what
  they yield is `Fact` in `RecoveryDecision`.
- The runtime of the agent graph (prompts, token budgets, retries of one call,
  traces): it changes no state of the system and may fall back to the
  deterministic diagnosis at any point, which `AdviceFor` includes.
- `AuditLedger.verify`: no service calls it. It reads entries and head in two
  statements, so a concurrent append can make it report a mismatch.
- The arithmetic of scoring and of expected values: a choice of net values.
- Dashboards, merchant profiles, simulation sessions (`API`), the web console
  and its signed cookie, the evaluation harness: read models, presentation and
  offline measurement; no decision reads them.
- The limit of a reconciliation batch and the order of its rows: one row
  per selection here. In the code an exception of `record_lookup` ends the run
  (`WRK/tasks.py:426`), and the rows are ordered by `updated_at`, so the row that
  raised is the first again; a row that raises for ever (`MCAgedWaitEnds`) keeps
  the rows behind it waiting too.
- Whose claim a publication is recorded for: `ClaimIsLeased` sees one recorded over
  a row without a lease, not one over somebody else's live claim. Whether an event
  processed before its action's provider id is committed leads to a recovery:
  `AwaitingSettles` says only that the wait ends.
- Portfolio maintenance that opens or refreshes incidents while cases are decided,
  and the locks listed under `LedgerTransactions`.

## 7. Plan

1. Proofs: the safety halves of the liveness properties, which the prover can reach
   although the properties themselves are not (what each fair step makes progress
   on, and that no other step takes it back); that quiet hours hold at every
   contact; that `RecoveryDecision` implements `RecoveryContract` too; that
   `MerchantWorkSerializes` holds for any number of transactions, from a rank of
   the locks that every merchant order respects.
2. A second instance of `PortfolioIncidents` with two merchants and a batch limit
   of one: maintenance takes the first merchants by id, so the incident of the
   second may never be assessed.
3. Reconciliation as a batch of rows in one task.
4. Two invoices of one customer in `Playbooks`.
