# Verification of the trading workspace

TLA+ models of the parts of the trading workspace (`src/backend`, a FastAPI and
SQLAlchemy service over PostgreSQL, and `src/frontend`, its React client) in which
processes, requests, crashes and time interfere with each other, the TLC runs that
check them on small instances, and TLAPS proofs that hold for every instance.

Contents: [the system](#1-the-system), [the modules and the
code](#2-the-modules-and-the-code), [what the runs check](#3-what-the-runs-check),
[fairness and timing](#4-fairness-and-timing), [what is
proved](#5-what-is-proved), [findings](#6-findings), [what is left
out](#7-what-is-left-out), [plan](#8-plan).

## 1. The system

The workspace records trades in warrants (leveraged products), watches their
prices against the trader's stops and targets, raises alerts and sends them by
Telegram; it keeps the plans before a trade and what was learnt after it. Everything
durable is in one PostgreSQL database at READ COMMITTED. SQLAlchemy sessions run with
`autoflush=False`, so a service's writes reach the database when it flushes or
commits, and its reads are statements of their own. Paths below are relative to
`src/backend/app`, unless they begin with `docs/` or `src/`.

Processes on one database: the API's request handlers, the background monitoring
task started by the application, the refresh runner with its lanes, and the
commands under `tools/`, of which `monitor-positions-once` runs the same
monitoring and delivery service as the background task. Nothing but the database
orders them: row locks, advisory locks, version columns, unique constraints and the
triggers of migration `20260912_0036_trade_capture_safety.py`. Browsers are one more
kind of process: their requests may be answered late, twice or never.

### Components

| Component | State it keeps | Operations | What makes it correct |
|---|---|---|---|
| Notification delivery (`features/notification/*/durable_delivery.py`, `providers/telegram.py`) | notifications, their delivery attempts | list, prepare, post, complete, recovery of interrupted attempts | an attempt is decided once, one is open at a time, at most three; delivered means sent; a cancelled trade is silent; nothing waits for ever |
| Notification creation (`notification/service/creation.py`) | notifications | create one per alert, channel and destination | every alert is notified, once |
| Price rules (`features/position_monitoring`: application, processor, runtime, cycle) | `monitoring_rule_states`, alerts | list rules, price, evaluate, commit, notify | row and alerts agree; one alert per edge; late prices do not rewind; alerts of a former level go away |
| Risk alerts (`position_monitoring/service/risk*.py`, `alert/service/risk_lifecycle.py`) | configurations, snapshots, rule states, alerts of a revision and basis | configure, evaluate, supersede, replay notifications | an open warning belongs to the revision in force and to its row; each is told |
| Trade capture (`trade_position/service/application.py`) | trades, executions, positions, request keys | first purchase, purchase, sale, correction, replay | positions are the projection of the executions; a request is recorded once; one open trade per warrant |
| Trade cancellation (`trade_position/service/cancellation.py`) | `cancelled_at`, `duplicate_of_trade_id` | preview, cancel | what is cancelled is what was previewed; a cancelled trade is never touched again; a retained duplicate remains |
| Currency evidence (`trade_position/domain/*currency*`, `service/currency_*.py`) | append-only declarations, documents, listings | declare, review, withdraw, resolve | a currency follows from evidence that is in force and not from later executions |
| Trade plan (`features/trade_plan`) | versions, approvals, events | create, amend, submit, approve, reject, delete | one approved version; the events tell its status |
| Post trade (`features/post_trade`) | observations, exit reviews, evidence | observe, draft, save, finalize, refresh, materialize | what becomes evidence is what was inspected |
| Learning (`features/learning`) | import jobs, observations, lessons, journals, links to trades | import, review, link, execute as a trade, write, confirm | accepted once; reviewed as seen; a linked trade stands |
| Refresh scheduler (`market_data/service/refresh*.py`) | leader's advisory lock, lanes, jobs in memory | lead, scan, run lanes, try quotes again after a discovery, stop | one leader; one job per lane; a stop ends all tasks |
| Quotes and their sources (`market_data`) | routes, choices for positions, retained quotes, samples | discover, configure, inspect, choose, retain, sample | a route is what was inspected; quotes move on |
| Provider infrastructure (`providers/shared`, `providers/eodhd/adapter.py`) | budget, tokens, cache, in memory behind asyncio locks | charge, wait, post, retry, synchronise | neither rate nor budget is exceeded |
| Products (`features/product`) | warrants, terms, audits, reviewed evidence | edit, correct identifiers, record evidence | the audit tells the identifier; evidence is about what was seen |
| Market (`features/market`) | underlyings, listings, venues, currencies | edit, verify, delete, import a catalog, permit | an operational underlying has one primary listing; the audit has no gaps |
| Model governance (`features/model`) | hypotheses, proposals, versions, activations | propose, validate, approve, activate | versions are one line |
| Analyses and candidates (`features/analysis`, `features/candidate`) | runs and their events; what a candidate is evaluated from | start, retry, supersede; show, evaluate | events tell the runs; a ready workflow can be evaluated |
| Browser (`src/frontend`) | what a page has read, typed, sent and been told | load, edit, confirm, retry, leave | nothing is written twice or over what was not seen; what is shown is current |
| Provider adapters, workspace, preferences, tools, core, deployment | none that others rely on | | |

### How they interact

1. A request of the trader changes a trade: **trade capture** and
   **cancellation** lock the trade's row (and the warrant's when a trade is
   opened), compute the position and commit. The triggers look again at what
   other transactions may have done.
2. A **monitoring cycle** lists the rules of open positions, asks the price
   sources, and evaluates each rule in a transaction of its own: it reads the
   rule's state, decides, and writes state and alert together. After the cycle
   it creates a **notification** for each new alert, in separate transactions. A
   sweep of the **risk** runner does the same for the warnings of a position, and
   creates notifications of all that are open.
3. The same process then **delivers** what waits: it lists up to 100
   notifications, and for each one opens an attempt (`prepare`), posts to
   Telegram and records the result (`complete`), in two transactions around the
   call.
4. A cancellation resolves the trade's alerts and fails its waiting
   notifications in its own transaction, and is refused while one of them is
   being delivered. Superseded risk configurations invalidate alerts whatever
   is being delivered.
5. The **refresh scheduler** and the **provider infrastructure** feed quotes
   into the database and into step 2; routes are found for warrants that may be
   edited all the while.
6. Before a trade: analyses, candidates, the versions of a model and of a **plan**.
   After it: **exit reviews** become evidence, journals and lessons refer to them,
   and an imported observation is linked to the trades that were made of it.

### What is hard

Two processes between listing and locking; requests that read without a lock and
write later; answers that arrive after somebody else has taken the work over;
crashes between two transactions that belong together; cancellation in the middle
of everything; a retry of a request whose first attempt is not committed yet;
corrections that change the past; locks taken in different orders; midnight. The
hazards are listed in `PROJECT.json` at their lines, with the properties that would
notice each of them going wrong.

## 2. The modules and the code

`PROJECT.json` ("map") gives the lines each definition stands for.

| Module | What it is |
|---|---|
| `AttemptLedger` | abstract: what the outbox promises about a notification's attempts |
| `NotificationDelivery` | the outbox with its deliverers, crashes, time, and the other writers of its tables |
| `RuleMonitoring` | one price rule under monitoring cycles |
| `RiskAlerts` | the risk warnings of one position and the runner's sweep |
| `PositionProjector` | the projection of executions to a position: pure operators |
| `TradeBook` | abstract: trades as if requests came one at a time |
| `TradeCapture` | captures, corrections, retries and cancellations as database sessions |
| `CurrencyResolution`, `CurrencySources` | the resolution of currencies as operators; the sessions that add what it resolves |
| `TradePlans` | the versions of a plan, approvals, amendments, deletion |
| `TradeReview` | observation, exit reviews, materialization, the journal's references |
| `TradeLinks` | links of an observation to trades, execution as a trade |
| `ImportJob` | the bulk import: jobs, files, rows, confirmation |
| `Lessons` | versions, contradictions and reviews of a lesson, with late and repeated commands |
| `ModelGovernance` | hypotheses, proposals, versions and activations of a model |
| `MarketAnalysis`, `CandidateSources` | runs of an analysis; readiness of a candidate against its evaluation |
| `RefreshScheduler` | replicas, lock, lanes, batches, second tries |
| `ProviderGate` | cache, budget, bucket, retries and the provider's counter |
| `RetainedQuotes` | the quotes and samples that are kept |
| `Warrants`, `QuoteRoutes` | a warrant's identity, terms and evidence; the routes and choices of its quotes |
| `Underlyings`, `CurrencyCatalog` | an underlying with listings and venue; catalogs and permitted currencies |
| `TradePage`, `JournalPage` | two pages of the browser against the service |
| `MCNotificationDelivery`, `MCRuleMonitoring`, `MCTradeCapture`, `MCRefreshScheduler`, `MCPositionProjector` | instances for TLC |
| `MCServices` | the instances of all other components, one part at a time |
| `*Proofs` | theorems: section 5 |

Each module has a few definitions that nothing uses, such as `NeverStale` in
front of `Stale`. They are variants of the definition that follows with the bug
one could plausibly make there. "mutants" in `PROJECT.json` pairs each with a
property that fails once it takes the definition's place, so every checked
property is known to be able to fail.

### NotificationDelivery

| Model | Code |
|---|---|
| `alert`, `notification`, `attempts`, `cancelled` | `alerts.status`, `notifications.status`, rows of `notification_delivery_attempts` by number, `trades.cancelled_at` |
| `pc`, `queue`, `call` | the local state of `deliver_pending` and `deliver` in one process |
| `accepted` | what Telegram has put into the chat (not known to the program) |
| `ListPending` | `list_pending`: PENDING, alert not invalidated, trade not cancelled, oldest first, limited |
| `PrepareInvalidated`, `PrepareSettled`, `PrepareBusy`, `PrepareExhausted`, `PrepareAttempt` | the five ways out of `prepare()`, in its order; the recovery of stale attempts is part of the last three |
| `Post` | the adapter's request and answer: delivered, retryable (transport, 5xx, 429), permanent (4xx, unconfirmed 200); only the first says for sure that the chat has the message |
| `CompleteRecorded`, `CompleteDropped` | `complete()`, which drops the answer for an attempt that was taken over |
| `CreateNotification`, `ResolveAlert`, `InvalidateAlerts`, `CancelTrade` | the other writers |
| `Abort` | the process dies, or a database error ends its pass |
| `Tick` | a unit of time; `age` of an attempt in progress stops at `RecoveryTimeout`, where recovery tells nothing more apart |

`prepare()` takes its locks (trade, notification, alert) before it reads what
it decides on, and `complete()` likewise, so each is one step. A notification
stands for its alert, too: the pair (alert, channel, destination) is unique and
the product has one channel and one destination.

### RuleMonitoring

One stop or target rule of one position. `rule` (a threshold and its price
binding: the instrument whose price decides), `quotes` (prices of both
instruments), `position` and `cancelled` are the world that changes while a cycle
runs; `row`, `alerts` and `notified` the rule's state row, its open alerts and
which of them have a notification; `pc` and `job` what a cycle has read and
decided. The trade fixes both instruments and the currency of each, so a binding
is the choice between them; a level may be recorded without one (`NoBinding`) and
is then not evaluated.

| Model | Code |
|---|---|
| `List`, `NoPrice`, `Price` | `cycle.py`: the rules as resolved at the start, skipped without a binding or a price; `Observations` is what `rule_price` may return: a source time, possibly an old one, or, for a warrant, a receipt time |
| `ReadState`, `Refuse`, `Decide` | `evaluate()`: the read without a lock, the state of another threshold or price binding dropped (`Superseded`), the order check, `decide_transition`, and the second read of `put()` |
| `Commit`, `Rollback` | the transaction's end: changed columns only, the alert's insert with its trigger, the unique (position, rule) |
| `Notify` | `_create_notification`, after the cycle, with its trigger |
| `MoveLevel`, `ClosePosition`, `ReopenPosition`, `CancelTrade`, `NewQuote` | what others do meanwhile |
| `Fail` | the process dies or a transaction fails |

### PositionProjector

`Projection(history)` is the loop of `PositionProjector._project` over the
effective executions sorted by `executed_at`, `recorded_at`, id; `Possible`
says that it raises no error. Prices and money are left out: a position is its
open quantity, whether it has begun and whether it has ended.

### TradeCapture

Requests as sessions that hold what they have locked until their transaction
ends. `book` has the executions of each trade in the order of their recording,
and the place in the sequence is the execution's id. `job` has what the session
has read and is going to write; nothing is visible before `Commit` or
`CommitCancel`.

| Model | Code |
|---|---|
| `Begin` | a request for a new trade of a product or for an existing trade, with or without a request id |
| `FindRequest`, `Replay` | `find_request`: the advisory lock on the key, the execution that has it, and the rest of `_replay` |
| `OpenTrade` | `record_first_purchase`: the product's lock, the check for an open trade of it, the new rows |
| `ReadTrade` | `get(..., for_update)`, the checks of purchase, sale or correction, and the projection of the history with the new execution |
| `Flush` | the flush with the triggers `reject_cancelled_trade_fact` and `enforce_single_open_warrant_trade`, which takes the product's lock when the position becomes open |
| `Commit` | |
| `ShowPreview` | `preview()` in a request of its own; the client keeps the state token |
| `BeginCancel`, `LockRow`, `CheckCancel`, `CommitCancel` | `cancel()`: the trades in the order of their ids, token and blockers, the write |
| `Review` | an observation, a journal or a lesson about the trade, which blocks its cancellation |
| `Fail` | any database error, lost connection or crash; or the client drops its preview |

The state token is a digest of everything the preview shows. Executions are
only appended, so the token of the model has the length of the history, the
other open trades of the warrant and whether the trade is blocked.

### Risk alerts and the scheduler

`RiskAlerts`: `setting` is the configuration with its revision, `snapshots` and
`latest` what was evaluated, `edge` the rows of `monitoring_rule_states`,
`warning` the alerts by revision, basis, rule and number, `told` the ones with a
notification.

| Model | Code |
|---|---|
| `Evaluate` | `risk.py: evaluate` and `risk_alerts.py: process`: the fingerprint (`Replayed` when it is known), the state of the rules, the edges, the alerts of a former basis or revision. It locks the position's row and commits once, so it is one step, by hand (`EvaluateByHand`) or in the sweep |
| `Configure`, `Superseded` | a new revision, and what it invalidates |
| `List`, `NothingFound`, `EvaluateInSweep`, `Notify`, `EndOfSweep` | the runner's sweep: list, evaluate, notify what is open and has no notification |
| `Sell`, `Reopen`, `CancelTrade`, `Rebase`, `NewSession`, `Crash` | what others do; a crash between any two steps of the sweep |

`RefreshScheduler`: a replica's `runner` is where `run_refresh_forever` is, its
`session` the hold of the advisory lock as the database sees it (a lost one is not
known before the next probe), `jobs`, `asleep`, `current`, `task` and `newer` the
memory of `refresh.py`. A scan is two steps, between which the lanes work on:
`ReadCatalog`, which is awaited (`found` is what it has read), and `Dispatch`,
which removes and adds jobs accordingly and hands them to idle lanes; or it fails
(`ScanFails`). `Begin`, `NextJob`, `FinishJob`,
`EndOfBatch`, `Woken`, `TryAgain` and `EndOfRetry` are a lane's task;
`SecondTry` the quotes whose route a discovery has just found, as far as no quote
run has begun since. `Interrupt`, `Cancel`, `Joined` are the stop. Jobs are taken
in any order, intervals elapse at any time, and a provider gives any answer.

### Plans, reviews, learning, models, analyses

These services have a transaction per request. What they lock decides what is a
step: a service that locks a row first and commits once is one step, and a
service that reads without a lock has a step for the reads and one for the
commit, which writes the columns that differ from what it has read.

| Module | State | Steps |
|---|---|---|
| `TradePlans` | `plan`, `version`, `approvals`, `events`; `command`: what a request has read | `Lock` and `Amend`, `Transition`, `Approve` of a command; `FindForDeletion` and `Delete`, which locks nothing before it deletes |
| `TradeReview` | `facts` (executions and prices), `observation`, `review`, `evidence`, `journal`; `session`: what a request has read and locked | saves and finalizations read a draft and replace it (`Read`, `Replace`); the materialization takes NOWAIT locks row by row (`Lock`), inspects and writes (`Materialize`, `Record`); corrections and prices change the facts |
| `TradeLinks` | `trade`, `link` (its current version), `receipt`, `referenced`; `work`: locks held | `LockObservation`, `Validate`, `Commit` of links, `Execute` with `CreateTrade` and `CreateLink`, `Sell`, `Cancel`, `Retract` |
| `ImportJob` | `job`, `file`, `row`, `imported`; `request` | uploads with their copies, `FindContent`, `ParseFile`, reviews of rows, confirmation; row locks from flush to commit |
| `Lessons` | `versions`, `signals`, `transitions`; `sent`: commands in the network; `stored`: receipts; `promised`, `editing` | `Send`, `Execute` (with a context and key; late, twice or never), the endpoints without a key, and the edits that are flushed and answered, but not committed |
| `ModelGovernance` | `hypothesis`, `proposal`, `modelVersion`, `activation`; `task` | proposals read and commit in two steps, nothing is locked; unique numbers refuse the second of two approvals |
| `MarketAnalysis` | `run`, `lifecycle` (its events); `analyst` | `Start`, `Finish`, `Supersede` are three commits of one request |
| `CandidateSources` | assignments, references and models of today | what the live workflow shows as ready, against what the evaluation resolves |

### Quotes, products, markets

| Module | State | Steps |
|---|---|---|
| `CurrencyResolution` | none | `Resolve` of every execution: declarations and reviewed sources in force, then the purchases before it |
| `CurrencySources` | executions, declarations, sources: rows that are only added; `desk`: locks | a declaration or an execution locks the trade, a document product and trade, in different orders (`Deadlock`) |
| `ProviderGate` | `usage`, `bucket`, `cached` behind asyncio locks; `caller`; `counter`, the provider's own; `bill`, what was charged for; `posted`, when requests were sent | `Search`, `Charge`, `Acquire` (the sleep is outside of the lock), `Answer`, `Retry`; `AskForUsage` and `SynchronizeUsage` in two steps; other processes; midnight |
| `RetainedQuotes` | the row of a listing, its samples | `Ask` without a transaction, `AnswerNew` or `AnswerCached`, then `Lock` and `Retain` if the identity is still that of the question. An answer is valid (`Valid`) for the same fields, also if it was fetched under an earlier key |
| `Warrants` | `warrant`, `terms`, `audits`, `valuations`; `edit` | optimistic edits (`version_id_col`): `BeginEdit`, commit or refusal; evidence locks the row |
| `QuoteRoutes` | that of `Warrants`, which it extends; `listed`, `mapping`, `selections`; `seeker` | `Inspect` fetches a page without a transaction, `CreateRoute` looks again; `Configure` fetches with the row locked; `Buy`, `Decide`, `Reconcile` bind positions |
| `Underlyings` | `row`: underlying, listings, venue, by column; `told`: audit; `request` | optimistic edits that write the columns they change; deletion of what nobody uses |
| `CurrencyCatalog` | `current`, `releases`, `currency`, `log`; `admin` | `Preview` or `Show`, then `Lock`, and `Import` or `Switch` if the token still fits |

### Pages of the browser

`TradePage`: what the server and other tabs have written is one `log`, and a read
shows a prefix of it. The page's forms know of each other (`tasks`); a request is
answered, refused, or loses its answer before or after it is served (`Serve`,
`Refuse`, `ServeLost`, `NoAnswer`). A booking has a key that is kept over a reload
with its payload. Corrections and stops have none: after a lost answer the page
has to be read and reviewed first.

`JournalPage`: one command at a time, with a key (`Perform`); `attempt` is what
the page knows of it, `call` the request, `lost` the requests nobody waits for.
`Retry` sends the same command with its key. A confirmed attempt is over when a
read shows its result (`Settled`). Other tabs write, reviews are replaced by
later ones, and one that is not ready may be ready again (`SourceChanges`), as its
inputs are compared on every call and nothing is stored. The service refuses a
command for good when the journal or the review has gone past it (`Outdated`), and
for now when the review is not ready. Simplifications: the three texts of a version
are one, a review is only replaced by a new one, forms of other panels only block,
and leaving the page is a reload, a return, or the choice of another version by its
URL (`Leave`).

### MCServices

Components that share no rows with each other are checked in one run. `Init` of
`MCServices` chooses the `part`, which stays; each part is an `INSTANCE` whose
variables are mapped to the slots `v1`, `v2`, ..., and `Next` is that part's `Next`. A
property of the run is a conjunction `part = "..." => Part!Property`, so that
each says one thing about several components. The state space is the sum of the parts', not
their product.

### Abstract specifications

`NotificationDelivery` implements `AttemptLedger` under the mapping
`ledger <- StatusLedger` (the statuses of the attempts), and `TradeCapture`
implements `TradeBook`, with the database variables mapped to themselves and
the sessions hidden: a commit is one request of the book, every other step is
a stutter. Both are checked (`ImplementsLedger`, `ImplementsBook`) and proved.

## 3. What the runs check

| Run | Question | Bounds |
|---|---|---|
| `DeliverySafety` | do status, attempts, chat and cancellation agree in every interleaving, and are the attempts the promised ledger? | one notification, the production limit of 3 attempts, three deliverers that may stall for ever, 2 crashes |
| `DeliveryPermanentFailure` | is a permanent failure the last attempt? **Violated** | two deliverers, 2 attempts, no crash |
| `DeliveryInterrupted` | is an interrupted attempt always recovered? **Violated** | one runner, one crash |
| `MonitoringCycle` | with one cycle at a time, do row and alerts agree, and do alerts of a former level go away? | two thresholds for a warrant, one for its underlying, one level without a binding; three combinations of their prices, two of them in a row; 2 changes of level or position, one crash, cancellation at any moment |
| `MonitoringOverlap` | has a rule one open alert when two cycles overlap? **Violated** | two cycles, two quotes |
| `MonitoringLostNotification` | is every alert notified? **Violated** | one cycle, one crash |
| `CaptureRetry` | do concurrent captures behave as one request at a time, and is no request recorded twice? | two clients, one request id, two trades of one warrant, which may both be open from the start, 3 executions |
| `CaptureReopen` | does a trade open alone, also when a correction reopens it, are cancellations what was previewed, and do requests never wait in a circle? | two clients, two trades, 4 executions, no request id |
| `RefreshLanes` | has a lane one job, do replicas overlap only by a lost session, and is a quote tried again once its route is found? | three scopes of `MCInit`, each with its bounds: one replica with two warrants and a loss; two replicas with one warrant and a loss; one replica with a change of the catalog and a scan that fails |
| `Services` | the questions of the table below, part by part | in `MCServices` |
| `ImportTwice` | is a content imported once? **Violated** | two requests, one content |
| `LessonEditLost` | is what was answered stored? **Violated** | one request |

Why the bounds are enough for the cases of interest:

- **Delivery.** Three attempts are what production allows. Three deliverers let
  one be interrupted, a second take over and a third come after it, all with
  late answers outstanding. Two crashes interrupt two of the three attempts.
- **Monitoring.** The rules and prices give every combination of triggered and
  clear before and after a move of the threshold, or of the binding alone. Two
  quotes let an older one come after a newer one. Two edits move the level there
  and back, or close and reopen the position. Alert ids are
  recycled (an alert that is no longer open is forgotten) and `Fresh` never hands
  out one that somebody still refers to.
- **Capture.** Two trades of one warrant and two clients give every pairwise
  conflict: two first purchases, a purchase and a reopening correction, a
  capture and a cancellation, two cancellations with each other as the
  duplicate. Four executions are needed to reopen: buy, sell all, correct the
  sale, and the other trade's purchase. All executions have quantity 1 and one
  time in these two runs, so the order of times and partial sales are left to
  the projector's part of `Services`. Two clients reach waits in a circle of two
  only; that there is none of more is proved (section 5).
- **Refresh.** Two lanes and two warrants let the discovery lane's second try meet
  the quote lane's next batch; two replicas are the least that overlap. More
  scopes at once would multiply, and the parts of a scope do not influence the others.

The parts of `Services`:

| Part | Instance | What it reaches |
|---|---|---|
| `timely` | two prompt deliverers, 3 attempts, answers within 2 units, recovery after 3, 2 crashes | take-over of an attempt by another process |
| `restart`, `again` | a runner that dies: two notifications of one trade with a batch of one; three attempts | one notification that could starve the other; liveness |
| `projector` | every history of up to three executions and every fourth one, two quantities, two times | a correction of a correction, a sale before its purchase, a purchase after the last sale |
| `import`, `imports` | one request, three files, two contents; two requests, two files | duplicates, files that fail, two confirmations |
| `plan` | two commands, three versions, three events of a version | an amendment against an approval, a deletion against both |
| `lesson`, `edited` | two signals, two versions, two keys, four transitions; edits of a title | commands that come twice, late, or for an older version |
| `governors` | two requests, two proposals, three versions | two approvals on one base |
| `risk`, `risks` | two bases, three sessions; a crash and one revision; two revisions and a policy of two sessions | a change of the basis and back, replay after a crash |
| `gate`, `retried` | two tasks and another process, budget 3; one task, two attempts, budget 4; two days | a charge before and a request after midnight |
| `review`, `links`, `analysis` | two requests each; two versions, two trades, three runs | a correction during an inspection, a sale during a link, a retry during a retry |
| `candidates`, `money` | three missing or overlapping rows; two requests, four rows, a day of two moments | readiness against evaluation; evidence that is withdrawn |
| `product`, `routes` | two requests, two ISINs, four and three versions | an identifier that changes there and back during an inspection |
| `quotes` | two readers, one correction of the identity, to new fields or with the same, slots of three ticks | answers out of order, from a cache that is shared |
| `listing`, `underlying`, `catalog` | two requests on two listings; one of every kind; three catalogs | an edit during a verification; another content of the same version |
| `page`, `stops` | a page with two submits and three writes; one with a stop that other tabs change | answers that are lost before or after the write |
| `journal`, `typing`, `followed` | other tabs that save; texts typed while a request is under way; reviews that follow each other; a review that stops being ready and is ready again | conflicts, retries, reads that come late |

Its properties say one thing of several parts each; the conjuncts are stated and
explained in the modules:

| Property of `Services` | Conjuncts |
|---|---|
| `ExclusiveDelivery`, `NoPostAfterCancellation` | of `timely` |
| `ProjectionIsLedger`, `OnlyTheLedgerCounts` | of the projector: errors; recording order is irrelevant, a correction is a substitution |
| `AppliedOnce` | an accepted row, an executed observation, a booking, a sample; a journal's command once, and none that was refused as outdated |
| `OneInForce` | a plan's approved version, a trade's active link, a position's route, an operational underlying's primary listing |
| `StatusIsTold` | job and files, events and versions of a plan, events and runs, audits of identifiers, listings and catalogs; the status of the job (`JobTellsItsFiles`) for one client only, as each request derives it from what it has read |
| `ContradictionIsNotBypassed` | of a lesson |
| `AppliedAsSeen` | reviews of lessons, evidence of products, routes, forms of a page, journals, minor units |
| `VersionsAreOneLine` | versions of a model; quotes move on |
| `OpenWarningsAgree` | of both parts of the risks |
| `ShownIsCurrent` | of the pages |
| `WithinLimits` | rate and budget |
| `SourceHoldsStill` | a review that becomes evidence, a linked trade, a ready candidate |
| `CurrencyIsEvidenced` | of every execution |
| `PendingSettles`, `WarningIsTold` | liveness: `restart` and `again`, and `risk` |

`CHECK_DEADLOCK FALSE` is set everywhere, because the instances stop when their
bounded counters are used up, and a service without work is no deadlock; that
requests do not wait for each other in a circle is a property (`NoDeadlock`).
Symmetry is used in runs of safety properties only, over processes or clients
that no constant tells apart.

Properties that say most, each explained in the comment before it:
`ImplementsLedger` and `ExclusiveDelivery` (recovery and late answers);
`CancelledTradeIsSilent`, `NoPostAfterCancellation`, `CancelledTradeIsQuiet` and
`CancelledTradeIsFrozen` (a cancellation ends a trade for the outbox, for monitoring
and for captures); `DeliveredLostOnlyToInvalidation` (the only way in which a
delivered notification can lose its status); `OpensAlone`, `RetryIsAnswered`,
`CancelledAsPreviewed` and `DuplicateIsRetained` (the promises of
`docs/trade-capture-safety.md`); `SourceHoldsStill`, `ReviewedAsSeen` and
`RouteIsAsInspected` (what is decided on sight); `InputBookedOnce` and
`RefusedIsNotApplied` (requests whose outcome a page does not know).

## 4. Fairness and timing

Safety is checked of `Spec`, without fairness. Four specifications add some:

- `NotificationDelivery!FairSpec`. The background task of the application
  repeats its pass for ever (`Runners`), so `ListPending` is weakly fair for it,
  not for a command that is run by hand. A process that is not aborted goes on
  with its own pass (the adapter has an HTTP timeout, so `Post` ends). Time
  passes (`Tick`). `Abort` is not fair and is bounded by `MaxCrashes`: a process
  that crashes in every pass settles nothing.
- `RuleMonitoring!FairSpec`. Cycle follows cycle, and a cycle goes on. `Price`
  is *strongly* fair: an assumption on the sources, that a price is to be had
  again and again; `NoPrice` may come in between as often as it likes. It is fair as
  well, since a rule without a binding has no price.
- `RefreshScheduler!Fairness`. The runner's loop probes, scans and joins what it
  has cancelled; a task that is cancelled ends; a lane goes on with its job, as
  providers have timeouts. Nothing is assumed of intervals. That a quote is tried
  again after a discovery (`RouteFoundIsRetried`) therefore says in its premise that
  they do not elapse for ever: while they do, the two lanes may again and again find
  each other's job.
- `MCServices!Fairness`. The runner of `restart` and `again`, and the sweep of
  `risk`, go on, and time passes; the same as in their modules. The two liveness
  properties are stated for the existence of something that waits, which, as only
  finitely much can, is the same as for each.

`TradeCapture` has no liveness property: a client may drop its request at any
moment, and nothing in the code promises that one of several competing requests
is served. The same goes for the other services of requests.

`MaxStall < RecoveryTimeout` says that a live process records the result of an
attempt before another one may take it over. Nothing in the code enforces it
(the defaults, 10 seconds for the HTTP call and 5 minutes for recovery, make it
likely: `timeout_seconds` and `in_progress_timeout`), so `ExclusiveDelivery` and
`NoPostAfterCancellation` are stated for that case, and the other properties of
the outbox are checked without it, with processes that stall for ever
(`MaxStall = RecoveryTimeout`).

## 5. What is proved

All theorems are about `Spec`, for every value of the constants under the named
assumption of the module (`DeliveryAssumption`, `MonitoringAssumption`,
`CaptureAssumption`, `SchedulerAssumption`; of the services `ModelAssumption`,
`RiskAssumption`, `ImportAssumption`, `LessonsAssumption`, `ReviewAssumption`,
`LinksAssumption`, `GateAssumption`, `QuotesAssumption`, `WarrantAssumption`,
`RoutesAssumption`, `UnderlyingsAssumption`, `AnalysisAssumption`, `CatalogAssumption`,
`SourcesAssumption`; of the pages `PageAssumption`, `JournalAssumption`),
which say of what kind the constants are: numbers are numbers, trades are numbered
(locks are taken in that order), keys, trades and products are different things, the
sets that are counted are finite, moments have a first one, a journal has
room for a draft and its final state. TLC evaluates the assumptions of every instance that
it runs, those of the services in `MCServices!PartsAssumption`.

**Outbox** (`NotificationDeliveryProofs`): `TypeInvariant`, `OneOpenAttempt`,
`DeliveredIsTrue`, `DeliveredIsLast`, `CancelledIsSilent`,
`AttemptsAreDecidedOnce`, `DeliveredIsKept`, `Refinement`, and for prompt
processes `DeliveryIsExclusive` and `NothingPostedAfterCancellation`. `TypeOK`
is inductive. The safety invariants are inductive together, once a fact about
the processes is added: an answer `DELIVERED` that a process has not recorded
yet is backed by a message in the chat. `ClosedAttemptsAreFinal` and the
refinement follow step by step from that invariant. Exclusion needs another one:
a prompt process that is busy *owns* its attempt, that is, the attempt is in
progress and no older than the time the process has spent, so it is not stale.

**Trade capture** (`TradeCaptureProofs`): `Invariance`, and from it
`TypeCorrect`, `PositionsAreRight`, `RetriesAreAnswered`, `OneTradeOpens`,
`CancelledIsFrozen`, `CancelledWasPreviewed`, `DuplicatesAreRetained` and
`BookRefinement`. The argument is that of two-phase locking, spelled out: the
inductive invariant `Inv` says that locks are exclusive, that a trade which is
being made is known to one session only, that positions are projections of their
histories, and, for every session, that what it has read under its locks is
*still* true at each later point of its transaction:

- `RequestOK`: the parts of its request fit its place in the transaction, and
  the trades it names exist;
- `KeyIsHeld`: past `find_request` it holds its key and no execution has it;
- `WriteIsValid`: what it is going to write is allowed by the history as it is
  now, and leads to the position it has computed;
- `OpeningIsAlone`: if the write opens the trade, no other one of the product
  is open;
- `CancelIsValid`: a confirmed cancellation holds its rows, still meets every
  condition, and the history is as long as in its token.

None of the properties is inductive without these: each is about the moment of
a commit, and depends on reads several steps earlier. `Inv` has been checked by
TLC on both capture configurations before it was proved.

**No circles** (`TradeCaptureProofs`): `NobodyWaitsInACircle`. Everything
that can be locked has a place in one order: keys, then trades by id, then
products. `HeldInOrder` is inductive on top of `Inv` and says what a session has
locked at each point of its transaction; hence it only waits for what comes
after all it holds. Suppose every session of a set waits for one of the set, and
take what one of them wants: the sessions that want only things beyond it are
fewer, not none, and stuck as well. For a finite set that cannot go on for ever
(the strict subset relation is well-founded), which needs no induction over the
set.

**Price rules** (`RuleMonitoringProofs`): `TypeCorrect` holds for any number of
overlapping cycles. `RowAndAlertsAgree`, `AlertsAreRaisedOnEdges`,
`RowIsNotRewound` and `CancelledIsQuiet` are about one cycle at a time
(`OneCycle`), as the run `MonitoringOverlap` shows that they have to be. The
inductive invariant adds to `AlertMirrorsState` what a cycle relies on between
its steps (`InFlight`): the row it has read is still the row, and what it is
going to write (`Decided`) is the decision about that row, so that the columns
its UPDATE leaves out have the values it wants. A trade cancelled in between has
no open alert, and an insert for it is rejected by the trigger.

**Refresh scheduler** (`RefreshSchedulerProofs`): `TypeCorrect`, `LanesWorkAlone`,
`LeadersOverlapOnlyByLoss`, `RemovedJobsStayRemoved`, for any number of replicas,
lanes and instruments. The last one says that a job that was removed comes back only
with a scan that has read its instrument, and as a new one. `OneJobPerLane` is inductive with the fact that an idle task
has no job. For the leaders, the invariant follows the session lock: a runner that is
past `waiting` holds the lock or has lost it without knowing; two sessions never
hold it; a runner that gives its place up has joined all its tasks.

**Governance** (`LearningProofs`, its first part): one theorem for each of three services.

- `ModelVersionsAreOneLine`. Nothing is locked, so the invariant is about what
  *stays*: a proposal keeps its base, a version its proposal and its existence
  (`ModelRows`), which makes what a request has read of them true at its commit
  (`TaskHolds`); what may change between is refused by the unique numbers.
- `PlanTellsStatus`. Commands hold the lock from their reads to their commit, so
  what they have read is the row (`PlanLock`); the events lead to the status, and
  approvals are those of approved or superseded versions (`PlanHistory`). The
  deletion, which locks nothing, needs no fact.
- `OpenWarningsAreActive`. `OpenWarningsAgree` is nearly inductive, with the types
  of what is evaluated; what makes it so is that each evaluation closes the
  warnings of a former basis or revision in the same transaction.

**Learning** (`LearningProofs`): six theorems, about four services and a page.

- `ImportAcceptsOnce`. A request that is about to discard a row has its lock, so
  that nobody accepts it meanwhile (`DiscardHolds`); the rest is in the columns
  that a commit writes.
- `JobTellsWhatItsFilesNeed`, for one request at a time (`OneClient`; with two, a
  confirmation completes a job to which the other has just added a file that failed).
  The status of a job is written from what a request has read of
  its files, so the invariant says of each place in a request what has been read
  (`RequestFits`): an upload has found failed files, a review has one waiting file and
  its row, a confirmation all of them, and a flushed request the summary of what the
  files will be. A row belongs to one file (`RowsOwned`), so that the rows of a
  request are those of its job.
- `LessonIsReviewedAsSeen`. An open signal is the only one, contradicts the
  current version, and keeps the lesson in review (`SignalsFit`); transitions form
  a chain to the state and have a key at most once (`TransitionsFit`), so a command
  that comes twice, or late, is answered from its receipt or refused.
- `MaterializedSourceHolds`. A request that is past its checks holds the locks
  of what it has inspected (`Holds`), so that it is still so (`StillSo`), although
  exit reviews are written without any lock.
- `LinkedOnce`. Two-phase locking again: a row is locked by one request
  (`LinkLocks`), what each has locked at its place (`Locked`), and what it has
  found there is so until it commits (`FoundIsSo`).
- `JournalPageIsCurrent`, for the journal's page with other tabs and lost answers:
  `RefusedIsNotApplied`, `FoundAsSeen`, `TypedIsKept` and `ResultIsShown`. The rows only
  grow: a version that is read once is followed by `Later` ones, and what is final stays.
  A command that is sent, waits at the service, or is lost *fits* the journal that was seen
  when it was made (`Fit`, `SentInv`), has a key of its own, and its receipt tells what it
  found (`AppliedInv`); a command that was refused as outdated can never become applicable
  again, as the revision of the draft, the latest version or the review that it names has
  passed (`RefusedInv`). Nothing of the kind holds for one that was refused because its
  review was not ready, and nothing is claimed of it (section 6). So a page that is told of a result
  shows it once a read that was asked later has come back (`SeenInv`, `ShowInv`), and what
  the editor holds is about the version on the screen (`HandInv`, `EditorInv`).

**Markets** (`MarketProofs`): one theorem for each of eight services, one about a page, and a lemma on types.

- `CallsStayWithinLimits`. For the rate, the invariant strengthens the property by the
  tokens that are left: the requests of *every* interval that ends now and the tokens of
  the bucket are together at most the burst and what the interval has refilled. For the
  budget, it adds the tasks that have been charged and not yet posted: what the provider
  counts today and what waiting tasks will still be counted is at most what was charged,
  carried over midnight, or foreign; no clock is ahead of the present.
- `ReadyCandidateIsEvaluable` needs the types only: the workflow and the resolver are
  two functions of the same rows, and the proof goes through the places where they ask
  differently.
- `RetainedQuotesMoveOn`. One reader holds the row at a time, the key of the identity it
  has read is not newer than the present one, and what is kept is not of a newer one than
  what it is going to write (`Holding`); the fields that an answer is compared with play
  no part.
- `WarrantIsAsReviewed`. The audit is a line: each entry begins with the identifier the
  one before ended with, at a version that is not before (`AuditLine`). A request
  whose version is still the present one has read the present identifier (`Fits`), and one
  that records evidence holds the row, the terms and the number of revisions that it
  reviewed (`Reviewed`).
- `RoutesAreKept`, on top of the invariant about warrants, whose steps are steps
  of this module. A route stands with the identifier the product had at the version
  the route was born with, which is a statement about the audit, not about the row
  (`IsinAt`); what a seeker has inspected remains so in that sense (`Searches`).
- `OperationalUnderlyingHasPrimary`. Requests lock nothing, and what they have read
  may have changed. What remains is that a row of the version they have read *is* as
  they have read it (`Agrees`). The listings were read in one statement, so that at
  most one of them is primary (`SeenTogether`); a request that would leave the underlying
  without a primary listing writes the row it takes this from, and the version
  refuses that unless it is as it was read.
- `EventsTellAnalysis`. Each event is told by its run and each run by its events, and
  what a request does next to a run (`RequestTold`) is done by it alone.
- `AuditTellsTheCatalog`. What a request has read it holds with the advisory lock
  (`Reads`); the catalog in force after some entries of the audit is that of the last
  import among them (`HasLatest`), so that an entry changes it only for later ones.
- The sessions that add executions, confirmations and sources of a currency are proved
  to keep their types (`MoneyInv`: rows are numbered without gaps, each replaces an
  earlier one, and a confirmation is of an execution that exists). What the resolution
  makes of them is an induction over data, and stays with TLC.
- `TradePageIsCurrent`, for the page of a trade with lost answers, reloads and other tabs:
  `InputBookedOnce`, `ShownIsCurrent`, `DoubtBlocksWrites` and `TypedIsKept`. All that was
  asked of the server for one input has one key (`KeyInv`), over every request that is under
  way, lost, or in the log (`Asked`), and the server books a key once. One form at a time
  writes, and none while the outcome of a correction is unknown (`LockInv`); a read under
  way was asked after all that the page was told (`ReadInv`), so that what it brings is not
  older.

**The parts of `Services`** (`PartsProofs`, and `ServicesProofs` which extends it): the
theorems above leave the constants open. For each part but the projector's and the two
that are about liveness, three lemmas show that it is what they are about: its initial states and
steps are those of the instance that is proved (`...IsProved`), its constants are as
assumed (`...Meets`), and so it keeps the invariant and what follows from it, whatever
other parts there are (`...Holds`). All invariants and action properties of the run are
theorems then, but the three about data below:

| Theorem | Property of the run |
|---|---|
| `PartDeliveryIsExclusive`, `PartPostsNothingAfterCancellation` | `ExclusiveDelivery`, `NoPostAfterCancellation` |
| `PartContradictionIsNotBypassed` | `ContradictionIsNotBypassed` |
| `PartsSourceHoldsStill`, `PartsVersionsAreOneLine` | `SourceHoldsStill`, `VersionsAreOneLine` |
| `PartsStayWithinLimits`, `PartsHaveOneInForce` | `WithinLimits`, `OneInForce` |
| `PartsWarningsAgree`, `PartsTellStatus` | `OpenWarningsAgree`, `StatusIsTold` |
| `PartsAppliedOnce`, `PartsAppliedAsSeen` | `AppliedOnce`, `AppliedAsSeen` |
| `PartsShowWhatIsCurrent` | `ShownIsCurrent` |
| `PartsAreOfTheirTypes` | `TypeOK` |

These have the bounds of the run; that the same holds for other constants is what the
theorems about the modules say. The parts are divided between the two modules for the length of
the proofs only.

The first attempt at `PartsAppliedOnce` failed for a good reason: `AppliedOnce` looked at
the part `import` through the instance of the part `imports`, which has two files, so that
the third file of `import` was not looked at. The property now names the instance of each part,
and the run checks it.

**Only model-checked:**

- liveness under fairness (`PendingSettles`, `WarningIsTold`,
  `SupersededAlertCloses`, `LostLeaderStops`, `RouteFoundIsRetried`), which the
  prover does not do;
- the meaning of the projection (`ProjectionIsLedger`, `OnlyTheLedgerCounts`) and of
  the resolution of currencies (`CurrencyIsEvidenced`): what a recursive function
  computes for every history is an induction over data. Of the projection the
  proofs about trade capture use only what it makes of no execution and of a
  single purchase (the initial states), and that a possible position is a number.

## 6. Findings

Each is a run whose property TLC finds violated; the property states a sentence
of the repository's documents. The first four are of
`docs/features/POSITION_MONITORING_ALERT_NOTIFICATION.md`.

1. **A permanent failure may be tried again** (`DeliveryPermanentFailure`).
   `prepare()` ends early for a delivered notification, not for one that
   another process has failed for good after this one had listed it. It opens
   a further attempt and the notification is pending again. (Line 75.)
2. **An interrupted attempt may stay in progress for ever**
   (`DeliveryInterrupted`). Recovery is part of `prepare()`, which runs for
   listed notifications only; the listing leaves out invalidated alerts. The
   trade of such a notification cannot be cancelled, as the preview takes it
   for being delivered. (Line 65.)
3. **Overlapping cycles raise two alerts** (`MonitoringOverlap`). The rule's row
   is read without a lock, and both cycles see it clear. With one cycle at a time
   `AlertMirrorsState` excludes this, wherever the cycle dies. (Line 46.)
4. **The notification of a price alert may be lost** (`MonitoringLostNotification`).
   It is created after the cycle from what the process remembers; after a crash
   in between, the next cycle sees the rule triggered and creates none. Risk
   alerts are replayed, price alerts are not. (Line 114.)
5. **A content may be imported twice** (`ImportTwice`). The copy is looked for in one
   statement and the file inserted in a later one, without lock or constraint.
   (`docs/features/EXTERNAL_HISTORICAL_OBSERVATIONS.md:12`.)
6. **An edited lesson is answered and not stored** (`LessonEditLost`). Title, tags
   and decided suggestions are flushed, and nobody commits the session.
   (`docs/implementation/FT012_LESSON_REVIEW_DOR.md:42`.)

Other disagreements and weak spots the models have, and no run of its own shows:

- *Exit reviews:* a save that has read a draft writes the whole row after another
  request has finalized it: the review is a draft again (`Replace`;
  `docs/implementation/SPRINT_11_FT011_BACKEND_ACCEPTANCE_MATRIX.md:48` says that a
  finalized review is not editable).
- *Risk:* a basis that changes there and back, with the same inputs, is only
  replayed (`docs/implementation/POSITION_RISK_SIGNALS.md:155` and `157`); the row of
  an invalidated alert stays triggered; an evaluation of the sweep whose time is older than
  that of one by hand never becomes the latest.
- *Locks:* a document and an execution lock product and trade in different
  orders; the database ends one of them (`Deadlock` of `CurrencySources`).
- *Trade page:* a payload that is changed there and back has lost its first key; a
  new sale that is identical to an unacknowledged one is only replayed.
- *Journal page:* text that is typed while the outcome of a finalization is unknown
  is dropped once it is read
  (`docs/implementation/UI_JOURNAL_CONSOLIDATION.md`, "Lokale Eingaben, Receipt und Readback").
  A retry that is refused because the review is not ready ends the attempt
  (`useTradeJournal.ts:389`), but leaves no receipt: when the inputs of the review have
  changed back, a first copy of the command that arrives late is still applied.
- *Price rules:* a level that was recorded without a price binding is not evaluated
  (`RULE_PRICE_BASIS_UNCONFIRMED`), and the open alert of the level before it stays open.
- *Underlyings:* changes of a listing do not reset `VERIFIED`, an underlying that was
  created as a draft does not become complete with its first primary listing
  (`ADR-S1-013`); the audit of a listing that was added while its underlying is
  deleted is lost.
- *Links:* an execution as a trade that is repeated after its link was corrected is
  answered with the former trade.
- *Models, analyses, candidates:* of concurrent activations the later time wins,
  whichever commits last; a run that a crash has interrupted stays `RUNNING`;
  overlapping assignments are excluded by a check without a constraint, and
  leave a candidate that cannot be evaluated.
- *Routes:* after a correction of an identifier the former route stays active until
  it is reconciled.

## 7. What is left out

Within the modelled parts: amounts of money, the text of messages, journals and
lessons beyond identity, layout, counters in results, logging. The delivery
blocker of a cancellation is in `NotificationDelivery` and not in `TradeCapture`; its
effect on monitoring is in `RuleMonitoring`. Other tables that block a
cancellation are one set, `reviewed`. A refused request is a step to `idle`, whatever
its error.

Not modelled, and why:

- *provider adapters, importers, parsers*: I/O and formats;
- *scores, phases, valuation, analytics, performance*: decimal formulas and read
  models without state of their own;
- *operational workspace, preferences, administration*: one transaction per request on
  rows that nobody shares, or reads;
- *most of the frontend*: forms without unknown outcomes, layout, queries; the two
  pages that keep more state than their answers are modelled;
- *core, database, application lifespan, tools, deployment*: wiring. Stopping the
  application is a crash of its tasks (`Abort`, `Fail`, `Crash`).

The models stand for about 14,000 of 89,000 lines. The rest is code whose
state is that of one request: to model it would be to write it again.

## 8. Plan

Done: the outbox, price rules and risk alerts, trade capture with cancellation,
the scheduler and the provider's gate, the services before and after a trade,
quotes and products, two pages of the browser; proofs about all of them, except what the
resolution of currencies computes.

Next: the composition of `RuleMonitoring` and `NotificationDelivery`, "a cancelled trade
is silent" as one property from the price to the chat; three clients in `CaptureReopen`
without cancellation.
