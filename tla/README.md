# Supply-chain digital twin: specifications and proofs

TLA+ modules kept beside the SupplyTwin code (`apps/api`, `apps/ai-service`,
`apps/web`), the TLC configurations that check them on small instances, and
theorems checked by TLAPS. Paths below are relative to the repository root;
`api/` abbreviates `apps/api/src/`, `web/` `apps/web/app/`.

## 1. The system

| Component | State it keeps | Operations | Made correct by | Module |
|---|---|---|---|---|
| **Alert lifecycle** (`api/internal/*-callback.controller.ts`, `api/action/`, `api/notification/alert-notifier.service.ts`) | `disruption_predictions`, `alerts`, `recommendations`, `auto_trigger_rules` | prediction and recommendation callbacks, owner decision, rule creation, escalation cron | consent before any AI output; escalation instead of silent expiry; automatic acceptance only by opt-in; decisions recorded and visible; everything audited | `AlertLifecycle` |
| **Audit log** (`api/audit/`) | `audit_log_entries`, append-only | `record`, `list` | every entry is about something that happened, every write gets its entry | `AlertLifecycle`, `TenantOnboarding` |
| **Digital twin** (`api/twin/`, `web/twin/`) | Redis key `scdt:twin:<tenant>`, 30 s TTL | `getSnapshot`, `refreshAndNotify` | a write is visible once it has been announced | `TwinCache` |
| **Notification** (`api/notification/`) | in-process subject, no storage | `publish`, `streamFor` (SSE) | a connected page hears of every change | `TwinCache`, `OwnerPages` |
| **Ingestion** (`api/ingestion/`) | suppliers, inventory, orders, data sources; BullMQ queue | POST supplier / item, CSV upload, CSV job, freshness cron | each row once, a source tells the truth about its sync, stale sources flagged | `CsvIngestion` |
| **Identity and onboarding** (`api/identity/`, `web/onboarding/`) | tenants, users, sessions; the wizard in each tab | onboard, consent, demo login, logout; three steps | a business that is active is whole; every tenant is somebody's; the wizard never locks up | `TenantOnboarding` |
| **Sweep** (`api/internal/sweep-candidates.service.ts`, `apps/ai-service/app/`) | none of its own | list candidates, run the agents, call back | each supplier is warned about once, every warning gets a plan, candidates are warned in the end | `SweepPipeline` |
| **Owner pages** (`web/alerts/`, `web/settings/auto-trigger-rules/`) | React state, requests under way | inbox, alert detail, automatic actions | shows what is stored and nothing else, offers what the server takes | `OwnerPages` |

**How they interact.** The sweep asks the API for candidates, runs the agents
and posts a prediction, then a recommendation, back to the API
(`POST /internal/...`). The API stores, audits, notifies over SSE; owners
decide through `POST /alerts/:id/decision`; two crons (escalation, freshness)
run every five minutes across all tenants. Every write of ingestion calls
`refreshAndNotify`. All database access goes through
`PrismaService.withTenantContext`, and **every such call is a transaction of
its own**.

**What is hard.** A handler is a sequence of transactions, with awaits between
them. Hence: other requests and jobs run between a read and the write that
relies on it; a request that dies leaves what it has committed; updates are by
id, so they overwrite; nothing is retried, except that BullMQ delivers a job
whose worker stalled once more; events are delivered at most once; a Redis
entry can be stored after a newer one; a caller gives up after ten seconds on a
callback that goes on; responses reach a page in any order. The complete list,
at its lines and with the properties that answer each, is `hazards` in
`PROJECT.json`.

## 2. The modules

| Module | What it is |
|---|---|
| `OwnerView` | abstract: what the documents promise a business of each disruption (attention, plan) |
| `AlertLifecycle` | the alert lifecycle, one action per transaction; implements `OwnerView` but for one named race |
| `OwnerPages` | the pages of the owner over a server made of `OwnerView` (composed by INSTANCE) and that race |
| `TwinCache` | the cached snapshot, its writers and readers, the /twin page |
| `CsvIngestion` | uploads, the job queue and its workers, entries by hand, the freshness cron |
| `SweepPipeline` | the passes of the AI service over the candidates the API lists; implements `OwnerView` |
| `TenantOnboarding` | the wizard in its tabs, the routes it calls, the session they share |
| `MCAlertLifecycle`, `MCCsvIngestion`, `MCSweepPipeline` | values of constants for TLC; the others need none |
| `*Proofs` | the theorems about the module of that name |

The modules meet where the components do. In `OwnerView` a handled alert stays
handled, as data-model.md:184-187 has it. The code does not keep that: an
escalation run that found an alert due can escalate it over a decision made in
between. That step is named (`Overtakes`), `AlertLifecycle` is proved to take no
other step outside `OwnerView` (`ViewUnlessOvertaken`), and `HandledIsTerminal`
shows it happen. `OwnerPages` has it among the steps of its server
(`EscalateHandled`), beside those of `OwnerView`. `SweepPipeline` is proved to
implement `OwnerView` as it is: the coarse callbacks of that module bring about
nothing the owner could not be shown. A callback is one step of `SweepPipeline`
with the outcomes that the sequence of transactions in `AlertLifecycle` has when
it is cut off. `AuditAndRefresh`,
the end of an ingestion job, is where a writer of `TwinCache` starts.

Definitions whose comment begins with *Broken* are faulty variants of the next
definition: put in its place, each makes a stated property fail, which shows
that the property depends on that code. They are used nowhere else.

### AlertLifecycle

An alert is 1:1 with its prediction and a recommendation 1:1 with its alert
(unique indexes), so all three tables are functions of the prediction callback
that creates the rows. `predCall`, `recCall`, `decide` and `run` are the
program counters and local variables of the handlers:

| Handler | Actions, in order |
|---|---|
| `PredictionsCallbackController.create` | `ReceivePrediction` (48-hour floor), `CheckPredictionConsent`, `CreatePrediction`, `AuditPrediction`, `CreateFromPrediction`, `AuditAlert`, `NotifyCreated`, `PublishCreated` |
| `RecommendationsCallbackController.create` | `ReceiveRecommendation` (consent), `CreateRecommendation` (unique index), `AuditRecommendation`, `FindMatchingRule`, `AutoTrigger`, `AuditAutoTrigger` |
| `AlertDecisionController.decide` | `FindRecommendation` (404), `RecordDecision`, `AuditDecision`, `SetAlertStatus` |
| `AlertEscalationService.runOnce` | `FindDue`, then per alert `Escalate`, `NotifyEscalated`, `PublishEscalated` |
| others | `GrantConsent`, `CreateRule`, `Tick` (the clock), `Die` (a request or run ends where it is) |

Abstractions. Time is in ticks; only the floor (`MinLead`) and the escalation
window (`Window`) compare it. A request's body is held in its row or its
program counter. Confidence is a percentage. An audit entry keeps action,
entity, actor and decision. Rows only read (severity, title, summary, plan
steps, sourcing candidates) are left out, as are reads whose result cannot
change. Row-level security is the guard `r.tenant = TenantOf[p]`. The conditions
of a rule are its scope and `min_confidence`, which is all the evaluator reads;
a `max_order_value` is stored and never looked at (section 5). `overtaken` is
history: the alerts that a run escalated after a decision had handled them. `Die` stands
for a time-out, a lost connection, a rejected foreign key or the end of the
process; a foreign key that turns the callback into a 422 ends the request in
the same state as `Die` does.

### TwinCache

One tenant (keys of tenants are disjoint). A table is the number of writes
committed to it, a snapshot one number per query of `computeSnapshot`; each
query is a step, because the transaction is READ COMMITTED. `writer` follows
commit, DEL, queries, SET, publish; `fetch` follows GET, queries, SET,
response; `Expire` is the TTL. The page asks when it mounts and at every
`twin.updated`, and does not ask when its EventSource (re)connects. The
field `late` of an entry is history: it was out of date when stored. So is
`heard` of a writer: the page was connected when its write was announced; and
`raced`: a snapshot was stored when it was already out of date, or shown after a
newer one.

### CsvIngestion

| Code | Actions |
|---|---|
| `CsvUploadController.upload` | `CreateSource` (the data source is committed), `Enqueue`, or `UploadDies` in between |
| `CsvIngestionQueue.process` | `Claim`, `Lookup` and `Ingest` (the two halves of one transaction: what its queries find, what it commits), `AuditAndRefresh`; `Throw` at any point |
| BullMQ, from how it is configured | `Stall` (a lock runs out: delivered once more, failed the second time), `Crash` of a worker's process |
| `InventoryController`, `SupplierController` | `PostItem`, `PostSupplier` |
| `FreshnessCheckerService.runOnce` | `ReadOutdated` and `FlagStale`, its read and its update, over the ages that `Tick` advances |

`Lookup` is apart from `Ingest` because the transaction is READ COMMITTED: what
it did not find may exist when it inserts. `Finish` moves a job only for the
worker that holds its lock, so a stalled worker that goes on commits its rows a
second time without ending the job. A file is its kind and its set of rows;
columns other than names and skus are left out. A row of an order file whose
supplier or item is not there is skipped, and the file counts as synced all the
same: `ready` is history, the rows that could be ordered when the file was
uploaded, and `SyncedIsIngested` promises those and no others.

### SweepPipeline

| Code | Actions |
|---|---|
| `SweepCandidatesService.listCandidates` | the operators `Found` (one first supplier of each tenant) and `Candidate`, evaluated in `Fetch` |
| `run_sweep`, `run_for_candidate` | `Fetch`, `Predict` (48-hour floor), `PostPrediction` or `Refused` (no consent), `PostPlan`, `EndPass` |
| `except` around a candidate, the callers' time-out | `ModelFails`; `GiveUp`, with every point at which the callback may have stopped; `LatePrediction` when it had not, which may itself die between prediction and alert |
| `main.py` | the loop from `EndPass` back to `Fetch`; `Crash` |
| `seed_disruption.py` | `Seed`, and the same steps from then on |
| `SourcingCandidatesService`, `SourcingRecommendationAgent` | `Backups`, `Recommend` (from which pool the alternative comes, not which supplier it is) |
| owners | `SetKind` (a supplier is entered or changed), `SetStock`, `Consent` |

`listed` of a prediction is history: how many predictions there were when the
candidates of its pass were read. Predictions are numbered in the order of
their inserts, and `Slot` is the set of numbers that `ViewSpec` looks at. Names
are not unique: suppliers of one `Rank` share theirs, and which of them the
query finds first is left open. The list of candidates is read in one step (the
code takes tenant by tenant; the tenants are disjoint).

### TenantOnboarding

| Code | Actions |
|---|---|
| `TenantService.onboard` and the session | `CreateTenant`, `CreateOwner`, `AuditOnboarded`, `SignIn` |
| `TenantService.grantAiConsent` | `GrantConsent`, `AuditConsent`; `RefuseConsent` (401) |
| `onboarding/page.tsx` | `SubmitBusiness`, `AddStock`, `Continue`, `SubmitConsent`, `NotRightNow` |
| what interferes | `CallFails` at any transaction or on the way back, `Reload`, `DemoLogin`, `SessionEnds` |

The session is one variable because it is a cookie: a request takes the tenant
from whatever tab signed in last. A tab is loaded again only while none of its
requests is under way.

### OwnerPages

| Code | Actions |
|---|---|
| `useEffect`, `refresh`, `load` of the three pages | `Open`, `Answer`, `Deliver`, `FailGet` |
| `submitDecision`, `handleCreate` | `Submit`, `Serve`, `Confirm` (refetch), `FailPost` |
| EventSource of the inbox | `Announce`: every inbox refetches, or misses the event |
| the rest of the API | `Warn`, `Escalate`, `Quietly`, which are the actions of `OwnerView`; `EscalateHandled`, the race above; `ServeLeft`, a rule made by a page that was left or by another session |

`gets` holds the requests of a page oldest first, so that a response that
overtakes another is one taken out of order. A tab may be left at any time, also
with a POST under way: the page hears no more of it, and `Quietly` or `ServeLeft`
is what becomes of it. The session's GET of the rules page is part of `Open`.
`clean` is history: nothing this page depends on was missed, lost or overtaken.

## 3. The runs

`tlc -config <run>.cfg <module>`, with the module named below. Deadlock
checking is off everywhere: requests are finitely many, and a system that has
served them all is right to stop.

| Run | Module | Instance | Shows |
|---|---|---|---|
| `AlertDecisions` | `MCAlertLifecycle` | 2 tenants, 1 alert, 2 deciders, 1 run, 1 rule; 3.0 M states | nothing dies: consent holds across tenants, the log catches up, a decided alert is handled as decided unless one of three races was lost, escalation happens near the impact and, with one run at a time, once |
| `AlertFailures` | `MCAlertLifecycle` | 2 recommendation callbacks, 1 decider, 2 overlapping runs, 2 deaths; 654 k, temporal | the log is truthful, nothing recorded is taken back, handled alerts are audited, what was never announced is a death, `OwnerView` is implemented but for `Overtakes`, and no alert stays untouched |
| `TwinReads` | `TwinCache` | 1 write, 3 GETs, 2 tables, 1 failure; 488 k, temporal | a write that has invalidated the cache is visible to every GET unless the entry was overtaken while computed; the TTL removes every stale entry in the end; the page shows what it heard of, and follows the cache |
| `Ingestion` | `MCCsvIngestion` | 4 files (two with the same supplier, items, orders), 2 workers, 2 faults; 1.1 M | an order is created once per delivery, twice at most; what the sync mark says of the rows, kind by kind; files multiply no supplier beyond the workers; a source that never synced has a reason |
| `Sweep` | `MCSweepPipeline` | 2 tenants, 3 suppliers, 2 services, 1 script, 1 failure, 1 edit; 583 k, temporal | no second warning without an overlap; no alert without a plan without a failure; candidates above the floor are warned; `OwnerView` is implemented |
| `Onboarding` | `TenantOnboarding` | 2 tabs, 2 failures, 1 reload; 298 k | every tenant is a tab, a failure or a reload; an active one is whole; a consent that is not in the log is a failure; a button is locked just as long as its request lasts |
| `Pages` | `OwnerPages` | 1 alert, 1 tab, 3 GETs, 2 rules, 2 failures; 130 k | pages never lead the server, show what was confirmed, offer what is accepted, and the inbox is current |

Violation runs, each with a finding in `PROJECT.json`:

| Run | What the documents say | What the code does |
|---|---|---|
| `DocDecisionStatus` | the alert's status reflects the decision | two deciders interleave: status of one, decision of the other |
| `DocHumanDecision` | AI actions remain overridable by a human | the rule overwrites a decision made after the plan appeared |
| `DocHandledIsTerminal` | acted on and dismissed have no way on; only a new or acknowledged alert is escalated | a run escalates by id what it found due earlier, over the decision made in between |
| `DocTwinInvalidation` | the cache is invalidated by every write rather than by TTL alone | an older snapshot is stored after the refresh |
| `DocPlanForEveryAlert` | a contingency plan is presented alongside each alert | a plan that failed, or whose prediction was answered too late, is never made up for: the open prediction keeps every later pass away |

**Bounds and why they are enough.**

* *Alerts.* The properties relate rows of one alert (and rules of its tenant),
  so one alert with every handler that can touch it shows their races; the
  second tenant of `AlertDecisions` is there to own a rule that must not match.
  Two deciders, two recommendation callbacks and two runs are the smallest
  numbers at which requests of a kind race with themselves. The clock ends at
  `Horizon`, with impacts inside it (guard of `ReceivePrediction`), far enough
  for an alert to be received, become due, and pass. `MaxFailures` allows a
  death at any point of any request. There is one confidence, at which the rule
  matches; one below it only removes steps, and the theorems cover all.
* *Twin.* A write races with reads; a second write would be, towards the
  first, one more request that queries and SETs. A writer commits once and
  `Fetch` has one request per announcement to spare (guard `Spare`).
* *Ingestion.* Two files that create the same supplier are what it takes to
  create it twice, orders need the items and the supplier before them, two
  workers are needed for a stalled worker to go on beside the next one, and two
  faults are a stall and whatever else goes wrong. `MaxPosts` is 1: a supplier
  entered by hand before, between or after. The state constraint `MCLateTick`
  lets a source age only once all files are uploaded and delivered and one worker
  at most is at a job (which can still be the second delivery of a synced
  file); before that, its age makes no difference to any action but the
  freshness checker's.
* *Sweep.* One tenant has a primary supplier above the floor, and one of the
  same name at the floor that its owner may enter later, as a primary or a
  backup; the other tenant has a primary supplier exactly at the floor and an
  entry in its sector's directory. `Slot` is the first two predictions: a warning
  and the one that repeats it. Two services overlap; the script warns
  regardless. `Edited` names what owners change (the kind of `s2`, the stock and
  consent of `t1`), `MaxEdits` and `MaxFailures` are 1: a time-out, a crash or an
  exception at every point of every pass.
* *Onboarding.* Two tabs are the smallest number at which one's session is
  used by the other; two failures can hit both creations, one reload starts
  a wizard over.
* *Pages.* Tabs do not influence each other but through the server, and
  `Quietly` does there whatever another tab could; three GETs allow one to be
  overtaken while another is sent; two rules let a page see fewer than it made.

**Fairness and why.** Alerts and twin: weak fairness of every step of a request
that has started (the event loop runs its continuations), of the clock, of the
cron (a step of an idle run is `FindDue`, every five minutes), of key expiry and
of the browser's reconnection. Sweep: weak fairness of the steps of each
process, whose model calls and callbacks all have time-outs and whose loop is
restarted by the platform; none of a callback nobody waits for any more.
No fairness on requests arriving, rules created, decisions taken, edits or
failures; none at all for ingestion, onboarding and the pages, whose properties
are safety.

## 4. The proofs

Each theorem holds for every value of the constants that satisfies the module's
assumption (`LifecycleAssumption`, `TwinAssumption`, `IngestionAssumption`,
`SweepAssumption`, `OnboardingAssumption`, `PagesAssumption`: numbers are
natural, `NULL` is none of the ids, functions have their domains) - any number
of tenants, requests, workers, tabs, rows and failures. Each proof has the same
plan: an inductive invariant, one lemma per action that keeps it, and one step
from it to each property.

* `AlertLifecycleProofs`. `TypeOK` alone is not inductive: a request past its
  first step must know a row that exists (`Placed`). `ConsentTheorem`,
  `HandledTheorem`, `TruthTheorem`, `EscalationTheorem` and
  `PublishedTheorem` follow from one invariant `IInv`: what a request read in an
  earlier transaction must still be true when it writes. `PredictionChain` (how
  far a callback has come determines which rows exist), `RecKnows` (its plan is
  stored, its rule matched), `DecideKnows` (its entry is in the log when it sets
  the status), `RunKnows` (what it is about to escalate is due). `KeepsTheorem`
  (`NothingIsTakenBack`) gives the proof its shape: what a request knows speaks
  only of things that are kept, so a request is disturbed by its own steps
  alone, and each chain has one case per action of its own request.
* `OwnerViewProofs`. `ImplementsOwnerView` (`ViewUnlessOvertaken`): the initial
  state maps to the abstract one, and every step of `AlertLifecycle` to a step, a
  stutter, or the escalation of an alert that is handled by then. It needs `IInv`
  and that a plan which names its decider is no longer pending
  (`DecidedIsSettled`). `StaysTheorem` (`EscalatedUntilDecided`, stated there) from the same invariant:
  the writers of `alerts.status` are a decision, which has its decider in the plan by
  then, and a run, which writes `escalated`; every other writer of the row leaves
  the column alone.
* `AlertRaceProofs`. `CatchUpTheorem` and `RaceTheorem` speak of executions in
  which nothing has died, so their invariant `Calm` is kept only as long as that
  is so: how far a request has got says which entries the log has (`PredLogged`,
  `RecLogged`, `DecLogged`), a plan has a callback behind it (`Written`), it has
  the kind of its last decider unless a rule triggered (`Owned`), an acceptance by
  a rule has its entry or a callback that will write it, and a handled alert has
  a finished decision of its kind (`Answered`); one that is decided and not
  handled was escalated over the decision, which is what `overtaken` records. `OnceTheorem`
  (`EscalatesOnce`) assumes that any two runs are the same, which is what a single
  process without overlap means, and follows from `OnceInv`: what a run still
  holds has not been escalated. `SilenceTheorem` (`SilenceIsFailure`) needs no such
  assumption: `Unannounced` and `Unescalated` are the events that are missing and
  that nobody is on the way to send. A step that is no death adds to neither
  (`UnannouncedStep`, `UnescalatedStep`, which need that a run holds an alert only
  until it has announced it, `Holding`), a death adds one to one of them
  (`DieSilences`), so together they never outnumber the deaths (`SilenceBudget`).
* `TwinCacheProofs`. `VisibleTheorem`: an entry that hides a write whose DEL is
  done must have been computed by a request that had read before the write.
  The invariant says what a request under way has read (`Complete`) and what a
  writer has written (`Written`) at each program counter. `ShownTheorem`
  (`HeardIsShown`) adds that a write announced to a connected page is brought by
  every request of that page that is still unanswered, or is shown (`Heard`,
  `Brings`): the requests are asked after the DEL, and what they read or find in
  the cache is not older unless the history variable `raced` says so.
* `CsvIngestionProofs`. `UnsyncedTheorem` from what a job's state says of its
  source. `SyncedTheorem` has one invariant per kind of row: `SyncInv` for items and
  suppliers, `NamesFollowMark` for the names nobody entered, and `ReadyInv` for
  orders: a row that could be ordered when its file was uploaded is found by
  every later lookup, because what was found is never deleted and no worker has
  the file before its upload (which is `QueueInv` again). `DeliveryTheorem` needs a budget: the orders a row
  has become, plus the workers that are still to commit it, plus one if a
  delivery is still to come, never exceed one more than the stalls
  (`Budget`), which in turn needs that a waiting job is in the queue once and
  held by nobody (`QueueInv`). `NamesTheorem` has a budget of its own
  (`NameBudget`): a worker that found no supplier of a name is counted among
  those about to create it, and once there is one, no lookup adds to them.
* `SweepPipelineProofs`. `DuplicateTheorem` from what a pass knows of its candidates (`Sound`: none of them had a prediction when they
  were read), `LossTheorem` from a budget again: the alerts that lost their plan
  plus the late callbacks under way never exceed the failures (`LossBudget`).
  `SweepsImplementOwnerView`: every step raises one alert, stores one plan under
  an alert, or is a stutter; it needs that a pass which is about to store a plan
  was answered with a prediction whose alert was raised.
* `TenantOnboardingProofs`. `ActiveTheorem`: a session is only ever a whole
  tenant's, since a request signs in with the tenant whose owner and entry it
  has itself committed (`Known`). `TenantsTheorem` counts the tenants and the tabs
  that have yet to create theirs (`TenantBudget`), which needs that a page and its
  request keep step (`InStep`, which is also `LockedTheorem`); `ForgottenTheorem`
  counts the consents without an entry and without a request that will write it
  (`ConsentBudget`).
* `OwnerPagesProofs`. `LeadTheorem`: no response, shown or on its way, says more than the server has (`Behind`), and the server takes
  nothing back (`Grown`). `ConfirmedTheorem`, `InboxTheorem`: in a clean tab the
  last request is unanswered or its answer has all that was confirmed and
  announced (`Fresh`); when none is left, that answer is shown. The server under
  the pages is made of the actions of `OwnerView` and of `EscalateHandled`, that
  is of what the transactions of the API are proved to bring about.

Every safety property that a passing run checks is proved. Out of the prover's
reach and only model-checked is everything that needs fairness
(`NoSilentExpiry`, `CacheHeals`, `PageFollows`, `CandidateIsWarned`). Where the
safety half of such a promise can be stated apart, it is, and is proved: that an
escalation is announced in the end rests on `SilenceIsFailure`, that the page
follows the cache on `HeardIsShown`, that the wizard answers on
`LockedByRequest`; what fairness adds to each is that requests under way end.

## 5. Not modelled

* *The rest of the web.* The track record (`alerts/history`) and the landing
  page fetch once and render; the demo page is a link and a login, which is
  `DemoLogin`. Rendering and wording nowhere.
* *Reads.* The ranking of the inbox by severity, the reads of predictions and of
  the audit log have no state; of `GET /alerts` and `/alerts/{id}` the pages keep
  what they show.
* *Agents.* Prompts, the text and confidence of predictions, the parsing of the
  model's answer beyond failing: what a pass does with them is `Predict`,
  `ModelFails` and `Recommend`.
* *Roles and dev-login.* Roles only as far as the automatic actions go, which
  are the owner's (`OwnerTab`); `dev-login` is off in production.
* *Rate limiting.* The counter is a library's; the guard only chooses its key.
* *Request plumbing.* Filters, correlation ids, health checks, bootstrap.
* *Demo, outreach and documents.* No program logic.

Seen by reading, with no run of its own:

* A rule with a `max_order_value` (data-model.md:232, contracts/api.yaml:436,
  schema.prisma:321) is stored and accepts plans of any value:
  `conditionsMatch` (`auto-trigger-evaluator.service.ts:63`) reads
  `min_confidence` only. The model's rules have the conditions that are read.
* data-model.md:266-268 wants an audit entry in the transaction of its row; every
  entry is in a later one. `AuditCatchesUp` therefore claims the entries only
  while nothing has died.
* A signal exactly 48 hours ahead counts (FR-003, data-model.md:159,
  `test_prediction_agent.py:90`), but the sweep counts the lead from a moment
  before the agent looks at its clock, so a supplier with a lead of two days is
  always short of it. `AboveFloor` is the comparison as it comes out;
  `CandidateIsWarned` leaves such suppliers out.
* Only the first primary supplier of a business by name is ever swept, and one
  that has a prediction or is below the floor hides the others.
* The supplier a plan recommends can be the one it is a plan against, when its
  kind is changed during the pass (`sourcing-candidates.service.ts:32`).
* The freshness checker flags by the ids it has read, a source synced in
  between included, and nothing sets a source active again.
* No code sets an alert to `expired`, which data-model.md:186-187 describes
  (`NoSilentExpiry` and `EscalatedUntilDecided` state what the code guarantees
  instead).
* An item added in the wizard has no reorder threshold, so its business is no
  candidate on its account, which is outside the start of `SweepPipeline`
  (`atRisk`).
