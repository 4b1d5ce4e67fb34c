# Verification of the opportunity finder

TLA+ models of the application under `src/app`: what it keeps in Postgres and
Redis, the coroutines that change it, and how they interleave, fail and die.
Each model is checked by TLC on small instances. What matters most about it is
also proved by TLAPS for every value of the constants.

`PROJECT.json` lists the components, the runs, which lines of the source each
definition translates, the mutants that show that a property can fail, and the
hazards the properties are aimed at.

## 1. The system

The program finds business opportunities for a team of consultants, writes
application material with a language model, has that material checked, sends
it, and follows what comes of it. It is a FastAPI process and one or more ARQ
worker processes over one Postgres database and one Redis server. Every handler
and every task is a coroutine: control changes hands at each `await`, between
processes at any time. There are no locks, no row versions and almost no
transactions that span more than one repository call, so **the await is the unit
of atomicity** in all the models.

### 1.1 Components

| component | state it keeps | operations | hard part |
|---|---|---|---|
| Opportunity pipeline (`core/pipeline_manager.py`, `pipeline_gate.py`) | `pipeline_records`: status, previous status, terminal flag | advance on a reply, a meeting, a proposal request; manual transition; validation failure | status read, then two or more awaits, then an unconditional write |
| Grounding verifier (`core/grounding_verifier.py`, `repositories/grounding_repository.py`, `api/grounding.py`) | `grounding_reports`, `grounding_claims`, `grounding_resolutions` | verify a material; resolve a claim by regeneration, edit or confirmation | claims held across a model call of 30 seconds and written back |
| Interview preparation (`core/interview_prep_service.py`, its repository and worker) | `interview_prep_packs`, `interview_prep_history`, WebSocket events | prepare on entry to Interview, regenerate | retries, two timers, restarts, packs that replace one another |
| Internal profile enrichment (`workers/profile_enrichment_worker.py`, `core/proposal_*`, `api/profile_enrichment.py`) | `public_sources`, `competency_proposals`, audit, scan history | scan, deduplicate, accept or reject, add and remove sources | a long worker session beside a reviewer |
| Outbound validation and sending (`core/outbound_validator.py`, `workers/outreach_worker.py`, `gmail_client.py`) | `validation_reports`, status of the record | validate, block, send, enroll | a job whose worker stops is run again, and nothing marks the send |
| Review cycle (`core/review_service.py`, `workers/review_worker.py`, `core/review_pipeline_stage.py`, `prepare_pipeline.py`) | the text of a draft, `review_reasoning_logs` | critique, edit, revise, score; batches; stage before grounding | retries inside cycles, reverted texts, batches that end before their reviews |
| Lemlist sequences (`integrations/lemlist_engine.py`) | enrollment, touchpoints, variants | enroll, advance, poll, pause, assign and promote variants | whole rows saved from copies held across requests |
| Discovery (`core/discovery_pipeline.py`) | health of each source, known prospects | run, deduplicate and merge, suspend and recover a source | overlapping executions over one health record |
| Domain throttling (`core/domain_throttler.py`) | one Redis key per domain | acquire a slot | read, then write, across processes |
| Scoring (`core/scoring_engine.py`, `workers/scoring_worker.py`) | `account_scores` | score, recompute all or one, broadcast | failed statements inside a transaction, overlapping jobs |
| Contact enrichment (`integrations/apollo_client.py`, `workers/enrichment_worker.py`) | `enrichment_records`, the window of requests | look up contacts and intent, enrich a batch, weekly refresh | retries against the rate limit, sessions after a rollback |
| LLM router (`integrations/llm_router.py`) | cache of relevance scores in Redis | evaluate, with retries and fallback | text and enrichment change while the model answers |
| Competence gap analysis (`core/gap_analyzer.py`, `workers/gap_worker.py`) | extracted capabilities (Redis and table), heatmaps | nightly cycle, on-demand analysis | two extractions of one opportunity, trends against earlier heatmaps |
| Dashboard connections (`core/websocket_manager.py`, `core/redis.py`) | connections per user | connect, disconnect, broadcast, subscribe | connections change while a broadcast awaits |
| Grounding queue (`workers/grounding_worker.py`) | none of its own | poll pending materials | as wired it calls a method that does not exist |
| Analytics, personalization, schema registry, HTTP routes, worker wiring, migrations, frontend | mostly derived data | computation, parsing, I/O | little state of their own |

### 1.2 How they interact

* The pipeline asks the grounding tables (through `PipelineGateService`) before a
  record enters *Approve*, *Applied*, *Sent* or *Proposal Submitted*; the verifier
  writes those tables on its own schedule.
* A transition into *Interview* enqueues an ARQ task that prepares a pack; the task
  calls the model through the LLM router and the grounding verifier for the talking
  points of the pack.
* A draft passes the review before the grounding verifier, the validator before a
  channel. A draft or message that fails goes to `transition_to_validation_failed` or stays
  under *Requires Action*.
* Discovery, the enrichment cycle and the scoring jobs read what the others wrote to the
  tables of prospects, through transactions of their own.
* Everything that changes what a user sees is published on Redis and delivered by the
  WebSocket manager; the dashboard then loads the rows again.

### 1.3 What makes them correct

* Pipeline: no record skips the grounding gate, events keep their order, effects
  outside the database never run ahead of it, the dashboard catches up with the row.
* Grounding: a report's counts are those of its claim rows, a material is blocked
  exactly while a claim is ungrounded, no claim changes that nobody resolved, and
  every resolution that succeeds leaves its audit records.
* Interview preparation: a delivered pack is never lost or hidden, a pack gives way
  only to a later delivered one, an announcement matches the rows, every task ends.
* Profile enrichment: what was accepted stays, what was rejected is not proposed
  again, a source is reported after three failed cycles in a row.
* Sending: nothing that its technique forbids is delivered in any run of a job, a
  message goes out again only after a worker was stopped.
* Review: what is handed on as unreviewed is the draft and stays listed; edits put no
  significant word into a text that neither its draft nor an asset holds; a clean batch has logged its reviews.
* Sequences: each step once, none after a reply, but for what goes on with an outdated enrollment.
* Discovery: a source is given up after the failures it takes and for good; two new
  prospects are two companies; no known value is lost.
* Throttling: calls of a domain that do not overlap are an interval apart, and nobody waits
  longer than it must.
* Scoring: a score lies between its factors, what is counted is stored, what is shown is stored.
* Apollo and the weekly refresh: the best contacts are kept, a failure does not pass for
  an empty answer; a record is its last answer unless two refreshes overlapped, and complete exactly while none of its refreshes failed.
* Relevance cache: an entry is the score of the text of its key and no older than its TTL.
* Gap analysis: the cache is the stored extraction; what a cycle extracts is in its heatmaps; no gap left out outranks one listed;
  the heatmaps of a cycle agree with each other and with their trend.
* Dashboard: a connection gets a message once; it is passed over only beside a removal.

### 1.4 As wired

The models describe the code under `src/app` as its classes are written. Some of the
wiring around them is unfinished, and a reader should know where:

* `PipelineRepository` is a Protocol: the models take it as one transaction per call.
  `workers/enrichment_worker.py` builds the manager with `repository=None`, and the
  status route of `api/pipeline.py` is a stub. The gate is modelled as given; a manager
  without a gate service skips it.
* `api/grounding.py` builds the verifier without an LLM router, so regeneration and edit
  answer 500 as wired; `confirm_and_add` records the confirmation and does not add the
  fact to the profile. `grounding_worker` calls `verify_batch`, which does not exist.
* The verifier is given `interview_prep_<id>` as the material of a pack; the column `material_id` of migration 003 is a UUID
  and would refuse the report. `InterviewPrep` takes a report as stored or refused.
* The interview tasks read `session_factory` and `llm_router` from a context that no
  worker startup fills, and `app/worker.py` and `app/workers/__init__.py` define two
  different `WorkerSettings`.
* `_scan_source` calls `LLMRouter()` without its three arguments, so as wired every extraction ends
  in its exception branch; the model takes the router as configured.
* The outreach task reads `schema_registry` from the context of the worker and returns *error*
  without it (`BeginSend`); its Lemlist engine has no store, so that an enrollment is counted and not
  kept (`Enroll`). `LemlistSequence` takes an engine with a store.
* `run_polling_cycle` and `run_discovery_cycle` construct their services with arguments that
  the constructors do not have, and raise. The worker context carries neither scoring weights nor the
  prospect of a single recomputation, and no LLM router for the nightly gap cycle, which then skips the
  extractions. The models take these as given.
* `_load_opportunity_text` reads the lazy relationship `prospect.enrichment_record` in an async session
  (`gap_analyzer.py:891`), and so does the on-demand analysis of a stored record (`gap_analyzer.py:1455`). That raises
  for every stored prospect, so that as wired the nightly cycle skips each extraction. The model takes the text as loaded
  (`ExtractNext`) or refused (`SkipNext`).
* The inserts into `review_reasoning_logs` omit `pipeline_record_id`, which
  migration 002 line 36 declares as not null; the model takes the insert as accepted or refused
  (`StoreFails`).

## 2. Modules

| module | role |
|---|---|
| `PipelineStatuses` | the statuses of `config/schema.yaml`, and which are terminal, gated or start an interview |
| `PipelineRules` | abstract specification: one atomic transition per call, from the row as it is or, among overlapping calls, from a status it has had |
| `Pipeline` | the manager await by await, with the gate |
| `MCPipeline`, `Pipeline_proofs` | instances for TLC, theorems |
| `Grounding` | reports, claims and resolutions of the materials of one record, call by call |
| `GatedPipeline` | `Pipeline` and `Grounding` composed over one set of tables |
| `MCGrounding`, `MCGatedPipeline`, `Grounding_proofs` | instances for TLC; theorems about both |
| `InterviewPrep` | the packs of one record and the tasks that make them |
| `MCInterviewPrep`, `InterviewPrep_proofs` | instances for TLC, theorems |
| `ProfileEnrichment` | sources, scans, proposals and their review |
| `MCProfileEnrichment`, `ProfileEnrichment_proofs` | instances for TLC, theorems |
| `OutboundSend` | validation and sending of queued jobs |
| `ReviewCycle` | reviews, their log, batches and the stage before grounding |
| `LemlistSequence` | one prospect in one sequence |
| `MCOutreach`, `Outreach_proofs` | the instance of these three, theorems about each |
| `Discovery` | one source, overlapping executions, deduplication |
| `DomainThrottle` | one domain and its callers |
| `ScoringEngine` | the score as operators, without state |
| `ScoreRecomputation` | recomputation jobs, statement by statement |
| `ApolloClient` | look-ups with retries, batches with a window |
| `EnrichmentCycle` | the weekly refresh of stale records |
| `RelevanceCache` | evaluations beside one another and their cache |
| `GapAnalysis` | extractions, heatmaps, ranking and trend |
| `Dashboard` | connections and the rounds of a broadcast |
| `MCIntake`, `Intake_proofs` | the instance of these eight components; theorems about discovery, the throttle, Apollo, the refresh and the cache |
| `Insight_proofs` | theorems about scores, gaps and the dashboard |
| `Selection`, `Selection_proofs` | a list filtered by a condition and a sum over a set, as the code's comprehensions, queries and `sum()` do it; lemmas about them, about recursion over an interval and about induction over the subsets of a finite set |

### 2.1 Pipeline

`row` is the record, `report` the status of its latest grounding report, `pc` and
`call` the await a call is suspended at and its locals. A call of the manager is
`Begin` (arguments, and the keyword scan of a reply's text), `Read` (`_get_record`
and the early returns), `Gate` (`can_transition`), `Write` (the unconditional
update), `Publish`, `Dispatch` (state-entry techniques) and, for a validation
failure, `Notify`. `Abort` is an exception out of an await, or the death of the
process. `ReportChanges` is the verifier. `board` is the dashboard, which loads the
rows again on each message. Two variables are history: `past` has the transitions that
were committed, `unseen` the records whose last publish failed or was cut off by the end of its process.

`PipelineRules` states the same operations as atomic transitions, each from a status in `From`. The module
implements it (`ImplementsRules`, checked and proved; the mapping keeps the row and the report, computes
`had`, the statuses of the record so far, from `past`, and hides the calls, whose reads, gates and effects
are stutters). One caller's transitions start from the row as it is. A caller among others overwrites what
it did not read, and its transition starts from a status that the record has had, not necessarily its last: the
event it records still had its cause, a manual one still read a status that was not terminal, and a
gated one still has a report. What leaves a terminal status in that race is
`TerminalLeftOnlyByStaleOrFailed`: a call that read the row before, or a validation failure.

### 2.2 Grounding

`reports`, `claims` and `resolutions` are the three tables; each repository call is one
transaction and one action. A verification takes its number (its `created_at`) when
it begins and stores later (`Store`). A resolution selects the latest report (`Select`,
for a regeneration), fetches it with its claims (`Fetch`), judges some claims, and writes
report and claims (`Update`), then one audit record per claim (`Resolve`) and, for a
confirmation, one more (`Confirm`). `UnsavedIds` are claims that a second extraction finds
and that never get a row: `update_grounding_report` updates rows and inserts none. Two history variables, `original` and `unrecorded`, are what `ChangedIsAccounted` compares
a claim with: the status its row was stored with, and the claims of failed resolutions. What a
claim says is left out. A verification may find any status for each claim. `MaterialOf` gives
each call its material: the resolutions look for the latest report of a material.

`GatedPipeline` puts the manager beside the verifier. `Manager` is `Pipeline` for one record, whose
`report`, a variable that changes at will there, is replaced by `RecordStatus`: the status of the newest
report of the record, which is what `can_transition` asks for. A step is one of the verifier (`Verifies`) or one of a call of the manager
(`Moves`); the two share nothing but the tables. `outdated` is a history variable: the calls whose gate has answered before
the latest change of a report. That the composition implements `Pipeline` (`ImplementsPipeline`) is what entitles
`Pipeline` to its free `ReportChanges`.

### 2.3 InterviewPrep

`packs` holds the rows by number (in the order of `created_at`), `job` the locals of a task,
`pc` its await. The service is `GetPack` (regeneration only), `Assemble`, `Save`, `Generate`
with its retries and time limits, `MarkGrounding`, `Verify`, `Regenerate`, `Reverify`,
`SaveFinal`, `Publish`, `Supersede` and `SaveHistory`; on failure `MarkFailed` and
`PublishFailed`. `Abandon` is the timer of the task or an unexpected exception, `Die` the
death of the worker, after which ARQ runs the task again from the start.

Of the text only this is kept: which talking points hold an ungrounded claim, as the verifier
last judged them.

### 2.4 ProfileEnrichment

`sources`, `proposals`, `audit` and `scanned` (the latest row) are the tables; `scan` and `req` hold the
locals of scan tasks and requests. A scan is `BeginScan` (the sources it loads, and the failure counts
it copies), then for each source `Fetch`, `Extract` and the three reads of the deduplicator, and
`CommitScan` once per consultant. A request is `BeginReview`, `Review` for each proposal, and
`CommitReview`, or it adds or removes a source. What a session writes becomes visible at its
commit and is written then whatever the row says; `AbortScan` and `AbortRequest` are broken sessions. A
candidate is its normalized name with its category, and `Alike` relates the names that the
deduplicator's text comparison takes for one. Time is left out: any active source may be due. Several scan
tasks (the scheduled one and those on demand) and several requests run at once. `misses` and `settled` are
history, and so are the three variables that name what two writers can spoil: `contested`, the proposals that
two requests found pending at once; `beside`, the pairs of scans that overlapped; `crossed`, the sources of which
two scans held a copy at once. The properties hold of everything else.

### 2.5 Behind an outgoing message

**OutboundSend.** A material is what the rules tell apart: which defects it has. `RulesFor` is the
declaration of the technique or the default rules, `Passes` one rule against one material, `LinkResults` the
links, which answer differently at each run. A run of a job is `BeginSend`, `CheckLinks`, `SaveReport`, then
`Block`, or `PostMessage` (delivered and answered, or delivered and the answer lost) or `Enroll`. `Raise` is an
exception, after which ARQ does not run the job again, `Stop` the worker that is stopped, after which it does.
`Forbidden` says what a technique forbids from the declarations alone, without the validator's report.

**ReviewCycle.** A text is a sequence of passages, an edit replaces one. A passage has its words (`WordsOf`). `Ungrounded` looks
at those that the edit introduces and that are significant, as `_is_ungrounded` does, and at nothing else; what an asset `Holds`
includes the words that occur inside a longer one. `Admit` is the semaphore of a batch,
`Critique` and `Revise` the calls of the model with their retries, `EndCycle` what decides whether there is another
cycle, `SaveLog` and `MarkUnreviewed` the two writes. `Gather` is the end of a batch, which the first
exception brings about while its siblings go on; `AfterReview` is the stage of `PreparePipeline`, with the
grounding verifier as an input. `QualityScore` counts what was edited against the draft.

**LemlistSequence.** `enrollment` and `touchpoint` are the stored rows, `task` the operation with the copy
it loaded and the steps of the sequence as its caller holds it; a caller may hold one in which the step of the enrollment is
missing, and the advance then does nothing. A response reads its touchpoint (`ProcessEvent`) and marks it in a later step
(`MarkTouchpoint`). `slips` is history: the number of times an operation has saved or sent with a copy that is no longer the row,
or was cut short with its message out. The properties bound by it what such operations can do. The callers of the engine and its store are not under `src/`
and are external.

### 2.6 Before a message: intake

**Discovery.** `health` is shared by the executions, which await the source between `BeginRun` and
`Answer` or `Fail`. `Deduplicate` is `deduplicate_and_merge` as a fold over the answer: match by domain, then by
name, merge or create. Normalization of a name is its class. `streak` and `overlapped` are history.

**DomainThrottle.** `Ask`, `Get`, `Wake` and `Put` are the commands of `acquire`, `RedisFails` and `GoUnrecorded`
its fallback, `Expire` the TTL of the key. Time passes only while nobody has a command to issue.

**ScoringEngine, ScoreRecomputation.** The score is computed as the code does, rounding included, over
factors that may be missing. A job loads its prospects once and upserts batch by batch; a row that another
transaction wrote is locked; after a failed statement the COMMIT is a rollback that raises nothing (`Commit`).

**ApolloClient.** Look-ups with retries and the broadened search (`BeginLookup`, `Answers200`, `CallRaised`,
`RetryLookup`, `Exhausted`), and the batch with its window of requests on a clock (`Throttle`, `Request`, `BulkAnswer`
and the failures). **EnrichmentCycle**: fetch, call, refresh, commit. A row is a status and some `Columns`; a commit writes
those in which the answer differs from the copy that the session fetched (`Written`), as the ORM does. A rollback expires the
records of the session, so reading the next one raises (`ReadExpired`), and after a failed UPDATE so does the handler
itself (`FlushFails`).

**RelevanceCache.** Evaluations read the cache, ask the model and store under the key that they
computed before (`EntryKey`), while `EditText` and `EnrichmentChanges` go on.

**GapAnalysis.** Extraction of an opportunity through the cache, the table and the model by two callers
(`Lookup`, `ModelDelays`, `StoreExtraction`, `CacheExtraction`), and the nightly cycle that turns extractions into
heatmaps (`WeightedGaps`, `Ranked`, `Trend`). An answer may be without capabilities; such an opportunity is not among those that
`LoadDemand` loads. A refused flush (`StoreConflicts`), of the extraction itself or of a canonical name that the other caller
creates, leaves the session broken for the rest of the cycle. Values are quarters of the default value.

**Dashboard.** Each action runs from the end of one send to the beginning of the next, because sends are the only
awaits; that of the Redis publish is left out, the local round of a heatmap begins with it. A round walks the live list;
`Disturbed` are the rounds whose place in it moved.

`MCOutreach` and `MCIntake` are instances of components that share no variable in the code modelled here. Each
behaviour runs one of them (`part`) and leaves the others in their initial states, so that an invariant over the
variables of one component holds in the instance exactly if it holds of the component. They are one run each because
the question is the same for all: does each keep its promises. Each *Safety* property is the
conjunction of the named parts above it, and `ReviewSafety`, `SequenceSafety`, `DiscoverySafety`, `CycleSafety`
and `CacheSafety` also hold action properties.

## 3. Runs

Bounds are constants in the `.cfg` files. Two concurrent calls are enough for every race of
a read with a later write, as each call reads once and writes once. A third call sets the scene
before them or looks at what they leave.
In `enrich_scan` the threshold is two failures and one source starts with one, so that within two
scans a count can be reset, lost or reach the threshold. Its two scan tasks and two requests overlap or follow
one another, so each of the three exceptions occurs, and so does its absence; there is one item to
propose, so that pages which repeat an item, or mention one of a similar name, are left to the theorems.

| run | question | bounds |
|---|---|---|
| `pipeline_calls` | do stale reads break the gate or the order of events, do effects and answers follow the commit, can the dashboard stay behind, who leaves a terminal status? | one Team record, 2 calls at once, 4 in all, failures |
| `pipeline_live` | do the rules allow every write of overlapping calls, does an accepted transition reach the row? | one job-site record, 2 at once, 3 in all, no failures |
| `pipeline_serial` | does the manager implement the atomic rules, from the row as it is? | one call at a time, 5 in a row, failures |
| `grounding_paths` | counts, blocking, unblocking, audit and the trail of each changed claim, on all four paths | 2 at once, 3 in all, 2 claims, failures |
| `grounding_forgotten` | "unblock ... if no ungrounded Claims remain": violated | one call at a time, 3 in a row |
| `gated_pipeline` | does the pair implement `Pipeline`; what has the gate seen of a claim when the row is written? | a CV and a letter, verifications, confirmations and edits, 2 at once, 3 in all, 2 calls of the manager in turn, 1 claim, failures |
| `prep_concurrent` | are delivered packs kept and announcements true? | 2 tasks, 2 runs each, 3 packs, one point, failures |
| `prep_live` | does every task end, and are its flags what was judged? | 1 task, 3 runs, 2 points |
| `prep_deadline` | "Mark failed, surface in Requires Action" on the deadline: violated | 1 task |
| `enrich_scan` | is what was accepted and rejected respected, is a report of a dead source earned? | 2 scans and 2 requests in all, at once or one after the other, 3 sources of 2 consultants, one of them failed before, 1 item, 2 proposals, failures |
| `outreach` | do sending, review and sequence keep their promises over re-runs, failures and stale copies? | send: 4 jobs, two of them run twice, both channels, default and declared rules; review: a batch of 2 with concurrency 1 beside one pipeline, 2 cycles, 1 retry; sequence: 2 operations at once, 3 steps of which 2 are sent, a sequence in which one of them is missing, 2 variants, 1 response, 2 slips |
| `intake` | do the components before a message keep theirs? | discovery: 2 executions, 8 calls, 2 known prospects, clock to 3; throttle: 3 callers, 2 ticks in which calls begin; scoring: 3 jobs over 3 prospects in batches of 2, 1 update, 1 loss; Apollo: 2 look-ups of 2 tries, 4 companies against a limit of 2 per window; refresh: 2 cycles over 4 records of 2 columns, 3 fetched; cache: 2 evaluations, 2 texts, TTL 1; gaps: 2 opportunities, 2 skills, answers with none, one or both of them, 2 consultants, 2 nights, 1 change, on-demand beside nightly; dashboard: 3 sockets of 2 users, 2 messages |

A run marked *violated* checks one statement of the repository's documents or comments; TLC finds
the behaviour of the code that contradicts it, and `findings` in `PROJECT.json` quotes both.

In `outreach` and `intake` the limits of the code are made small enough to be crossed: one company more than the limit
allows in a window, one record more than a cycle fetches, one entry fewer than there are gaps, a sequence longer
than the maximum, contacts and signals beyond theirs. Two executions of each task are what it takes for one of them
to meet the other's rows.

Deadlock is not checked in the grounding, gated, interview, enrichment, outreach and intake runs: their calls and tasks are
bounded, and a system without requests rests. In the pipeline runs the verifier may always change a
report, and deadlock is checked.

**Symmetry** is used over the calls, tasks, sockets, variants or items of safety runs only, never with liveness.

**Fairness.** `Pipeline!FairSpec` has weak fairness of the steps of each call, and no fairness of new
calls, of new reports or of failures: an event loop resumes every coroutine whose await is over, and
every await in these calls ends or raises. `InterviewPrep!Fairness` has weak fairness of the next step
of a task *or* its abandonment: each model call has a time limit and the task a timer, so an await
does not last for ever, but it need not end well. Deaths are bounded by `MaxTries`, which is what
`max_tries` of ARQ does. The other modules state safety only.

### 3.1 What else the models show

These disagreements between documents and code, and consequences that are easy to miss, came up while modelling. They
are described here and no run is kept for them.

Pipeline and grounding:

* "Terminal pipeline states (no further transitions from these)" (`pipeline_manager.py:48`): a call that read the row
  before it became terminal overwrites it, and `transition_to_validation_failed` does not look at `is_terminal` at
  all, so a closed record is moved and becomes non-terminal (`Pipeline!Write`, `PipelineRules!ValidationFails`).
* The gate is asked before the write and outside its transaction: a report stored as blocked in
  between does not stop the transition (`Pipeline!Gate`, `Write`). `GatedWriteIsGrounded` says that nothing
  else does, as far as the newest report goes.
* The gate asks for the newest report of the *record*, the resolutions for that of the *material*. A record has
  several (a CV and a letter of one technique), and the one verified last decides for all: a grounded CV after a
  blocked letter lets the record through (`RecordStatus`, `OfMaterial`).
* A re-verification writes every claim back with the status it fetched, so it undoes a resolution
  that ran beside it, where `design.md:1166` of claim-grounding-verification says that it shall not
  modify other claims.
* An edit that yields more claims than were resolved blocks the material by claims that no row
  names, and a confirmation on a report whose extraction failed verifies it.

Interview preparation and profile enrichment:

* A regeneration supersedes the one pack it looked up before generating; a failed pack or one saved
  meanwhile stays current beside the new one.
* A failing `assemble_context` leaves no pack to show; an ungrounded claim that was not found in a
  point is dropped once another was found; a pack that could not be verified is *ready* without a
  note.
* "SHALL NOT modify or delete any existing profile content" (`requirements.md:46` of internal-profile-enrichment): two
  reviews of one proposal at once both find it pending, and the second overwrites or removes what the first merged.
  These proposals are the model's `contested`; `AdditiveOnly` and `AuditMatchesMerges` hold for all others. An item that was
  rejected by the first review and accepted by the second may be proposed again (`RejectionStands`).
* Two scan tasks of one consultant at once propose an item twice (`PendingOncePerPage` excepts scans that
  overlapped, and only them), and two requests at once exceed the limit of ten sources: both read before
  the other has committed.
* Two scans that hold one source at once each count its failures on a copy of their own: one may reset what the
  other then writes back, or announce a source that was read meanwhile (`crossed`, in `NoticeIsEarned`).
* A page whose candidates are all new is proposed as it is: two candidates of one page with the
  same name become two proposals.
* `bulk_action` documents that a proposal that fails its checks "is skipped and reported"
  (`api/profile_enrichment.py:393`); it rolls the whole request back (`Review`).
* A scan that could not read one consultant's source is recorded as failed for every consultant
  that follows (`CommitScan`).

Outgoing messages:

* Nothing takes a material out of *review_pending*: each batch fetches the oldest again. The first exception
  of a batch leaves its other reviews running and unreported. A review that degrades in a late cycle keeps the score and
  the edit count of the text that it reverts; `ScoreIsOfTheText` excepts it.
* "SHALL discard any Structured_Edit or Narrative_Finding that introduces a skill, achievement, credential, client name, or
  metric not present in the Beneficiary's profile assets" (`requirements.md:39` of review-critique-loop): the check looks only at
  words of more than three characters outside a list of common ones, and finds them inside longer words of the assets as well
  (`review_service.py:603`). A short credential, a small number or a name of common words passes, and without assets everything
  does. `EditsStayGrounded` speaks of the significant words only. In the model an edit replaces whole passages: the code could
  also cut into a word and join its halves to a new one, which is left out.
* A narrative revision is not checked against the assets, as the edits are.
* A job whose worker stops after the POST sends the message again (`SecondSendNeedsAStop` says that nothing else does).
* "initial + 3 follow-ups = 4 total" (`lemlist_engine.py:789`, and alike at 294, 300 and 991): `followup_count` counts the first
  message as well, so a sequence ends after three (`SequenceOver`). No property states either number.
* The assignment of a variant is
  random below forty sends, so "within ±5pp after 40 assignments" (`lemlist_engine.py:662`) does not follow. A
  stale copy of an enrollment overwrites a pause, and a step goes out again; `SequenceSafety` says no more of that than that each slip
  costs one delivery. An operation cut short between the request and its save leaves a message out that no row counts, and the
  next advance sends it again. Polls have no cursor and return everything each time. The
  out-of-office branch of the responses is never reached.

Intake:

* A source that fails its recovery keeps the time of its first suspension: after the first backoff the
  recoveries follow at once (`MayCall`, `RecordFailure`). The health is in memory and begins anew in each worker cycle.
* Prospects of a discovery are filtered by the bonus of their sources alone: fewer than four sources are below the
  default threshold. Prospects with blank domains match each other.
* A recomputation that overlaps another overwrites a newer score with one of older facts; after a failed upsert the
  batch is lost although it was counted and broadcast; a job for one prospect does not look whether it is terminal.
* "no more than 5 requests are initiated within any 1-second window" (`system-redesign-v2/design.md:1328`): the window counts one
  request per company, and the retries inside a company are not in it (`apollo_client.py:741`). A 429 in a batch drops
  the results before it. A failed query for intent is answered as an empty one. The title *director* contains *cto*.
* `_get_stale_enrichment_records` documents a filter by pipeline state (`enrichment_worker.py:369`) that its query does not
  have. A refresh that fails overwrites the data with nothing and takes the record out of all later cycles; records
  that are skipped stay the oldest and fill the limit of the next cycle; a failure ends the cycle at its next record, and a refused
  UPDATE at once.
* Two cycles that overlap can leave a record that mixes two answers, as each writes only the columns in which its answer differs
  from its own copy: one stores *not_found*, the other finds changed data, and the row says *not_found* beside that data.
  `UnsharedHoldsAnswer` excepts the records that two cycles held at once (`shared`), and only them; `CompleteNeverFailed` holds of all.
* `evaluate_relevance` documents that no exceptions are raised to callers (`llm_router.py:202`); an error of Redis is, and so is the `AttributeError`
  of a JSON reply that is no object (`llm_router.py:662`). The handlers of `apollo_client.py` name the errors of httpx only: a body that is
  no JSON or a title that is null ends the call without a retry (`CallRaised`, `BulkRaises`). A score
  computed without enrichment is served until its TTL ends.
* When two callers extract one opportunity, the one that loses the unique key has a session that refuses
  everything after it, and its whole cycle ends as an error. So it is when extractions of two opportunities create one canonical name at
  once (`gap_analyzer.py:365`). An opportunity whose answer has no capability is extracted, and no heatmap counts it. The comments of
  `GapTrend` say "Higher blocked value or frequency than previous" (`gap_analyzer.py:51`); `compute_trend` compares values only, so a gap
  that more opportunities have at the same total value has no trend (`TrendsAreOfValues` states the code). An extraction that was stored but not cached is counted as
  failed. A gap that was only pushed out of the list shows as new when it comes back. A consultant without any capability row gets
  no heatmap. A junior level is a gap in `compute_gaps` and none for `detect_single_blockers`. A heatmap is sent twice
  to a connection of the process that publishes it.

## 4. Proofs

The theorems hold for any number of records, calls, tasks, claims and packs, under the named
assumptions of each module (types and ranges of the constants only). Each `*_proofs` module states an inductive
invariant, shows that it holds initially and that every step keeps it, and derives the properties.
The properties were checked by TLC before they were proved.

**Pipeline.** `GatedHasReport` alone is not inductive: the write happens after the gate. `CallInv` says
what a call carries across its awaits: its record exists, the event it read the row for had its cause,
a gated write still has the report its gate saw (reports are never deleted), and what it
reported is in `past`. `RowFromPast` ties the row to the history. From these follow `TypeCorrect`,
`GateHolds`, `CausalOrder`, `EffectsOrder` and `TerminalExits`. `BoardFollows` holds with failures too: a publish
that arrives shows the row of that moment, so only a record in `unseen`, or one with a publish still to come,
can be shown as it was. `ManagerImplementsRules` is the refinement, for any number of callers. `Allowed` says what a call
that has read the row may still write: the status it read is one the record has had (`HadGrows`: that set only
grows), and one its operation starts from; with one caller it is the row itself. `RulesInv` adds that the row is among
the statuses had and that `is_terminal` follows it. `WriteFollowsRules` then makes every write a step of
`PipelineRules`, operation by operation, and everything else is a stutter or a report.

**Grounding.** `Fetched` says that the ids a call fetched are the ids of the rows it overwrites, because
the set of rows of a report never changes after it was stored; `Storing` that the number of a verification
is its own; `Audited` which records exist already. `FreshUnblock` and `Audit` hold on every path.
`ReportMatches` is about the reports outside `edited`, a history variable:
an edit or a regeneration puts into it the reports whose counts it may part from their rows, and a confirmation takes its own out
again, since it writes every row of it with the status it counts (`ConfirmationCounts`, `EditLeavesOthers`). Of an edited
report it is false, as `grounding_forgotten` shows. `Trail` needs of each call (`TrailInv`) that what it fetched of a claim, if it is
not the status the claim was stored with, is accounted for already: what it writes back explains itself, and an account is never
lost (`AccountKept`), it passes from the call to the records, or to `unrecorded` when the call fails.

**GatedPipeline.** `GatedImplementsPipeline` is a refinement with `RecordStatus` for the report (`VerifierStep`): the status
of the newest report is of `ReportStatus` once there is one, because no report is ever taken away (`RowsFixed`) and a newest one exists
(`Maximum`); so each step of the verifier is a `ReportChanges` or a stutter. `GateInv` adds what the gate leaves behind: a call that has
passed and is not outdated stands before a report that is not blocked (`Admitted`). With `CountsMatchRows` that report
has no ungrounded row (`AdmittedIsGrounded`), which gives `GatedWrites`, for the reports outside `edited` like the
theorems about counts.

**InterviewPrep.** `Numbered` gives each pack to one run of one task, `OwnRow` says what its row holds at
each await, `Replaces` that a task supersedes an older pack. `Retention` then needs an induction of its
own: among the delivered packs from `n` on, the latest (lemma `Maximum`, by well-founded induction
on the naturals) is not superseded, because its successor would be later. `Flagging` follows the flags of a pack
through the awaits of its task (`FlagsInv`).

**ProfileEnrichment.** `TInv` holds for any number of tasks and requests: the types, the source a task works on is one of
its consultant, and a scan that missed a source remembers a failure. `TypeCorrect` and `CompletedIsComplete` follow.
The other properties hold for any number of scan tasks and requests too, each but for what the history
variables name. Reviews (`DInv`): a proposal that two requests hold is contested (`Shared`), and one that a request holds and
that is not contested is pending until its commit (`Undecided`), so a rejection made before a scan began stands (`RejectedStays`) and
is read before the page is compared; hence `AcceptedIsKept`, `AuditTrail` and `RejectedIsNotProposed`. Pending items
(`PInv`): two running scans are beside each other, and what a scan has found is pending only by scans beside it (`OnePending`).
Failures (`CInv`): two scans share only crossed sources (`Crossing`), a scan writes no count of a source it does not hold (`Apart`),
and of the others the counts are those of the rows and no higher than the failed fetches (`NoticesAreEarned`).
Without the exceptions the properties are false, see 3.1.

**OutboundSend.** `SendInv`: the results a run carries are those of its material under the rules of its technique, with links
only as warnings, so that what fails is a function of the job and the same in each run; a run that is sending has its passed
report stored. `SendHolds` is `SendSafety` with all its parts.

**Discovery.** `DiscInv`: every failure of the source is in the streak, and the failures that suspended it come before those of
its recoveries (`HealthOK`); within the backoff the recoveries counted and the executions still waiting are no more than those that
were waiting when the source was suspended (`Backoff`), because nobody begins then. The rows of an answer are an induction over its
prospects (`DeduplicateOK`, by `Iteration`): a new row is among the entries which the later prospects are compared with. `DiscoveryHolds`
is `DiscoverySafety` with its action properties.

**DomainThrottle.** `ThrInv`: the key holds the last moment that was written, or that moment is at least a TTL old; a
caller between its read and its request has the wake-up that keeps its distance, and the clock does not pass a caller that has a
command to issue. It uses that the interval is no longer than the fallback and the TTL (`ThrottleAssumption`, 1, 2 and 120
seconds in the code).

**RelevanceCache.** A call keeps the text and the enrichment it began with until it stores, and an entry is of its key.

**ApolloClient.** The place of a contact in the stable sort is one more than the number of those before it; the order is total and
strict, so the places are the numbers from 1, each taken once (`EachPlaceIsTaken`), and a better contact has an earlier place.
`LookupInv`: a call has found nothing before it ends. `BatchInv`: each moment of the window is that of a request, and every
first request that is still recent has one of its own (`Covers`), so that no more are recent than the window has moments; a
batch that slept until its oldest moment left the window has room for one more (`RecentOK`). `ApolloHolds` is `ApolloSafety`.

**EnrichmentCycle.** `CycleInv`: what an execution has still to do is without repetition and not yet committed, what it counts as
refreshed it has committed, with at most one commit more for each failure, and one whose session has expired saves nothing
(`RunOK`). Every column of a row is that of some answer stored for it, the row is complete exactly if none of them was a failure,
and it is the last of them unless the record is shared (`RowOK`). An execution that holds an unshared record has a copy of it as
it is and complete, so that writing only what differs from the copy leaves the answer; records that two executions hold are
shared. `CycleHolds` is `CycleSafety` with its action property.

**LemlistSequence.** `SequenceInv` ties the step to the count, and each copy that is not known to be outdated to the row. A step
from that of the row on has reached the prospect at most once for each slip, unless an advance has just delivered it and not yet
counted it (`Behind`, `OutAt`); and an advance that holds the row as it is finds the steps it has still to post delivered by slips
only (`NotYet`). So a post by such an advance makes one more than the slips, and a post by any other is itself a slip. Two
advances that hold the same row are the case this is about: the first to save makes the other's copy outdated.
`SequenceHolds` is `SequenceSafety`.

**ReviewCycle.** `ReviewInv`: a review is unreviewed only with the draft as its text and only from the failure on, its score is
of the text from its last cycle on, until a revision its text has only significant
words of the draft or the assets (`Grounded`; both in `CallOK`); what has returned is in the
log as it says (`InLog`); a clean batch has seen all its reviews return (`BatchOK`); a pipeline has one call of its own
(`StageOK`). `LogGrows` is the action property in its inductive form. That a critique keeps a text grounded, though an edit is judged only by the words it
adds to the passage it replaces (`ApplyEditsOK`), is
an induction over its edits, which `Iteration` of `Selection_proofs` makes possible: a recursive function on an interval whose
steps stay in a set has a solution there. `ReviewHolds` is `ReviewSafety`.

**Dashboard.** `DashInv`: the list of a user holds that user's connections, none twice and none empty (`DictOK`). A round
that was not disturbed stands at its place in the live list, and all it still owes are there or behind (`Walk`). What a connection has got of a
message and what the rounds and the inbox may still send it never exceed one, or two for a heatmap (`SentOrMay`). Removing connections from a list keeps order and moves nobody backwards (`Removal`, from the lemmas
about `Kept`). `DashboardHolds` is `DashboardSafety` with all its parts.

**ScoreRecomputation.** `ScoreInv`: while a job has met no error it has counted what it stored and what its open transaction
holds, and one whose transaction is aborted has met one (`JobOK`); it writes each of its rows once and with the score of the facts it read (`WritesOK`), and no two open transactions hold the
same prospect. While jobs have not overlapped and nothing has failed, what is shown is what is stored or about to be, and the scores
a job read are still those of the rows it has to write (`SoloOK`). `ScoreIsBetween`
bounds a score by its factors: a sum of products lies between the bounds of the factors times the sum of the weights (`TotalIsBetween`), and
Python's rounding of the quotient stays there (`RoundedIsBetween`). `ScoringHolds` is `ScoringSafety`.

**GapAnalysis.** `GapInv`: a row is stored once and never changes, and what is about to be cached is that row; the attempts of an extraction stay
below the maximum of each kind (`ExtractionOK`); an opportunity that the cycle counts as extracted has a stored row, and once the
demand is loaded each skill of that row is demanded by it (`NightOK`, `LoadedOK`); each heatmap stored by the cycle in progress is a ranking of the gaps of what
that cycle loaded, with the trend against the one before it (`LoadedOK`). From the ranking follow that what it leaves out does
not outrank what it keeps (`KeptOutrank`), and that the firm has the best level of each skill (`FirmHasTheHighest`). `GapHolds` is `GapSafety`.

**Sums and finite sets.** The provers have no induction over data. `SubsetInduction` gets one for a fixed set of subsets from the induction
over the naturals, and `SumsExist` and `TotalSums` from it the laws of `Total`: what the sum of nothing and of one element more is.

**Only model-checked**: the liveness properties `TransitionReachesRow` and `TaskIsAnswered`, which are
outside the prover's reach, and the violated statements. Every invariant and every action property of a passing run is
also a theorem, under the assumptions named above.

## 5. Not modelled, and the plan

Not modelled, with the reason for each in `PROJECT.json`: the grounding queue (as wired its task ends at a call of a missing
method), personalization and content selection (prompt building and ranking of texts), analytics (aggregation of what
others wrote), the HTTP routes beyond the handlers named above, the wiring of the workers, tables as declarations, and the
frontend. Of the components listed as partly modelled, the notes in `PROJECT.json` say what is left out: how a single claim is
judged, the wording of critiques and prompts, the normalization of capability names, the parsing of a company, and
the creation of a sequence.

What comes next, in this order:

1. The grounding queue, once its task calls a method that exists.
