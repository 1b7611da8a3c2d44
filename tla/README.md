# TLA+ verification of the Premier League prediction platform

This directory holds TLA+ models of the platform's core, the TLC configurations
that check them on small instances, and TLAPS proofs of their main invariants.
Paths below are relative to the repository (`src/pl_platform/` is the package).

Contents: 1 inventory, 2 modules and how they correspond to the code, 3 runs,
bounds and fairness, 4 proofs, 5 findings, 6 what is not modelled, 7 plan.

## 1. Inventory

The platform retrieves current fixtures and results, predicts fixtures before
kickoff, evaluates the predictions once results are official, advances an
immutable operational team state, and regenerates what that made stale. All of
it is stored as immutable rows in PostgreSQL or immutable files in a model
registry; nothing has a mutable status.

| component | state | operations | interacts with |
|---|---|---|---|
| post-match workflow (`prediction/workflow.py`, `persistence/post_match_workflow.py`, f0009) | a manifest row and up to six event rows per workflow | `run_post_match_workflow`, journal `load`, `create`, `append` | child stores, by one write per stage |
| aggregate persistence (`persistence/repositories.py`) | all tables | `persist`, `get`: one serializable transaction, insert or verify | the raw-manifest gate, the migration head, deferred triggers |
| prediction operations store (`persistence/prediction_operations.py`, f0008) | team states, advancements, regenerations, simulations | `store_*` | keys and validators of f0008 |
| prediction lifecycle (`prediction/lifecycle.py`, `operations.py`, `domain.py`, f0007) | feature rows, predictions, evaluations, advancements | build, predict, evaluate, advance, regenerate | chronology, Elo replay, the active model |
| chronology (`features/chronology.py`) | none | simultaneous batches | features, advancement, regeneration |
| model registry (`registry/registry.py`, `active_model.py`) | `entry.json` and event files of each entry | register, accept, reject, load, resolve | the file system, shared by processes |
| live readers (`ingestion/live_fixtures.py`, `final_results.py`, `automation/jobs.py`) | locals of one read | `read`, `reconcile`, `run` | cache, provider, current sync |
| provider cache (`persistence/provider_cache.py`) | immutable responses | `store`, `lookup_latest` | live readers |
| provider executor (`ingestion/current_client.py`) | process-local quota observations under a lock | `execute`, `record`, `require_available` | transport, clock |
| current sync (`persistence/current_sync.py`, `ingestion/current_transform.py`, f0005) | fixture revisions and observations, batches, official results, standings | `synchronize_fixtures`, `reconcile_results`, `synchronize_standings` | live readers, cache, triggers of f0005 |
| squads (`persistence/current_squads.py`, `ingestion/current_squads.py`) | squad snapshots | write plans | cache |
| season simulation (`simulation/`) | none | table, ranking, sampling, aggregation | lifecycle |
| retraining and monitoring (`training/retraining.py`, `comparison.py`, `monitoring.py`, `evaluation/walk_forward.py`) | none: pure functions of the evidence a caller selects | walk-forward evaluation, `run` of the retraining and of the comparison, the operational snapshot | feature rows, official results, the training dataset |
| feature engine, Elo, priors (`features/`) | none | rows of finished seasons, predictors of an upcoming fixture, opening priors | training, lifecycle |
| historical ingestion (`ingestion/manifest.py`, `download.py`, `materialize.py`, `features/materialize.py`, `training/materialize.py`) | the reviewed manifest, raw files, a pair of files per dataset | one command per stage, each running the stages before it | the file system, shared by commands |
| evaluation and artifacts (`evaluation/*_materialize.py`, `test_freeze.py`, `registry/serialization.py`, `artifact_manifest.py`) | evaluation datasets, freeze, assessment, artifact directories | one command per stage | training dataset, registry |
| HTTP API (`api/`) | rate-limit windows | read-only queries | all stores |
| polling policy and CLI (`automation/`), domain values, configuration | none | decide when a read is due; validate | live readers |

What is hard in it: several processes may run one workflow, mutate one registry
entry or read one cache without any lock between them; each load of a journal
is a series of independent SELECTs; a crash or a lost acknowledgement can fall
between any two transactions or file operations; results arrive in an order that
is neither the order of kickoffs nor the order of use; one date-only fixture
regroups a whole day; cached pages expire one by one; what was retrieved
first may be persisted last; a provider's answer can arrive after a later one;
offline commands overlap on one directory, die between the two files of a
dataset, and read inputs that may be replaced between two reads; the league moves
a match while the local fixture list is stale. `PROJECT.json` lists
each hazard at its line with the properties that watch it.

What makes each component correct: the journal is a gap-free prefix backed by
its children and the team state never forks (workflow); no prediction uses what
was not known before its kickoff, and a replacement keeps what the team state it
is built from knew in time (lifecycle);
what callers are told of a registry entry never contradicts (registry); what is
persisted from a read was fresh, complete and free of duplicates (readers); a
request beyond a known quota is an exception that stays bounded (executor); a
provider reference has a history that only progresses and an official score that
never changes (sync); whatever can be loaded was derived from one revision of
its inputs, and running a command again repairs what was torn (offline
pipeline); no model is judged by a match it has learned of (retraining); the
final table is the one the rules of the competition order (simulation, not
modelled).

## 2. Modules

### Post-match workflow

`PostMatchInputs` holds the constants a workflow is about. `Prior[a]`, `Pre[a]`
and `Applied[a]` describe an advancement: its predecessor, the result evidence in
the team state it advances, and the evaluations it applies, each of a prediction
by one observation of a result (`Batch(a)` is that evidence). `AdvancementOf[w]`,
`Regenerations[w]` and `SimulationOf[w]` are what the manifest of workflow `w`
pins. A manifest is identified by all of its children
(`prediction/workflow.py:91-122`), so two manifests may pin one advancement and
differ in what they regenerate from it. The assumption `WorkflowInputs` is what
`advance_team_state` and the payload guarantee: an advancement starts where its
predecessor ends, applies a result once and none of its pre-state, and the
outputs of a payload name its own advancement. `EvaluationsClash`,
`AdvancementsClash` and `OutputsClash` are the unique keys of the child tables.

`PostMatchLedger` is the abstract specification. No process, read or failure
appears in it: a stage's effect is applied after the stage before it is recorded
and before the stage itself is, and advancements extend one chain; a workflow over
an advancement that is applied already leaves the chain alone.

`PostMatchWorkflow` is the code. A runner is a process in one call of
`run_post_match_workflow`; `pc`, `purpose`, `seq`, `found` and `held` are its
place in the call and its locals. Every SELECT of `load` is a step
(`ReadManifest`, `ReadEvent`), because each is issued on a fresh connection, and
every `persist` is one step (`Create`, `WriteChild`, `AppendEvent`), because it
is one serializable transaction. `append` loads again before it writes
(`CheckEvent`), and every write is followed by a load. A call ends "malformed"
when a load raises HISTORY_MALFORMED and "refused" when `append` raises it of the
event it was given. `Admitted` says what the keys and validators of the child
tables let commit: a row that any workflow has stored is verified, a new one must
not clash with those stored and must find the rows it refers to. A fault is a
database error, a transaction whose acknowledgement is lost, or the death of the
process, at any step of a call.

The constant `ShippedTriggers` tells two databases apart. TRUE is f0008 as it is
shipped: its validators raise on every advancement (section 5), so no workflow
gets past that stage. The runs use FALSE, where the keys alone decide, since
everything after the advancement would otherwise be unreachable.

`AdvancementStore` takes `persist` apart for one advancement: `InsertRow` in the
order of `PersistenceTable`, then `RunTrigger` for each queued deferred
trigger, then `Commit`. It says which columns each validator reads of NEW.

### Prediction lifecycle

`PredictionLifecycle` covers feature rows, predictions, state advancement and
regeneration over one clock. Result evidence is a fixture and the instant its
result was retrieved; every poll may retrieve it again (`ObserveResult`), and each
observation is evidence of its own, with the one official result of the fixture.
A prediction is its fixture, its knowledge cutoff
and the evidence behind its features (`known`). `Simultaneous`,
`FixtureBatches` and `ChronologicalBatches` are `chronological_fixture_batches`:
a date with a date-only fixture is one batch. Elo ratings are compared through
the batch sequence they fold: equal sequences give equal tables. `Predict`,
`Advance` and `Regenerate` take any cutoff up to now and any selection of the
evidence with one observation per fixture, so a caller may be arbitrarily late
and choose among observations. An advancement needs an evaluation by the
observation it applies; what it makes stale is decided by result (`Knows`),
whichever observation a prediction knows it by.

### Model registry

`ModelRegistry` is one entry. Event identities are checksums over the event and
the checksum of the event before it, so an event file is modelled as the whole
history of actions it pins; two files of one sequence number are two histories
of one length. `OpenTemporary`, `Replace`, `ReplaceFails` and `LeaveLitter` are
`_atomic_write_new`: in the code `temporary_path` is assigned after the fsync,
so a failed write leaves its file behind just as a crash does. `LoadEntry`,
`LoadDirectory` and `LoadEvents` are the three looks `load_registry_entry` takes
at the directory. The model assumes one artifact root, so the bytes of
`entry.json` follow from the identity of the entry. `request_active_promotion`
loads and then always raises: it is a `read` that reports nothing further.

### Live readers and cache

`LiveRead` is the loop of `CacheAwareLiveFixtureReader.read`, to which
`CacheAwareFinalResultReconciler.reconcile` is identical in control: a cursor
seen before is refused (`RefuseCursor`), the latest cached response known at the
time of the call is used if fresh (`UseCache`), otherwise the provider is asked
(`MissCache`, `Fetch`) and the response stored (`Store`) before its page
joins the collection (`Join`), which refuses repeated fixtures. `Sync` is the
one write. The provider is external: `layout` maps each cursor to a page and may
change at any time (`Relayout`).

### Current-season store

`CurrentSync` is what `CurrentSeasonRepository` persists and what the triggers
of f0005 let commit, for one provider and season. `responses` are the cached
responses, one per request and instant of retrieval; any of them may be persisted
at any later time, again, and in any order. The tables are sets of rows;
a row stands for its deterministic identity, an observation for itself and its
revision, a batch for its members. `FixtureRows`, `StatusRows` and `ResultRows`
are the transforms and write plans, `BatchesOf` is `current_fixture_batches`.
`FixturesStorable`, `ResultsStorable` and `StandingsStorable` say when the
transaction commits: keys hold for all rows of the plan (a row that conflicts is
not inserted and then differs when it is compared), the deferred triggers
(`Chronological`, `ValidBatch`, `Playable`, `ReconciledInStore`) only see rows
that were inserted. A transaction that does not commit changes nothing, which is
the other disjunct of `PersistFixtures` and `PersistResults`. `Never` is a null
time stamp. A read may have several pages (`P` in `SyncFixtures`); pages of one
kind have different instants, and a status poll restates the fixtures of one
fixtures response. A response the transforms refuse as a whole (a finished
fixture in a schedule, an unresolved team, a date outside the season) has no
effect and is left out of the inputs.

### Provider requests

`ProviderExecutor` is `CurrentProviderRequestExecutor.execute` in several
threads over one `ProviderQuotaLedger`. `Begin` is `require_available`, called
once per execution; `Send` and `Receive` are the two ends of one attempt, so an
answer can be overtaken; `Receive` records its quota, whatever its status, and
goes on by `Disposition`, the table of `_response_error` and `_transport_error`;
`Wake` ends a backoff sleep. The provider is external: it admits `Limit` requests
per window of `Window` seconds and says in each answer what is left, naming the
reset by a time, a delay or both. All time stamps are relative and counted down
by `Tick`, which makes the state space finite without a bound on the clock.
`overdrawn` is a ghost: the requests of this window that were answered although
nothing was left.

### Offline pipeline

`DatasetPipeline` is nine commands over one data directory. A file stands for
what determines its bytes, so comparing two checksums is comparing two contents
and a manifest that embeds another embeds its content. `Steps(command)` lists
the file operations of a command in the order of the code: read the historical
manifest, look one entry up again, load a dataset (`LoadFirst`, `LoadSecond`:
two files, two reads), hash a manifest in a read of its own, publish a pair
(`CompareRows`, `CompareManifest`, `WriteRows`, `WriteManifest`), fetch and link
a raw file, write and reload an artifact. One action is one of these operations
of one process; each has the checks the code makes at that moment (`Loads` and
`Passes`), and a check that fails ends the command (`Refused`). `Edit` is a
reviewer who commits another historical manifest, `Crash` the death of a process
between any two operations; a process that dies in an artifact write leaves its
temporary file (`litter`), which makes the directory unloadable. `Content`
computes what a command writes from what it holds; `Ideal` computes what should
be on disk from the historical manifest alone, and `RerunRepairs` compares the
two. `undisturbed` is a ghost naming a command that nothing has overlapped.

### Retraining and comparison

`CandidateRetraining` has the pure workflows of `training/` and
`evaluation/walk_forward.py` as actions, each with any selection of the evidence
that exists. `HistoricalRow` is what the feature engine lets a row of a finished
season know (earlier batches of its season and all seasons before, through the
opening priors and the Elo carryover), `BuildFeature` the same for an upcoming
fixture. A fitted model is the set of examples it was fitted on; whether its
metrics improved is any boolean. The league is external: `Move` changes the
kickoff of a match that has not begun, `SyncFixtures` brings the local list up to
date, `ObserveResult` retrieves a result, possibly again.

### Composition

The workflow module composes the journal with the child stores; the lifecycle
module composes chronology, features and operations. The child writes of the
workflow persist what the lifecycle computes: `Pre[a]` and `Batch(a)` of the
former are a `Ledger(i)` and the batch `applied[i + 1]` of the latter, its outputs
are what `Regenerate` returns. The live readers fill
the cache that is `responses` in `CurrentSync` and choose the pages of its reads;
its official results are what `ObserveResult` of the lifecycle observes.
`LiveRead` treats a provider request as one step (`Fetch`) that succeeds or
fails; `ProviderExecutor` is what happens inside that step. Within
`DatasetPipeline` all offline stages are composed: each stage reads what the
others have left on disk. Its feature rows and examples are the `HistoricalRow`s
of `CandidateRetraining`, whose upcoming features and results are those of
`PredictionLifecycle`.

## 3. Runs

| run | instance | checks |
|---|---|---|
| `workflow` | 2 runners, 3 workflows over 3 advancements of which one forks from another, 1 fault | types, journal, backing, one chain of team states, completion, refinement of `PostMatchLedger` |
| `workflow_retries` | 2 runners, 2 workflows over one advancement, 1 fault, fair callers | every workflow completes or is superseded |
| `advancement_store` | a batch of at most 2 fixtures, 2 teams | violated: canonical rows are accepted |
| `lifecycle` | 4 fixtures on 3 days, one date-only, two results polled twice | types, no lookahead, replay, replacements know their batch and keep the state |
| `registry` | 2 processes, 2 rejection reasons | types, grounded events, agreement of reports, own events |
| `registry_fork` | the same | violated: the history is a chain |
| `live_read` | 2 readers, 3 layouts of 2 fixtures on 2 pages, a TTL of one tick | types, freshness, caching, duplicates, completeness, termination |
| `current_sync` | 2 references, 2 fixtures, 4 schedules, 5 responses, 3 instants | types, histories, scores, results on fixtures, retries, batches, tables |
| `provider` | 2 threads, 2 attempts, 2 requests per window of 3 seconds, delays capped at 2 | requests beyond the quota are bounded, executions end |
| `provider_reopened` | the same | violated: an exhausted capability stays blocked until its reset |
| `pipeline` | 2 processes, 2 seasons, 3 revisions, 1 edit, 1 crash | one revision per chain, one training per comparison, whole artifacts, repair by a rerun, immutable raw files |
| `retraining` | 4 seasons and 2 upcoming matches, of which one kickoff may move | no model knows its holdout, features precede their matches |

Bounds. The workflows of `MCPostMatchWorkflow` give every relation of two
manifests: `first` and `again` pin one advancement (the later finds it stored,
verifies it, and regenerates other outputs from it), `second` builds on it, and
`rival` forks the chain: it starts from the empty state as `first` does, with the
result of `second` and a later observation of it, so that it clashes with `first`
by the pre-state and with `second` by evaluation and by result. `workflow` has
`first`, `second` and `rival`; `workflow_retries` has `first` and `again`, and is
the run in which two manifests share an advancement (the theorems of section 4
cover any number of sharing manifests in any chain). Two runners give
every race the journal has, since a step of one runner conflicts with
at most one other row of one other runner; `MaxFaults` = 1 lets each step fail
once, and a crashed runner may start again without limit. The runs have
1,195,822 (`workflow`) and 739,806 (`workflow_retries`) distinct states.

In `lifecycle`,
fixture 1 is date-only and absorbs fixture 2; fixtures 3 and 4 have days of
their own; `Snapshots` are the cutoffs callers may name, `Polls[f]` are the
instants at which a poll may retrieve the result of f (none for the last
fixture, whose predictions are the ones to be replaced), `MaxTime` and
`MaxPredictions` end the run, which is why it does not check for deadlock. It has
36,292 states. Replacements that forget something are among them: a prediction
with cutoff 4 knows the result of fixture 1 as retrieved at 3, the first
advancement applies the observation of 6, the second applies the result of
fixture 3 retrieved at 5, and a replacement made for it has cutoff 5. A third
poll or a longer calendar adds observations but no other order of an observation
known, one applied and a cutoff between them.

In `registry`, histories have at most three events, so two processes already
meet every pair of mutations; no bound is needed. In `live_read` the clock has
two instants, one TTL apart: enough for an entry to be fresh for one read and
stale for the next and for an entry to be stored after the time a read was
called with. Its layouts can lose a fixture, repeat one, list nothing, and lead
a read in a circle. The system may rest there with an exhausted clock. In `current_sync` the schedules hold a date-only fixture with
an exact one of its date, an abandonment, a page of the other fixture alone and a
reference used for another fixture; the result lists hold two scores of one
fixture. Five responses are a schedule, a later one, a result, its correction and
a table, at three instants: before, at and after one another. A response can
always be persisted again, so the run checks for deadlock.

In `provider` two requests per window and two threads of two attempts are enough
for each thread to hold a late answer that reopens the capability for both; the
window outlasts the longest sleep, so it ends while a thread sleeps, sends or
waits. A provider may ask for a delay of 3 seconds, which `MaximumDelay` cuts to 2.
Time is relative, nothing else is bounded, and the run checks for
deadlock. It has 130,999 states.

In `pipeline` two seasons give one chain of two links, where the second depends on
the first; the test season is the last one. The second revision moves season 1
to another file, the third gives its first file other bytes. Earlier commands
left nothing, or everything of another revision with an older assessment. The
first process may run the download, tuning, advanced and artifact commands (the
last runs all stages before it), the second the download or the base evaluation,
so every pair of file operations of two commands meets. `MaxStarts` = 2,
`MaxEdits` = 1 and `MaxCrashes` = 1 bound the run, which ends when the commands
do: it does not check for deadlock. It has 359,134 states.

In `retraining` one development season has a date-only fixture that shares its
date with another, one season is sealed, and two upcoming matches have three
kickoff times of which two follow each other at once. Each match may be polled
twice, three feature rows, one candidate, one report and one snapshot may be
built: a candidate trained on one match and judged by the other is the case all
properties are about. The run ends at `MaxTime`. It has 55,951 states.

Symmetry is used for runners, processes and reasons, in runs without liveness
properties.

Fairness. `FairSpec` of `PostMatchWorkflow` makes a call that has started run on
(`WF` of `Step`: every statement of a call terminates, database statements by
failing if need be) and makes a caller call again and again (`SF` of
`StartRun`). The repository has no scheduler; the second assumption is what
STAGE_INTERRUPTED asks of the caller, and the property is worth what that
caller does: it must also call again after a HISTORY_MALFORMED that a race
of two runners has caused (section 5). `FairSpec` of `LiveRead` is `WF` of each reader's steps:
provider requests have a timeout of at most 60 seconds and a bounded number of
attempts. `Spec` of `ProviderExecutor` is `WF` of time and of each thread's steps
within an execution, for the same reason; nobody has to ask again. No fairness is
assumed of failures, of new calls, or of ticks elsewhere.

## 4. Proofs

Each of the eight proof modules extends the module it is about:
`PostMatchProofs` (`PostMatchWorkflow`), `LifecycleProofs`
(`PredictionLifecycle`), `RegistryProofs`, `CurrentSyncProofs`, `LiveReadProofs`,
`RetrainingProofs` (`CandidateRetraining`), `ProviderProofs`
(`ProviderExecutor`) and `PipelineProofs` (`DatasetPipeline`). Each states an
inductive invariant, proves it of every behaviour, and derives the properties
from it; `PROJECT.json` lists the theorems with the properties they state.

*Workflow.* The inductive invariant `IInv` is the type invariant, `DatabaseInv`
and `RunnerKnows(r)` for each runner. `RunnerKnows` says that what a runner has
`found` and `held` is in the database, and that the child of the event it is
about to append is. It makes the rest inductive: a write is justified by what
its runner read earlier, and rows never go away. `DatabaseInv` is the prefix, the
backing, the order of children, and `ChainOf` of the stored advancements (not of
the workflows that stored them, of which an advancement may have several): they
are pairwise ordered, start from different states, and wherever one lies below
another, one starts where it ends. `OperationalStateNeverForks` alone is not
inductive: the foreign key only says that some stored advancement ends where the
new one starts (`StartsAtAnEnd`), and it takes the third part of `ChainOf` to see
that this is the last one (`ChainExtends`). A child write adds its advancement or
finds it there (`StoreGrows`). The refinement follows from the same invariant:
every transaction is a step of the ledger (`StepIsTransaction`, `LedgerStep`),
every other step a stutter.

*Lifecycle.* `LInv` adds to `NoLookahead` that results are retrieved after
kickoff (`ResultsFollowKickoff`) and that an advancement applies observations
(`BatchesAreObserved`), and states of every stored regeneration
(`Supersessions`) that it passes the deferred check and what it may forget
(`Keeps`). A replacement knows its whole batch because
`AppliedAt` is the latest retrieval of the batch (`AppliedAtIsLatest`, from the
least-number principle) and its cutoff is no earlier. An observation of the
ledger that a replacement does not know was retrieved after its cutoff, hence not
with the batch it was made for: an earlier advancement applied it. The calendar and the number
of polls are arbitrary: `observed` only grows, and evidence carries the instant
of its retrieval, so a stored prediction stays honest whatever is observed later.
`LedgersReplay` is about the order of batches: the
batches of any set of fixtures are classes (`BatchesAreClasses`) and totally
ordered (`BatchesAreOrdered`, where days are compared through kickoffs), so
exactly one has all the others before it, which is the last of the sorted
batches (`LastBatchIsLatest`). A batch that is the last of the ledger it joins
leaves the other batches as they are (`LaterBatchKeepsBatches`: a date-only
fixture of the new batch that shared a day with an old one would have put both
into one batch). The invariant `Ordered`, that the applied batches are those of
the ledger in their order, is kept for this reason, and the sorted batches of
such a ledger are the applied ones (`OrderedReplays`, by counting the batches
before each).

*Registry.* `RInv` joins `WriterKnows(p)` (the history a writer goes on from is
in the directory, and what it writes may follow it) and `ReportsAreFiled`
(every history ever returned is in the directory) to the properties. The last
is why reports agree: a load returns only when the directory is one chain, and
all earlier reports are in it.

*Current-season store.* `SInv` joins four facts to the properties.
`ResponsesKnown`: a request and an instant name one response. `Provenance`: every
row of a fixtures or results response was read from a retrieved one.
`NewestExists`: a reference that has observations has a newest one, which is what
lets a check against the latest row speak for the whole history (with
`FollowsTransitive`). `ResultKeys`: one result row per reference and instant.
`StoredResponsesReplay` is part of the induction, since a later transaction could
make a stored response conflict. `PlannedBatchesValidate` follows from the first
two: rows of the same instant were read from the same response, so a batch of
whole responses misses nothing (`WholeBatches`). The proofs hold for any
responses, references, fixtures and leagues.

*Live readers.* `ReadInv` says of a running read that its pages are cached, were
fresh when it was called, share no fixture, and lead from the first page to
the cursor it is at (`FollowedTo`): every next cursor of a page collected was
itself collected, and a layout that all pages come from lists no more than
the collection holds. Reaching the end turns this into `Whole`
(`FollowToEnd`), from which completeness follows, since `Listed` is the least
set of cursors closed under a layout. Freshness is that of the time of the call:
pages that expire while a read goes on do not spoil it.

*Retraining.* `TInv` says of every result that it was retrieved after the
kickoff it names, which is final by then (a played match does not move); of
every upcoming row that it precedes the kickoff it was told and knows only
results retrieved by its cutoff (`FeatureTimely`); of every candidate that it was
fitted on finished development seasons and sound pairs; of every report that its
rows were cut off after all the results the candidate knew
(`KnowledgeCutoffIsLatest`). No model knows its holdout because a fixture a
candidate learned of has a result retrieved before the cutoff of a row that
precedes the kickoff of the same fixture, which is absurd.

*Provider.* `PInv` is a count. An answer is late if it was sent before the quota
ran out and, once recorded, would reopen the capability. While nothing is left,
`overdrawn`, the credits of the threads that hold no late answer (`Credit`: the
attempts an execution has left, or a whole execution while the ledger is open)
and, for n late answers, `MaximumAttempts * Pairs(n)` together never exceed
`OverdrawBound`. Recording a late answer lets in one execution of each thread
that holds none (`WorthOpens`), recording an exhausted one takes those
executions back (`WorthCloses`), and an answered request spends a credit
(`WorthSpent`). The theorem holds for any number of threads and attempts, any
limit and window. Backoff times do not matter to it.

*Offline pipeline.* Three invariants. `StoreInv` says which components of an
artifact a process has put in place before it writes the next one, whence
`ArtifactsAreWhole`; `RawIsImmutable` follows from the effect of each step
(`StepsHaveEffects`). `ReadsInv` says what a command holds at each place:
`Steps` is a concatenation of blocks per season, so the layout lemmas
(`FeatureLayout`, `TrainingLayout`, `Tails`, `CommandLayout`) first locate every
operation, by a place within the training stages (`TrainingPlace`,
`FeaturePlace`) or the assessment (`AssessmentPlace`). `Knows(c, i, l)` then
states what the locals `l` of a command that has reached place `i` satisfy: the
checksum or lineage of each season loaded so far is that of its own copy of the
historical manifest (`Featured`, `Trained`), and each check of the evaluations
that has passed still holds (`Assessed`, `Tuned`), although files may have been
replaced since. `DiskReads` is what that makes true of the manifests on disk. It
must say of a single manifest what the properties say of an intact pair, because
the two files are read and replaced one at a time.

`RepairInv` carries `RerunRepairs`. Of a job nothing has overlapped it says that
no other job runs and that it is `Repairing`: the datasets it has published are
those of `Ideal(historical)` (`Holding`), what it has read and not dropped by a
return is still held and is what the files hold (`Holding`, `Remembering`), and
the checks passed since the last publication hold of the files themselves
(`ReadBack`, `Sees`). The last part is what an assessment needs: the evaluations
it compares belong to other commands, and only the chain of its checks, from the
training it has just published through the tuning and the freeze, shows that
they are those of this revision (`AdvancedPublishes`, `AssessmentPublishes`).
Operations are named by what stands before them, `Kept(q, i, o, X)`: operation o
comes before place i, and nothing in between publishes a dataset of X, which is
where a function returns and its locals are gone. `CommandSupplied` and
`CommandChecked` prove once, for all nine commands, that whatever an operation
needs is `Kept` there; `PublishesIdeal` then gives the content of each
publication and `StepProgress` the invariant. That a command of `SelfContained`
is not refused (`NeverRefused`) follows because its reads are all of datasets it
has published itself. `Shapes` is needed beside it: a tuning left on disk has
the fields of its kind, whichever earlier command wrote it.

The proofs hold for any number of processes, seasons, revisions, edits and
crashes.

Assumptions are the named ASSUMEs of the modules (`WorkflowInputs`,
`RunnerInputs`, `Calendar`, `RegistryInputs`, `ReadInputs`, `SyncInputs`,
`ProviderAssumption`, `PipelineAssumption`, `NoneIsNoContent`,
`RetrainingAssumption`); TLC evaluates them on every run of a module that
extends theirs. `NoneIsNoContent` says that the value standing for an absent file
is not also the content of a dataset.

Only model-checked: `RetriesComplete`, `ReadsEnd` and `ExecutionsEnd`, since
liveness under fairness is beyond TLAPS here, as is ENABLED. Every invariant and
action property of a passing run has a theorem. No module declares a RECURSIVE
operator.

## 5. Findings

1. *Validators of f0008* (`advancement_store`). The triggers of child tables run
   a validator that reads columns of NEW their table does not have; every
   advancement rolls back. Behind it waits a second disagreement: the validator
   numbers applied results by fixture identity, the planner by kickoff and
   identity.
2. *Forked registry history* (`registry_fork`). Two mutations from one head both
   write a successor; the entry is then unreadable, where
   `docs/models/model-artifacts.md:225-226` promises a gap-free sequence.
3. *Reopened capability* (`provider_reopened`). The quota ledger keeps the answer
   recorded last: a delayed answer with quota left overwrites an exhausted
   observation, and the capability is open before the reset it declared, which
   `docs/data/current-provider-integration.md:67-71` rules out.
   `OverdrawIsBounded` says how many requests this can let through.

HISTORY_MALFORMED of a valid journal. `docs/architecture/decisions.md:1142-1144`
tells malformed history apart from retryable interruption. Two races of two
runners of one workflow blur the two, without a fault:

- *Torn load* (`persistence/post_match_workflow.py:236`; the end "malformed"). A
  load finds the row of sequence 1 missing, another runner appends the events 1
  and 2, and the load finds the row of sequence 2: "an event after a gap".
- *Overtaken append* (`persistence/post_match_workflow.py:288`; the end
  "refused"). Two runners have written the children of one stage; the one that
  appends second reads a complete prefix that already holds its event: "not the
  next canonical checkpoint".

In both the journal is a valid prefix at every moment (`JournalIsPrefix`) and
calling again resumes (`RetriesComplete`, whose callers do). No run has these as
a violated property: the documents name the four failures and do not say what a
race may report.

Known limitations that contradict no document, met while modelling:

- Pages of different ages are joined (`live_fixtures.py:162`, `:244`): if the
  provider's layout changes in between, a fixture that moved can be missing from
  the collection. `SettledReadsAreComplete` and `OnePagePerFixture` say what holds.
- The result trigger looks at the fixture observations stored so far and the
  fixture trigger at no result (f0005:491): an abandonment retrieved before a
  result and persisted after it stands beside the result.
- Every transport error is retried, also a malformed response
  (`current_client.py:485`).
- "Retry-After: 0" leaves `execute` as a ValueError (`current_client.py:192`).
- A rejection that was committed and not acknowledged raises when repeated
  (`registry.py:474`). A temporary file left in an artifact directory makes it
  unloadable until it is removed (`serialization.py:250`).
- An evaluation is one per prediction and result, whichever observation it names
  (f0007:334). A workflow whose evaluation names another observation than the one
  stored can never complete; its caller sees interruptions and may retry for
  ever. `RetriesComplete` counts it as superseded.
- Two advancements may each replace the same prior prediction (f0008:370), and a
  replacement is built from the ledger of its advancement alone, by the
  observations applied there (`operations.py:285`, `lifecycle.py:114`): results
  its predecessor knew that were not applied are forgotten, and so is an applied
  one that the predecessor knew by an earlier observation, if the observation
  applied was retrieved after the replacement's cutoff. `SupersessionKeepsState`
  says that nothing else of the team state is, and that this takes an earlier
  advancement dated after the replacement's cutoff.
- `historical_manifest_sha256` of a training dataset is hashed when its examples
  are complete (`training/materialize.py:454`): after an edit in between it names
  another revision than the one the seasons come from. The chain of a feature
  dataset that another command wrote may be that of another revision too; its
  own season is checked (`TrainingFromOneRevision`).

## 6. Not modelled

Numerical code (Elo values, model fitting, calibration, sampling, metrics):
sequential, floating point, and reproducible by its own checksums. CSV parsing
and normalization: pure functions of a raw file. Byte-level canonical JSON and
checksums: identities are assumed to be injective. HTTP transport, logging,
configuration and the CLI. The polling policy is a pure function of kickoff
times and the clock. Squads repeat the pattern of the other synchronizations on
data no modelled component reads back. The season table and the simulation are
pure functions of results and draws. The API is read-only; its rate limiter is
counters of one thread. Active models: no registry entry can become active in
this version, so predictions are modelled for the day one can.

Simplifications inside the models: `PostMatchInputs` has one season with one
table of initial ratings, so a team state is the evidence in it; the workflow
leaves the cutoffs of regenerated predictions and the deferred check of a
regeneration to `PredictionLifecycle`; kickoffs are constant in
`PredictionLifecycle` (they move in `CurrentSync` and `CandidateRetraining`), and
an official result has one value there (corrections are `CurrentSync`'s);
`CandidateRetraining` has one baseline, takes the time a row is built as its
cutoff, and fixes the calendars of finished seasons; `ProviderExecutor` counts
only requests that were answered as overdrawn, and lets every answer state the
quota, which a transport may do and `UrllibProviderTransport` does not; `DatasetPipeline` leaves out fsync and read errors,
which end a command like a refusal does.

## 7. Plan

What is left, in this order:

1. An abstract specification of the registry entry (an append-only history) that
   `ModelRegistry` implements as long as no fork exists.
2. `SeasonTable`: accumulation of results and ranking against a reference order.
