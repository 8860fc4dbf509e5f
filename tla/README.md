# A TLA+ model of recruitmatch-copilot

RecruitMatch is a multi-tenant recruiting service: recruiters upload résumés and
knowledge documents, Celery workers parse them and index them as vector chunks in
PostgreSQL, and a matching pipeline ranks candidates for a job and explains the
ranking with citations. Its correctness lies less in any one of these than in
what happens between them: the object store and the broker are not part of the
database's transactions, workers die, messages are lost and delivered twice, and a
privacy deletion may arrive in the middle of everything else. This directory models
that part, and with it the rules by which model output is believed and jobs are ranked.

- [1 The system](#1-the-system): components, their state, how they interact
- [2 Modules](#2-modules): what each models and how it corresponds to the code
- [3 Runs](#3-runs): what TLC checks, bounds, fairness
- [4 Proofs](#4-proofs): what TLAPS proves, from what
- [5 Not modelled](#5-not-modelled), and [6 what could follow](#6-what-could-follow)
- [7 Observations](#7-observations) made while modelling

Run `tlc -config lease_core.cfg SourceLease.tla` and `tlapm SourceLeaseProofs.tla`;
`PROJECT.json` lists every run, the definition-to-source map, the seeded defects that
each property detects, the hazards and the theorems.

## 1 The system

Paths are below `src/app/`. "Row" is a `Source`: a row of `resumes` or of
`knowledge_documents`; the two carry the same lease columns and go through the same
code with different status names.

| Component | State | Operations | Hard behaviour | What makes it correct |
|---|---|---|---|---|
| Processing lease (`processing/leases.py`, `retry.py`, `renewal.py`) | status, attempts, epoch, owner, expiry, `next_retry_at`, `queued_at` of a row | claim, renew, finalize, fail, schedule retry | takeover of an expired lease whose holder still runs; late renewals | one live holder; epochs fence out old holders; a bounded budget |
| Recovery (`processing/recovery*.py`, `tasks/beat.py`) | dispatch token, pacing and error on the row; the scanner's page | select candidates, reserve, dispatch, note a failed dispatch | pages read without a lock, two scanners, Beat restarted, more rows than fit on a page | one reservation per snapshot; nothing unfinished is forgotten, and nobody starves |
| Processors (`services/*_processing.py`) | their lease, parsed text, chunks | process one delivery | timeouts, storage faults, lost lease in mid-attempt | only the holder publishes |
| Worker and broker (`tasks/`) | messages, countdown retries | deliver, retry, redeliver | loss, duplication, early delivery, hard kill | no effect without a claim |
| Upload, deletion, operators (`services/resumes.py`, `knowledge_documents.py`, `source_index_backfill.py`) | Source and Artifact rows | upload, delete, reindex, deactivate, backfill | object stored between two commits; deletion meanwhile | deletion wins and is final |
| Artifact lifecycle (`artifacts/cleanup.py`, `repositories/artifacts.py`, `services/artifact_reconciliation.py`) | Artifact status; tombstones; maintenance cursors | claim, publish, fail, withdraw, clean up, reconcile | puts that arrive after the delete; overlapping cleanups | what is offered is stored; what is withdrawn is erased for good |
| Index generations (`retrieval/generations.py`, `indexing.py`) | generations of chunks, the active one | stage, activate, fail, reconcile | two attempts staging one target; backfill without a lease | readers see one whole generation, and of what is erased none |
| Matching and privacy guard (`services/matching.py`, `feedback.py`) | results, feedback, the tenant's guard lock | match, delete, give feedback | a slow match against a deletion; locks of requests against foreign keys of workers | no result outlives the data it was made from; nobody waits in a circle |
| Jobs (`services/jobs.py`) | job versions, publication | create, edit, publish | concurrent edits without a lock | versions are consecutive and immutable, no edit is lost |
| Model gateway (`ai/`) | traces of calls | generate, repair, validate, fall back | timeout, retry, invalid output; an index that changes while a model answers | only cited evidence is shown; traces and results agree |
| Heartbeats and health (`operations/`) | expiring keys in Redis; gauges | pulse, snapshot, poll | late pulses, stopped processes, failing scans | no dead component is reported healthy for long, no living one as dead |
| Scoring (`matching/`) | none | rank by rules, combine with models | ties, weights, scores withdrawn after the ranking | the best are stored; models do not overrule rules |
| Chunking, evaluation (`knowledge/`, `evaluation/`) | none | pure functions | – | – |
| API, tokens, telemetry, web | none of their own | routing, formatting | – | – |

They interact through the row: an **upload** commits Source and Artifact, stores the object,
commits again and publishes a Celery task; a **worker** claims the row, renews its lease from a
second thread while it works, and concludes in one transaction that holds the row lock; the
**Beat scanner** finds rows whose message or worker is gone, reserves them and publishes a task
again; the **maintenance** task, scheduled every minute, compares Artifact rows with the store,
a page of each lane of one tenant at a time; **operators** reopen, deactivate and delete rows
at any time. Messages carry an id only, so the row alone decides what a delivery may do. A
worker publishes a generation of chunks in the transaction that concludes its lease. A
**match** holds the tenant's privacy guard and the résumé's row from its first read to its
commit, while searches, citation lookups and the sink of model traces run in transactions of
their own beside it.

## 2 Modules

| Module | Content |
|---|---|
| `LeaseContract` | abstract: who may work on a Source, under which epoch, and whose data is stored |
| `SourceLease` | the row with workers, broker, scanners, requests, operators and time |
| `ArtifactContract` | abstract: which copy of a file is held, offered, withdrawn, and what is kept of it |
| `ArtifactLifecycle` | Artifact rows and objects with requests, deletions, maintenance and a store that fails and lags |
| `PublishedIndex` | abstract: which generation of a Source's chunks readers see |
| `IndexGenerations` | generations staged, activated and erased by leased attempts, requests and backfills |
| `MatchPrivacy` | matches, feedback and deletions of a tenant under its guard, with publications beside them |
| `ResumeParsing` | one résumé through gateway, repair, grounding, merge and publication |
| `GroundedGuidance` | score and explanation of one recommendation while the index changes |
| `JobCatalogue` | one job under concurrent edits, publications and matches |
| `OperationsHealth` | heartbeats, the health report, the gauges of Beat |
| `HybridRanking` | scores by rules and models, the order of jobs, the cut |
| `RecoveryPaging`, `MaintenanceCursors` | which rows a bounded scan takes, and who waits behind whom |
| `BeatTurns` | the two scans composed under the ticks of Beat |
| `MCHybridRanking`, `MCBeatTurns`, `MCMatchPrivacy` | values and a symmetry TLC needs that a configuration cannot write |
| `…Proofs` | theorems: `SourceLeaseProofs`, `ArtifactLifecycleProofs`, `IndexGenerationsProofs`, `MatchPrivacyProofs`, `ResumeParsingProofs`, `GroundedGuidanceProofs`, `JobsProofs` (`JobCatalogue`, `HybridRanking`), `BeatProofs` (`OperationsHealth`, `BeatTurns`) |

`BeatTurns` instantiates the two paging modules and drives their actions. The other
modules meet in their interfaces: `IndexGenerations` keeps of `SourceLease` the epoch and
whether the lease runs, `SourceLease` keeps of `ArtifactLifecycle` the states of
`ArtifactContract`, `MatchPrivacy` and `GroundedGuidance` keep of `IndexGenerations` what
`PublishedIndex` says readers see (for `MatchPrivacy` this is a theorem: both implement it).

Definitions preceded by a comment "Defect: …" are not part of the model: each is a
plausible bug in the definition it stands before, and one property detects it
(`mutants` in `PROJECT.json`).

### SourceLease

*Granularity.* Every transaction of the code that changes a row locks it first and reads
it again, so a transaction is one action. `clock_timestamp()` is sampled under that lock
(`LeaseRepository._now`), so it reads one instant. Work between transactions is what
may interleave, and is not an action but a value of `job`, `scan`, `resv`, `sending`,
`uploading` or `renewals`.

*Time* is kept as what is left of each interval: `ttl` for `processing_lease_expires_at`,
`retry` for `next_retry_at` (−1 is NULL), `cool` for the pacing after
`recovery_dispatch_at`, and `age` for the distance of `queued_at` (which only counts up to
the age at which it is stale). `Tick` lets a unit pass. The moment of `queued_at` itself
identifies a stay in the queue (`cycle`), which is what snapshots compare.

| Code | Model |
|---|---|
| `leases.py` `claim` 91–147 | `ClaimLease`, `ClaimExhausted`, `ClaimRefused` |
| `renew` 258–268 with `LeaseRenewer` | `StartRenewal`, `FinishRenewal` (may take effect after its processor is gone) |
| `finalize_owned`, `finalize` | `Publish` |
| `fail`, `schedule_retry` through `finish_failed_attempt` | `FailPermanent`, `FailTransient` |
| loss of ownership, unreachable database, unexpected fault | `Abandon`; worker killed: `Crash` |
| `celery_app._deliver` and its countdown retry | `Republish`, `RepublishFailed`, `DropMessage`, `DuplicateDelivery` |
| `recovery.run_once`, `recovery_repository` | `Select`, `ReserveSkip`, `ReserveExhausted`, `Reserve`, `Dispatch`, `DispatchFailed`, `RestartScanner` |
| `_upload`, `_dispatch` of both services | `PublishUpload`, `FailUpload`, `AbandonUpload`, `SendTask`, `SendTaskFailed` |
| reconciliation's effect on a row | `RepairUpload`, `InvalidateUpload` |
| `reindex`, backfill, `deactivate`, `delete` | `Reopen`, `Deactivate`, `Delete` |

Both kinds of rows are in one module; `KnowledgeDocuments` says which rows take the knowledge
service's paths. `result` is the epoch of the attempt that wrote the derived data: it makes
fencing visible. `dispatchErr` is the reservation a recorded dispatch failure is about;
`StillReserved` is what `dispatch_failed` asks before it records one.

Abstractions, each towards more behaviours unless noted: a worker's name stands for the
owner token of all its claims (the code draws a fresh uuid each time, so only epoch
fences one attempt of a worker from its next); `ensure_owned` and the lost flag are not
state, a worker may `Abandon` at any time; the grace period of the reconciliation is not
timed; a skipped lock is a `ReserveSkip`; a scanner's page holds all candidates (the
batch limit and its order are `RecoveryPaging`); at most `MaxRenewals` renewals are under way at a
time; recovery tokens are taken from a finite set and reused only when
nobody knows them any more (`FreshTokens`).

### ArtifactLifecycle

One instance is one file of one tenant and owner type, `Sources` the rows its uploads
may create: uploads of different files never meet, because the unique index that
arbitrates them is on the checksum. A transaction locks the Source, then its Artifact,
and is one action; a store call is an action between two of them. botocore repeats a
call once and gives up after ten seconds, so a put or delete may linger (`late`) after
its client went on, and take effect at any later time or never.

| Code | Model |
|---|---|
| `claim_upload` and the first commit of `_upload` | `ClaimUpload` (a loser changes nothing) |
| `S3ArtifactStore.put`, `delete` | `PutSucceeds`, `PutFails`, `DeleteSucceeds`, `DeleteFails`, `LateCall` |
| second transaction of `_upload` | `PublishUpload`, `CompensateUpload`, `RejectUpload`, `LeaveUpload` |
| `delete` of both services | `DeleteSource` |
| `cleanup_location` | `OpenCleanup`, the store call, `RecordCleanup` |
| `reserve_reconciliation_batch`, `run_once` | `ReserveBatch`, `Inspect`, `InspectUnavailable`, `Revisit` |
| `_repair` | `RepairUpload`, `InvalidateUpload`, `SkipRepair` |
| a process dies or loses the database | `Crash`, between any two steps |

Left out: the error code kept with an Artifact; damage to a stored object (so "size or
checksum differs" means "missing"); the five-minute grace, so that a repair may meet an
upload at any point. A batch holds every entry; its cursors are `MaintenanceCursors`.
`SourceLease` sees of all this the four artifact states of `ArtifactContract`.

### IndexGenerations

A transaction of `GenerationWriter` locks the Source, so it is one action. The chunks that
a Source is cut into are the same for every attempt, since its text is immutable, and
they are written, flipped and deleted together: a generation is there or not, and carries
the model it was embedded with and the epoch it was written under. Embedding happens
between transactions, without a lock. A lease may lapse at any point (`Lapse`), so
an attempt may come back to find a successor, an operator or a deletion has been there.

| Code | Model |
|---|---|
| both processors, `process` | `Claim`, `Parse`, `ReconcileStaging`, `Stage`, `Publish`, `PublishUnindexed`, `DocumentFails`, `AttemptFails` |
| `GenerationWriter.stage`, its exact replay, `activate` | `StageAllowed`, `Replays`, `StageRows`; `ActivateAllowed`, `Flipped`, `Activate` |
| `fail`, `reconcile_staging` | `RecordFailure`, `WithoutStaging` |
| `SourceIndexer.index` for job versions, by requests and backfills | `ReadVersion`, `StageVersion`, `StageRefused`, `VersionEmbeddingFails`, `ActivateVersion`, `ActivateRefused`, `FailVersion` |
| reindex and backfill; `deactivate`; `delete` | `Reopen`; `Deactivate`; `Delete` |
| predicates of `search` and `resolve_active_citations` | `Visible` |

`PublishedIndex` has `version` (the pointer), `offered` (the generations a search can
return) and `open`: a publication replaces one whole generation by the next.

### MatchPrivacy

Requests and publications are transactions; what they lock is state: `guard` (the NO KEY
UPDATE lock of `lock_privacy_guard`), `locked` (row locks of Sources) and `sharing` (the
KEY SHARE locks that foreign keys to the tenant take). What a request has read is in
`request`, and what it writes appears when it commits. The foreign keys of `match_results` and
`feedback` to a job version (`models/matching.py:55`, 91) need its row too, which an indexer
holds FOR UPDATE while it publishes: the last step of a match or a feedback waits for it
(`MayStore`, `VersionIsFree`).

| Code | Model |
|---|---|
| `MatchingService._run` | `TakeGuard`, `LockResume`, `ReadScope`, `Rank`, `Explain`, `Resolve`, `CommitMatch`, `Refuse` |
| `FeedbackService.submit`, which may name a job version | `TakeGuard`, `ReadResult`, `CommitFeedback` |
| `delete` of both services with `scrub_private_results` | `TakeGuard`, `LockErased`, `CommitErasure` |
| activation under a lease, with its foreign keys | `LockPublication`, `ShareTenant`, `CommitPublication`, `AbortPublication` |
| backfill, `deactivate`, job publication | `Reopen`, `Deactivate`, `Activate` |

The text a result stores is the set of Sources it may owe words to: whatever the model was
shown, cited or not. One claim stands for all. Sources other than résumés are indexed once.

### ResumeParsing and GroundedGuidance

`ResumeParsing` is one résumé and the processes that claim it in turn; each call to the
provider is one action (`Answer`, `InvalidOutput`, `PermanentError`, `TransientError`),
with the gateway's retries (`MayRetry`), the parser's one repair (`MayRepair`), the fall
back to the rules, grounding (`Grounded`, `SoundSkills`), the merge (`Merged`) and the
transaction that publishes profile and trace (`Publish`). Of the texts it keeps only
whether a piece of evidence resolves; `Readable` is the check of a stored profile that an
index-only attempt relies on.

`GroundedGuidance` is one recommendation of `_add_grounded_guidance`: `ShowPair`, `Judge`
and `Confirm` are `SemanticMatcher.score`; `Show`, `Explain` and `Validate` are
`GroundedExplanationService.generate`, which keeps the model's `answer` beside the `claims` that
stood up to validation; `Resolve` and `ResolveFails` are the last lookup
(`matching.py:226`), whose outcome is `resolved`, and `Store` is the commit of the whole match
(106–135), which comes after the searches, calls and lookups of all other recommendations.
Between any two, job versions and documents may be indexed anew or withdrawn (`Reindex`,
`Withdraw`); the résumé may not, since the match holds its row (`MatchPrivacy`). Models may
answer with any chunk of any Source, so a foreign, a stale and a one-sided citation all
occur. Each call may fail, and so may each lookup and each trace.

### JobCatalogue, HybridRanking

`JobCatalogue` reads the row of the job and its versions in two statements (`ReadJob`,
`ReadVersions`), between which and after which others commit; the number of the new version is
what was read plus one, and `Free` is the unique constraint. In `HybridRanking` scores are in
units of the fourth decimal, to which the code rounds to the nearest, weights in tenths.
Nothing checks the numbers in a job's profile: weights and the required years are any integers
here, and years of a résumé may be negative, since a model may say so; a share or a score
beyond its range is refused by `DimensionScores` or `MatchRecommendation`, which ends the
match; `Coverage`, `Experience`, `RuleScore` and `Combined` follow `engine.py` and `hybrid.py`,
`StoreHybrid` ranks once more after `_add_grounded_guidance` withdrew scores. An order of jobs
(`RuleOrder`, `TotalOrder`) is the set of its pairs, and a job's `Place` one more than the jobs
before it. Names of skills are equal if their `Key`s are.

### OperationsHealth

Time passes in units (`Clock`); ages of heartbeats, of the commands that Redis has still to
execute (`stuck`), of gauges and of what really happened (`history`) grow with it. A pulse that
its client gave up may be executed later (`Late`) or never (`Drop`). `BeginPulse`, `EndPulse`,
`PulseFails`, `StopWorker`, `KillWorker` are the worker's bootstep, whose lock is `MayStop`;
`Scan` to `Poll` are the steps of `RecoveryScheduler.tick`, `BeatEnds` its process. Of each
family `gauge` is what is shown and `history.poll` what was last measured; a `Poll` sets both,
so what `ShownIsMeasured` checks is everything else: polls that fail, values that are replaced
or expire, and a Beat that starts again. The run has one family, and that the failure of one
leaves the others alone is in the theorem `ShownAreMeasured`. `Ask`, `Probe` and `Report` are
`HealthService.readiness`, one probe after the other while dependencies break and mend.

### RecoveryPaging, MaintenanceCursors, BeatTurns

`RecoveryPaging` orders rows as `candidates` does; its `line` holds the pairs of rows of which
the first is dated before the second. Résumés and documents are in one line and on one page;
the code reads a page of each kind, résumés first (`recovery_repository.py:79`, 115), so that a
row there has no rows of the other kind before it. `Select` takes the first `BatchSize` that
are due, `ReserveRow` sends a row to the end of the line, `Skip` passes a row that is locked or
`Outdated`. `MaintenanceCursors` serves the tenant after the last (`NextTenant`) and of each
lane the page behind its cursor (`Page`, `NewCursor`). In `BeatTurns` a tick scans, then asks
for maintenance through the broker (`AskMaintenance`), where the request may expire before a
worker serves it (`Maintain`).

## 3 Runs

| Run | Instance | Properties |
|---|---|---|
| `lease_core` | one knowledge document, two workers, two attempts, one reopening | `EpochWithinBudget`, `LiveLeaseUndisturbed`, `DeletedStaysErased`, `ImplementsContract` |
| `lease_recovery` | one résumé, one worker, two scanners, two attempts, fairness | `DispatchErrorIsCurrent`, `EventuallySettled` |
| `artifact` | one copy of a file, two request threads, one maintenance, fairness | `CleanupMeetsTombstone`, `DeletedIsTerminal`, `ImplementsContract`, `ErasureCompletes`, `PendingResolves` |
| `index_leased` | a résumé and a document, two workers, two embedding models | `OneGenerationLive`, `DeletedHasNoChunks`, `StagedIsActivatable`, `OwnWorkIsPublished`, `ImplementsIndex` |
| `index_jobs` | one job version, two indexers, fairness | `ReportedAsItIs`, `BackfillRepairs` |
| `match_privacy` | a résumé, a document, a job; two requests, one worker | `ErasedLeavesNoTrace`, `RemarksGoWithTheResult`, `NobodyWaitsInACircle`, `ResumeCitationsAreCurrent` |
| `parse_calls` | one skill, one retry, one further cycle | `RequestsAreBounded`, `ProfileIsGrounded`, `TraceTellsTheOutcome` |
| `guidance` | a document in the scope and one outside, the job version indexed anew once | `EverythingIsGrounded`, `GroundedMeansGrounded`, `TracesAgree`, `CitationsWereConfirmed` |
| `jobs_edits` | two requests, up to three versions | `MatchesFindTheirVersion`, `EditsBuildOnEachOther` |
| `ranking` | three jobs, two of them stored, one with weights of every sign; two names of one skill | `BestAreStored`, `RulesPrevail`, `OneSignIsFair` |
| `health` | one worker, Beat, one report; Redis or the schema fails | `RunningIsFresh`, `StoppedIsGone`, `ReportIsTrue`, `ShownIsMeasured` |
| `beat_turns` | two rows and two Artifacts with pages of one, two tenants, fairness | `DueRowsAreReserved`, `EveryRowHasItsTurn` |

What they show:

- **Exclusion and fencing.** `LiveLeaseUndisturbed`: duplicates, late renewals, scanners
  and requests leave a live lease alone. `ImplementsContract` says against the short
  `LeaseContract` that a lapsed grant never comes back and results never regress; only it
  notices a renewal that takes effect after its lease ran out.
- **Bounded recovery.** `EpochWithinBudget`: takeovers, short and long retries and
  recovery dispatches together claim a row at most `MaxAttempts` times per operator cycle.
- **Nothing is forgotten.** `EventuallySettled` for one row and any loss; `DueRowsAreReserved`
  and `EveryRowHasItsTurn` for many rows and small pages: rows that are reserved, that enter a
  lane before a cursor, or that leave it, cost nobody else a turn. (A row at the head of the
  line that could never be reserved would block a page of one; the fairness below excludes it.)
  A turn is the place on a page: what becomes of the row there is the matter of the other runs.
- **Failures are charged where they belong.** `DispatchErrorIsCurrent`: a scanner learns that
  its publish failed when the row may have been reserved by the other scanner, claimed,
  concluded or deleted; it records the failure only on a queued row that still is as it
  reserved it.
- **Deletion is final.** `DeletedStaysErased` for the row, `ErasureCompletes` for the
  object, even when its put arrives after the delete; `DeletedHasNoChunks` for the index,
  however late an attempt comes back; `ErasedLeavesNoTrace` and `RemarksGoWithTheResult`
  for everything derived, whatever matches and feedback were under way.
- **The store and the rows agree.** `ImplementsContract`, `CleanupMeetsTombstone` (the
  `ArtifactTransitionError` of `cleanup_location` cannot happen), `DeletedIsTerminal`,
  `PendingResolves`.
- **Readers see one generation.** `OneGenerationLive` and `ImplementsIndex`;
  `StagedIsActivatable`: whoever still owns its lease is never refused because of what its
  predecessors left, so the fallback publications after a refusal are unreachable;
  `OwnWorkIsPublished`: nobody activates rows another attempt staged.
- **Without a lease.** Two backfills of one job version may refuse each other, and record a
  failure after the other's success; `ReportedAsItIs` says the status stays true, and
  `BackfillRepairs` that repeated backfills end it.
- **Guard and locks.** `NobodyWaitsInACircle`: guard, rows and foreign keys form no
  deadlock; as long as a transaction is open, one can go on (the guard's mode matters: with
  FOR UPDATE the trace sink would wait for its own request). The actions and the property
  share the operators that say when a step need not wait (`MayTakeGuard`, `RowIsFree`,
  `MayAsk`, `MayShare`, `MayStore`). Foreign keys to the tenant and to a job version are among the
  waits. `ResumeCitationsAreCurrent`: a slow match stores nothing stale of
  its résumé.
- **Models are believed as far as their evidence goes.** `EverythingIsGrounded`,
  `GroundedMeansGrounded` (of the model's whole answer nothing was dropped),
  `CitationsWereConfirmed` (what is stored was active at the last lookup, all of it at one moment;
  it may be replaced before the commit), `ProfileIsGrounded`; `TracesAgree`,
  `TraceTellsTheOutcome`: what the traces say happened is what was stored;
  `RequestsAreBounded`: retries multiply with the repair, and with nothing else.
- **No edit is lost** (`EditsBuildOnEachOther`), **and no match is shown another version**
  (`MatchesFindTheirVersion`), by one unique constraint.
- **Ranking.** `BestAreStored` by the scores that hold at the end; `RulesPrevail`;
  `OneSignIsFair`: as long as the weights of a job do not have both signs, more skills or years
  never lower its score, and only a job whose weights do, or negative years, can end a match.
- **The report is true.** `ReportIsTrue`, `RunningIsFresh`, `StoppedIsGone`: what stopped is
  not fresh for longer than a heartbeat counts, what runs is fresh if nothing failed;
  `ShownIsMeasured` for the gauges.

*Bounds.* In `SourceLease`, `MaxReopens` limits operator cycles and `MaxMessages` saturates the
messages counted for a row (a second deliverable copy enables nothing the first does not, and a
lost one is always possible). One row is enough for exclusion: rows share nothing but workers
and scanner pages, and the proofs cover any number. Two workers give holder and successor; two
attempts give a takeover, a retry and the spent budget. In `lease_core` the retry is the short
one with its countdown, in `lease_recovery` the long one, which the scan must find again; all
three lanes of the scan occur there, and two tokens are two reservations under way. That the
short retry, too, gets through scan, reservation and claim is the theorem
`RecoveryFindsItsWay`. `MaxRenewals` 4 in `lease_core` is more than there are leases, so it
binds nothing; `lease_recovery` has no renewals, which the liveness property assumes nothing
of. `ShortDelay` 1 and `LongDelay` 2 make a delay that is over at the next tick and one that is
not; `LeaseTime` 1 lets a lease run out at any tick. `age` and the timers stop at their limits.
In `ArtifactLifecycle`, one copy with two requests and a maintenance has every overlap of an
upload, a deletion and a cleanup; that a deleted file is uploaded again as a second copy, and
two maintenance runs at once, are left to the proofs (`LifecycleImplementsContract`,
`OwnersStayTogether`), which have no bounds. In `IndexGenerations`, `MaxEpoch` 2 gives holder
and successor and `MaxGeneration` 2 a replacement, for job versions 3, so that an indexer may
be two generations late. In `MatchPrivacy` one result suffices, since a deletion redacts each
by itself, and `MaxGeneration` 2 makes a citation stale; the two requests are symmetric, and no
liveness is checked with them. In `ResumeParsing`, `MaxRetries` 1 and `MaxCycles` 1 have every
failure on every attempt, and one further claim of a stored profile. In `GroundedGuidance`,
`MaxScored` and `MaxClaims` 2 with `MaxCites` 1 let a score cite both sides and an explanation
be kept in part; a claim that is valid in part needs two citations and is left to the theorem
`StoredIsGrounded`. Ages in `OperationsHealth` are scaled: `Fresh` 2 stands for 30 s, `Expire`
3 for the key's expiry; `MaxGap` says how often a running process works, `MaxStuck` how long
Redis may hold a command back; one dependency fails at a time, Redis and the schema in the run,
since only Redis and the probes of the database differ in what they disturb. `ranking` has
three jobs listed out of the order of their ids, résumés with known, unknown and negative
years, and one job that may ask for any skills, with or without required years, under weights
that are usual, all zero, all negative, or of both signs with a positive, a zero and a negative
sum; the usual ones do not add up to one. `beat_turns` serves one lane, because lanes have
pages and cursors of their own; a page of one with two rows puts one behind the other.

*Deadlock* is checked in `lease_core`, `lease_recovery`, `artifact` and `beat_turns`, and
there is none. In the other runs requests come to an end or bounds are used up, so they
stop by design.

*Fairness* of `SourceLease`: time passes; a delivery of a row's message happens if it
is possible again and again (the queue is first in, first out, and workers come back); a
task ends (Celery's hard time limit); Beat ticks for ever, so that a scanner, not always the
same one, goes on, and neither a held lock nor an unreachable broker meets every one of
their visits to a row. Of `ArtifactLifecycle`:
maintenance is scheduled for ever and a run ends, and a crash or a store outage does not
hit the same step for the same source for ever. Of `index_jobs`: the backfill command is
run again and again, and neither a crash nor the embedding service meets every run; all
processes use one embedding model (with two it fails, see [7](#7-observations)). Of
`BeatTurns`: Beat ticks on; database, broker and workers do not fail every time, and a row
that is tried is not locked or changed every time. Nothing is assumed of renewals, of
requests, of operators, or of any fault; late store calls need not ever arrive.

## 4 Proofs

All are for every number of sources, workers, requests and so on, and every value of the
bounds and time constants, under the named assumptions of the modules. Type correctness
(`TypeCorrect`, `RankingTypeCorrect`, `TurnsTypeCorrect`) is proved for every module that has a
run, so no run repeats it. Every invariant, action property and refinement that a run checks
is proved. Some theorems are about properties that no run checks, since the proof says more
than a run would; TLC was asked about each of them before it was proved.

`SourceLeaseProofs` proves every safety property of the lease: `BudgetIsKept`,
`DispatchErrorsAreCurrent`, `DeletionIsFinal`, `LiveLeaseIsUndisturbed`, and, beyond those
that a run checks, `RetriesAreClaimable`, `LeasesEndWithRunning`, `NewerResultsStay` and
`SnapshotsAreConsumed`. The invariants concern a row on its own, so the proofs do not go
through the actions for each: the row updates (`Claimed`, `RetryScheduled`, `Reserved`, …)
are shown once to be the only changes a row meets, and a property of one row is then shown
for each kind of update. Two properties relate a row to the rest: a live row and the worker
that holds it (epochs of jobs and renewals never exceed the row's, and a job with the
row's epoch and owner is the holder's), and a row and the pages read of it (a snapshot
carries a token that the row has had, and a fresh token is in no page). These are the
strengthenings that the invariants of the runs lack.

For `DispatchErrorsAreCurrent`, `TagChanges` sorts the updates by what they do to token and
recorded failure: only a reservation and a recorded failure change either. The first starts
clean, and the second is of a scanner whose reservation matches the row, so that it is the
row's own snapshot (`MatchIsSnapshot`).

`RecoveryFindsItsWay` is the safety half of `EventuallySettled`: the conditions of scan,
reservation and claim are written in three places of the code, and no row gets past one of them
to be refused by the next for ever (`RecoveryIsLetThrough`). Unfinished work is selected once
its timers have run out; a row that still matches its snapshot can be reserved, one that still
matches its reservation can be claimed. For this, what a snapshot does not record must be
determined by what it does: within one epoch and one `queued_at` a status only moves on
(`Later`) and what made the row due stays so (`StaysGood`), whoever writes the row
(`RowGoesOn`), and a new reservation takes a token that no page and no reservation holds
(`TokensAreFresh`).

It also proves the refinement, `LeaseImplementsContract`. A step changes one row, or only
lets time pass; the change of a row is a step of its cell (grant, epochs, standing,
result), a cell step of one source is a step of the contract, and time can only make
grants lapse.

`ArtifactLifecycleProofs` proves `CleanupIsNeverRefused`, `DeletedStaysDeleted`,
`LifecycleImplementsContract`, `AvailableIsStored` and `OwnersStayTogether`, the last also for
two copies of a file, and the safety half of `ErasureCompletes`, `WithdrawnIsNeverStoredAnew`
(`GoneStaysGone`): no upload and no repair begins to store a withdrawn object, so it can come
back only by a put that is already under way. `IInv` adds what a process may still rely on
after it let go of its locks: whoever saw the object finds it stored or the Artifact withdrawn
(`SeenIsStored`); deletes on their way, and page entries, are for tombstones
(`LateDeletesAreDue`), and tombstones never go back; an upload is one request's, and FAILED is
that request's last word (`UploadersAlone`).

`IndexGenerationsProofs` proves `OneGenerationIsLive`, `StagingIsActivatable`, `DeletedIsGone`,
`StatusIsTrue`, `WorkIsOwn`, `HistoryStays` (published generations are kept until
deletion) and `IndexImplementsPublished`. `RowsInv` says of each Source which generations
there are: all up to the pointer, none but its successor beyond it, and only under an
epoch that was given. `ClaimsInv` says what an attempt whose epoch stands may rely
on: its target is next, what it staged is there, and what lies beyond the pointer is its
own once it has reconciled; that two attempts have different epochs keeps this true when
others act. `RequestsInv` is the little that an indexer without a lease can rely on.
`VersionsCanBeIndexed` (`RefusedForAReason`) is the safety half of `BackfillRepairs`: such an
indexer is refused only where another has published meanwhile or has staged with another
model; what a dead one left staged under the same model is a replay.

`MatchPrivacyProofs` proves `ErasureLeavesNoTrace`, `RemarksGo`, `ResultsStay` (results change
by redaction only) and `CitationsStayCurrent`. Past the guard everybody is alone: at most
one request has read anything, so what it read of lifecycles still holds (`StillTrue`), and
the lock on the résumé keeps its generation. Everybody else's step either keeps these
facts (`BesideKeepsInv`) or cannot happen.

`ResumeParsingProofs` proves `RequestsStayBounded`, `TracesTell`, `ProfilesAreGrounded` and its
two halves. `SentIsCounted` ties the requests sent to the attempt and the repair; a profile
combined from grounded facts and rules is fair to both (`OutcomeIsFair`), and a stored one
was fair when it was published.

`GroundedGuidanceProofs` proves the four properties of its run. `ScoreRests`, `ClaimsRest` and
`TracesRest` say for each step what is settled by then about the score, the claims, which are
part of the `answer`, and the traces; `StoredRests` says what remains of it in what the last
lookup `resolved`, which `CitationsStayConfirmed` follows to the commit.

`JobsProofs` proves the two properties of the run of `JobCatalogue`, `HistoryHasNoGaps` and
`VersionsStay`. What a request read is past: its number is not above the current one
(`ReadsArePast`), and the version it builds on is numbered between that number
and the current one (`BasesAreBetween`), so that an edit whose number is still free was based on the
current version.

Of `HybridRanking` it proves `TheBestAreStored`, `RulesStayAhead` and
`WeightsOfOneSignAreFair`. In a strict order of finitely many jobs the places are different and
not above their number, so each is taken by one job (`PlacesAreTaken`: an injection of a finite
set into itself is onto) and `Sorted` lists every job once, in order (`SortedIsOrdered`).
`DoneIsRanked` says that what is stored is the cut of that list by the totals that hold at the
end; the two properties of the outcome follow from it without another look at the steps. A
total is four fifths of the rule score and one fifth of the models', rounded, so a lead of more
than a quarter of the scale decides (`MarginDecides`); the lead of one unit more than a quarter
may still be rounded to a tie, which is why the margin of `RulesPrevail` has one unit on top.
`WeightsOfOneSignAreFair` assumes nothing of weights: those of one sign act as weights that are
not negative, whichever the sign is, and make a score of zero where all are zero
(`OneSignAverages`); such an average of shares is a share (`ScoreIsShare`) and grows with each
(`ScoreGrows`), through truncation and rounding. What remains to end a match is a job of both
signs or a résumé of negative years (`RulesFailByMixedSigns`).

`BeatProofs` is in two parts. `RunningStaysFresh`, `StoppedStaysGone`, `ReportsAreTrue` and
`ShownAreMeasured` are the four properties of `health`, for any number of workers and clients
and all thresholds of `AgesAssumption`. The argument is one of ages: every clock advances by
one unit together with all others, so what one says of another is only disturbed where one is
set back. `IInv` says that a running process was seen no longer ago than it last pulsed,
unless something failed since (`WorkersAreSeen`, `BeatIsSeen`); that what is seen, or is
still to be executed by Redis, had then lived and, for Beat, scanned (`SeenHaveLived`,
`SeenHaveScanned`); that Redis owes no command to a worker which was always answered
(`CallsAreOwn`); and that a report has noticed what was down since it began and it has asked
for (`ReportsNotice`).

The other part proves the safety halves of the two liveness properties of `beat_turns`, three
action properties stated in `BeatTurns`. `DueRowsMoveUp` (`NobodyFallsBack`): while a
row stays due nothing gets before it, and what is reserved leaves the rows before it, so it
is overtaken at most as often as there are rows. `FirstAreTaken` (`ScansTakeTheFirst`): a
scan's page is in the order of the line, and a row that is due and not on it is behind
all of a full page; by ranks again (`RanksAreTaken`). `CursorsPassNobody`
(`NobodyIsPassedOver`): a cursor moves in its tenant's turns only, and skips no row of its
lane between its old and its new place. With these, the liveness properties lack nothing but
that the scans go on, which is the fairness that TLC assumes.

`MatchPrivacyProofs` also has `NobodyIsLockedOut`, which is `NobodyWaitsInACircle`: guard, row
and foreign keys are taken in one order, which a number per holder witnesses (`LockOrder`:
before the guard, before the row, behind it, and workers, who wait for nobody's row), so
whoever is waited for is farther on (`WaitedForIsFarther`); no request holds the row of a job
version, so a foreign key to one waits for workers only (`VersionsAreFree`). Who holds a lock
is in a step that can hold it (`HoldersInv`, `WorkersHold`), so nobody waits for a transaction
that has ended; who waits for nobody can go on (`NobodyIsStuck`), and following who waits for
whom ends at one who can (`SomebodyGoesOn`). ENABLED is beyond the prover, so `MayGoOn` spells
out when a step is possible, with the very guards of the actions; that it holds exactly where
`RequestStep` or `WorkerStep` is enabled was verified with TLC on the instance of
`match_privacy`. `SearchedIndexIsPublished` shows that the index which matches search
implements `PublishedIndex`: what a worker is about to publish cannot have been erased or
deactivated meanwhile (`PublishersInv`), because it holds the row, and so does an erasure
(`ErasersHold`).

Only model-checked: the six liveness properties, since liveness under fairness is out of the
prover's reach. For five the part without fairness is proved: `EventuallySettled`
(`RecoveryIsLetThrough`), `ErasureCompletes` (`GoneStaysGone`), `BackfillRepairs`
(`RefusedForAReason`), `DueRowsAreReserved` and `EveryRowHasItsTurn` (above). The sixth is
`PendingResolves`.

## 5 Not modelled

Text extraction, embedding and the formats of documents, and the chunker: functions of one
text (that a text gives the same chunks again is assumed where a generation is
replayed). HTTP routing, tokens, passwords and configuration; telemetry but for the
gauges, its redaction and exporters; the web console; migrations (but for the lease-less
RUNNING rows one of them leaves behind, which are initial states of `SourceLease`); offline
evaluation and the scripts. These transform data or do I/O and keep no state that the
properties above depend on. The listing of orphaned objects only reads. The limit of 2048
chunks of `reconcile_staging` is left out, and so are the vector distance and the choice
of chunks by similarity: a search returns any subset of what it may return.

## 6 What could follow

The plan of the first version is carried out: every component that keeps state is
modelled. What would add something: lease, artifact and index of one résumé composed in
one module, where today they meet through `LeaseContract`, `ArtifactContract` and
`PublishedIndex`; and the chunker against a reference definition.

## 7 Observations

Not disagreements between code and documents, but facts the models make plain:

- A FAILED résumé has no way back but deletion and a new upload: the backfill takes
  SUCCEEDED ones only, and FAILED is never implicitly reclaimed (`docs/adr/0005`).
- An upload whose put failed keeps its file: the Artifact stays FAILED, which the unique
  index counts as a holder and no maintenance lane selects, so the same upload is
  answered with the failed Source until that is deleted. If the put arrives after all,
  its object stays as long.
- The guards of `cleanup_location` against live statuses cannot be reached
  (`CleanupIsNeverRefused`).
- Deactivation leaves the lease columns: a deactivated row may carry an owner and an
  expiry, which nothing reads.
- A failed dispatch of the API may replace a transient error code on a row that waits
  for a short retry by `task_dispatch_failed`. It does no harm: that row is queued.
- If the embedding model is changed between two backfills of a job version, chunks that the
  first staged and did not activate are no replay for the second, which is refused, as is every
  later one with that model: nothing removes staged chunks of a job version. `BackfillRepairs`
  assumes one model for that reason.
- A value of the model without evidence may meet evidence of the rules in the merge, or the
  other way round, since `_merge` takes each for itself; and a model's `schema_version` is
  stored as it comes. A stored profile can therefore be one that `_has_parsed_state` refuses
  at the next attempt (`ClaimUnreadable`).
- A published job can be edited so that its current version is incomplete; publication
  checks only the version that is current then. Another edit at the same time as a
  publication can do the same.
- A concurrent edit that loses the unique constraint surfaces as an unhandled repository
  error, not as a conflict the client could repeat.
- Weights of both signs can bring a score below 0 or above 1, which its schema refuses: one
  such job ends every match of its tenant (`Rules`, stage "failed"); so does a résumé of
  negative years its own matches. Weights that are all negative act like positive ones, and a
  sum of zero counts as one. `_key` drops punctuation, so that "C", "C++" and "C#" are one
  skill.
- The gateway retries every status the provider returns, a rejection marked as not
  retryable too; authentication and invalid-output errors after retries report one attempt.
- A model call whose citations cannot be looked up afterwards leaves no trace
  (`explanations.py:119`, `Unavailable`). Claims dropped by the last lookup of a match leave a
  trace that says succeeded: it was written before.
- Citations of a job version or a document may be stale when a match commits: the last lookup of
  one recommendation precedes the model calls of the next ones (`Resolve`, `Store`). The résumé's
  cannot, since the match holds its row.
- A pulse that Redis executes late shows a stopped worker as fresh for up to 30 seconds more;
  `StoppedIsGone` is about workers whose calls were all answered.
