# Drastha: verification project

TLA+ models of Drastha, the passive network-threat analyser in `src/` (a Python
package under `src/src/aegisflow`, about 10,500 lines), the TLC runs that check
them, and TLAPS proofs about them.

Drastha only ever observes. It reads traffic metadata (Zeek-style JSONL, flow
exports, packet captures), runs detectors, correlates their findings into
incidents and keeps the result in an analyst store that people review. What has
to be right for every ordering and every failure is what is consumed exactly
once, what is durable, what the analyst is shown and whether it can be trusted;
and, inside an analysis, which events a detector still remembers, what a cooldown
may hide and which incident a finding lands in. That is what this project models.

- [1. Inventory](#1-inventory)
- [2. Plan](#2-plan)
- [3. Modules](#3-modules)
- [4. Runs](#4-runs)
- [5. Proofs](#5-proofs)
- [6. Disagreements between documents and code](#6-disagreements-between-documents-and-code)
- [7. What is left out](#7-what-is-left-out)

## 1. Inventory

| Component | State it keeps | Operations | Talks to | What makes it correct |
|---|---|---|---|---|
| Continuous ingestion, `continuous_ingestion.py` | checkpoint database (meta row, journal rows, one report), lifetime lock, memory (detectors, keys, high-water mark, hash) | constructor with recovery, `poll`, `_publish`, `close`, the `run_continuous` loop | source file a producer appends to, analyst store | every complete line judged once and in order across crashes; nothing uncommitted is published; one worker per checkpoint; limits |
| Event normalisation, capture adapters, `ingestion/*.py`, `replay_service.py` | quality account of the file being read, the packets kept of each flow | containers, record kinds, field checks, repeats and chronology, combination of logs, join of packets with TLS sessions | called by every entry point | rejected rather than guessed; a healthy account lost nothing; a join never sees the future |
| Analysis session, `analysis_session.py` | latest timestamp, detectors, alerts, finished flag | `process`, `findings`, `incidents` | detectors, incident store | order guard; findings a function of the events; complete only once |
| Analyst store, `api_store.py` | incidents, alerts, feedback, runs, runtime state | import, project, save run, set status, feedback, queries | ingestion, uploads, HTTP API | projection is idempotent, keeps review decisions, shows only current members |
| Signed store, `audited_store.py` | the same, plus HMAC ledger and retention rows | every transaction verifies and appends; export, hold, plan and apply retention | the same, plus operators | a changed row or ledger is found; deletion only of what was previewed |
| Stream recovery, `stream_recovery.py`, `operations.py` | bundle directory, manifest, anchor | coordinated backup, authenticated create-only restore, rehearsal | worker lock, journal, signed store | journal and analyst store of one moment; nothing half-restored is accepted |
| Windows and cooldowns, `windowing.py`, `detectors/recon.py`, `detectors/ddos.py` | per-key deques, last alert times | observe, evict, final alerts | session | no event outlives its window; cooldown hides repeats, not findings |
| Scoring detectors, `detectors/*.py`, `passive_features.py` | bounded baselines | score, then learn | session | bounded caches, learn after scoring |
| Findings, incidents, export, `findings.py`, `incidents.py`, `siem_export.py` | incidents per source | merge, correlate within 900 s, export | session, store | each finding in exactly one incident; exports refuse what they cannot represent |
| Upload and replay, `analysis_service.py`, `upload_analysis.py`, `replay_service.py` | none | analyse a finite capture, persist | session, store | findings and run both saved |
| Streaming demonstration, `streaming_demo.py` | one run row | provisional saves, final import and save | session, store, a client that may leave | a run does not stay "running" |
| API and access, `api.py`, `security.py` | none | authenticate, authorise, route | stores | nothing is written for a caller who may not |
| Deployment contract and policy, `deployment_config.py`, `context_policy.py`, `dns_model.py` | the files themselves | read contract, check digests, read policy, load model | session | a session runs what was approved |
| DNS model training and promotion, `dns_corpus.py`, `dns_calibration.py`, `dns_training.py`, `public_suffix.py` | create-only artifact files | audit and split a corpus, fit, choose an operating point, evaluate, promote | the session that loads the model | no leakage; a promoted model passes its gates on what it never saw |
| Analyst backup, `operations.py` | bundle and restoration directories, heads kept by hand | online copy, signed manifest, create-only restore | signed store | a receipt stands for one whole store |
| Benchmarks and scoring, `benchmark.py`, `benchmark_metrics.py`, `evaluation_scoring.py`, `scenario_labels.py` | none | audit a corpus, analyse one split, score it; score a live report | session | no leakage; two scorers tell one story |
| Web dashboard, `evaluation.py`, `pipeline.py` | none shared | presentation, timing | | |

How they interact. A session is fed by one of three drivers: the continuous
follower, an upload, or the streaming demonstration. Only the follower survives
its process: it owns a checkpoint and projects each committed report into the
analyst store, which it may share with the API, other drivers and, when it is a
signed store, with the operators' backup and retention tools. The coordinated
backup takes the follower's own lock.

What is hard about it:

- a worker may die, be interrupted or meet a storage error between any two
  steps, with detectors already advanced and the transaction not committed;
- the checkpoint and the analyst store are two databases with no transaction
  across them, so delivery is at least once and must be harmless when repeated;
- recovery re-derives everything the detectors and the duplicate and lateness
  rules remember by replaying the journal, and refuses the checkpoint if one row
  comes out differently;
- the producer writes, and may misbehave, while the worker reads;
- several limits (batch, line bytes, records, bytes) meet in one loop;
- stores are read, decided upon and written by several processes;
- an upload or a stream saves findings and run in transactions of its own, and its
  client may leave between them;
- a detector sees events of many keys, late ones included, and has to forget by time,
  keep silent for a while after an alert, and still miss nothing;
- files are hashed, copied and read in separate steps by commands that may die.

`PROJECT.json` lists each hazard at its line with the properties that watch it.

## 2. Plan

Done, in this order, the behaviour that matters most first:

1. **StreamPolicy, StreamLog, ContinuousIngestion**: the follower, its checkpoint,
   its delivery, its failures, and the abstract log it implements; proved.
2. **SerialEvidence, AuditedStore**: transactions under the immediate lock, the ledger,
   enrolment, rollback and truncation, retention, exports, and the serial store that all
   of it implements as long as nobody edits the file; proved.
3. **SlidingWindow and the detectors, Findings, AnalysisSession**: windows, cooldowns,
   the merging of findings, incidents, and the session that drives them; its windows, its
   cooldowns, its restarts, that its findings never vanish and that its incidents partition
   them proved.
4. **AnalystStore, AccessControl, Workbench**: everything that shares one analyst
   store, with the coordinated backup of worker and store; recovery and access proved.
5. **Intake**: from files and packets to events, with the account of their quality.
6. **ModelPromotion, Deployment, AnalystRecovery, Benchmark, PublicSuffix**: the
   operator's commands; proved.
7. **FoldProofs, SequenceProofs**: the inductions over sequences the proofs share; with
   them the queue, the promotion, the replay's quality and the exact recovery.

## 3. Modules

| Module | Models |
|---|---|
| `StreamPolicy` | `_consume` and `AnalysisSession.process` on one line: the verdict, and what memory keeps of it. Also the same verdict stated over the file alone |
| `ContinuousIngestion` | `ContinuousIngestor` and `run_continuous`, with the file, the lock, the checkpoint, the analyst store, crashes and outside edits; the refinement mapping to `StreamLog` |
| `StreamLog` | the promise to the analyst: an exactly-once log and a view of a committed prefix |
| `AuditedStore` | `AuditedIncidentRepository`, the processes that share its file, and changes to the file from outside; the refinement mapping to `SerialEvidence` |
| `SerialEvidence` | the promise to the operator: one table state and a log in which every change is dated, named and certified the moment it happens |
| `SlidingWindow` | `KeyedSlidingWindow`: insertion, eviction, and what the detectors ask of a window |
| `ReconDetector`, `DDoSDetector`, `C2Detector`, `DNSDetector`, `ExfiltrationDetector`, `EncryptedDetector` | one detector each, as operators from a state and an event to a new state and the alerts raised |
| `Findings` | `findings.py` and `incidents.py`: contradictions, merging, the correlation window, identities, risk |
| `AnalysisSession` | `analysis_session.py` over all of these, and the exfiltration state kept between runs |
| `AnalystStore` | the tables of `api_store.py`, its upserts and reading queries, and what an export accepts |
| `AccessControl` | `security.py`: which requests are admitted, and as whom |
| `Workbench` | all that shares an analyst store: API requests, streams, demonstration, command line, worker, coordinated backup and restore |
| `Intake` | `passive_replay.py`, `replay_service.py` and the adapters: from records and packets to events and their quality |
| `PublicSuffix` | `public_suffix.py`: rules, wildcards and exceptions |
| `ModelPromotion` | `dns_corpus.py` and `dns_calibration.py` with the files their commands create |
| `Deployment` | what a session starts with: contract, policy, model; and `train-dns` |
| `AnalystRecovery` | backup and restoration of the signed store alone |
| `Benchmark` | corpus audit, label units, both scorers |
| `MCContinuousIngestion`, `MCAuditedStore`, `MCAnalysisSession`, `MCWorkbench`, `MCCommands` | small instances for TLC |
| `Folding` | a fold over a sequence, as a recursive function |
| `FoldProofs`, `SequenceProofs`, `FindingsProofs` | induction over a fold, and what selecting, joining, inserting and resolving give |
| `ContinuousIngestionProofs`, `AuditedStoreProofs`, `WorkbenchProofs`, `AnalysisSessionProofs`, `CommandsProofs` | the theorems of a component |

### State of ContinuousIngestion

| Variable | Code |
|---|---|
| `source`, `tail`, `rotated` | the followed file: complete lines; bytes after the last newline; whether the path still names the pinned device and inode |
| `owner` | the `BEGIN EXCLUSIVE` on `<checkpoint>.lock`, held for the life of the process |
| `meta`, `journal`, `snapshot` | tables `stream_meta`, `stream_records`, `stream_snapshot` |
| `evidence`, `run` | the analyst store's alerts and incidents, and its `analysis_runs` row for this stream |
| `pc`, `job`, `ram` | where each worker is, the locals of its poll or delivery, and its memory: `_uids`, `_latest`, `_digest`, `_meta["offset"]`, the session |
| `faults`, `edits`, `frozen` | bounds, and one history variable for `SourceFrozen` |

A line is a kind, a key, a time, a body and a size in bytes; a SHA-256 is the
content it was taken of; a contract is one value. A record that expands to
several events has one time, because every normaliser reads the same field. The
detectors are left abstract: the findings are taken to be a function of the
sequence of accepted lines, so `session` is that sequence and a report carries it
as its `evidence`. "The store shows evidence n" then says that the store's
findings were computed from line n. How findings merge or replace one another in
later reports is in Findings and Workbench.

### Actions of ContinuousIngestion and code

| Action | Code |
|---|---|
| `Start` | constructor up to recovery: lock, open, contract, prefix check, or the first meta row |
| `RecoverRow`, `FinishRecovery`, `RefuseJournal` | `_recover`, one row at a time, its final comparisons, and its refusals |
| `ReadOutbox`, `Deliver`, `SaveRun` | `_publish`: read the report, then one transaction, or two for a repository without `project_analysis_run` |
| `BeginPoll`, `Verify`, `ReadLine`, `EndRead`, `ConsumeLine`, `Commit` | `poll`: first delivery, prefix check and size, reading, the lines of the transaction, its commit; then delivery again |
| `StopPoll`, `PollFault` | `poll`'s `except BaseException`, for what the worker's own steps run into and for what comes from outside |
| `Crash`, `Close` | the process ends: killed or interrupted; or `run_continuous` leaves its `with` block |
| `WriteFragment`, `WriteLine` | the producer |
| `DisturbSource`, `EditJournal` | whoever changes the file or the checkpoint from outside |

A worker's step ends wherever another process can see or change shared state, and
at each line of a batch, so that failures strike in the middle of one. Rows
inserted but not committed are in `job.tx`; a failure forgets them while `ram`
keeps what the detectors have seen, which is what the code does. A refusal that
changes nothing durable is a `Start` that is not enabled.

### AuditedStore

| Variable or action | Code |
|---|---|
| `state` | the six tables of `TABLES`: incidents, alerts, feedback and runtime state as `records`, then `analysis_runs` and `evidence_retention` |
| `ledger`, `signed` | `evidence_audit`; every payload ever signed with the key, in this file or in copies of it |
| `lock`, `tx` | SQLite's immediate lock; `before`, `head` and phase of each request's connection |
| `exporting`, `plans`, `receipts`, `anchors` | what callers hold: an export between its two transactions, previewed plans, receipts, heads kept outside the file |
| `unsigned`, `saved`, `honest`, `strays`, `edits` | processes with an unsigned repository, a copy of the file, history, bounds |
| `Start` | the constructor: `genesis` for an empty store, verification for a signed one |
| `Begin`, `Exit`, `Fail` | `__enter__`; `__exit__` with its bookkeeping, entry and commit; a rollback or the process's death |
| `PutRecord`, `SaveAnalysisRun`, `ProjectAnalysisRun`, `SetRetentionHold`, `PreviewRetention`, `ApplyRetention`, `RecordExport`, `IssueReceipt`, `RetainHead` | the bodies; each is one action with its `Exit`, because nothing of it is visible before the commit |
| `OpenUnsigned`, `UnsignedWrite` | `IncidentRepository` without a key on the same file |
| `SaveCopy`, `PutBack`, `DropEntry`, `EditRow` | outside changes: roll the file back, truncate its ledger, change its rows |

A digest is what it is taken of. A MAC is the position of its payload in `signed`:
equal payloads have equal MACs, and nobody without the key has one that verifies. A
ledger entry holds the rows it lists and the state it certifies. `Verified` is the whole of
`verify_connection`. A plan's SHA-256 is the plan. Names of actors and
operations, which each entry also carries, are left out: no rule reads them.

`honest` is what signed operations alone would have made of the tables, entry by
entry; it goes with a copy of the file. It lets `NothingSilentlyCertified` say that no
foreign row is ever certified, through any mixture of edits.

### AnalysisSession and the detectors

| Variable | Code |
|---|---|
| `latest`, `finished`, `alerts`, `metadata`, `context` | `_latest_timestamp`, `_finished`, `_alerts`, `_metadata`, the history of `PassiveDNSContext` |
| `recon`, `ddos`, `c2`, `dns`, `exfil`, `features`, `encrypted` | the state of each detector: windows per key, last alert per cooldown key, baselines, active snapshots |
| `report` | the result of completing the session |
| `profile`, `session` | its settings; how many sessions ran over one kept exfiltration state |
| `history`, `raised`, `matches` | history: the events seen, the alerts raised, and those that would be raised if nothing cooled down |

`ProcessConnection`, `ProcessDNS` and `ProcessEncrypted` are `process` for the three
kinds of event; each runs every enabled detector. `Complete` is `findings` at the
end of the capture, `Resume` the command line's next run over the exported state. A
detector is a pair of operators, a state when fresh and a step; thresholds
are integers and percentages, an entropy or a score is an attribute of the name
or vector it is computed from. Confidence keeps the terms that a threshold depends
on.

### Workbench

| Variable or action | Code |
|---|---|
| `db`, `lock` | the tables, without the ledger of a signed store; who holds SQLite's write lock between steps |
| `jobs`, `started`; `Upload`, `Stream`, `Correlate`, `RestoreAlerts`, `Observe`, `StreamEnds`, `Import`, `Save`, `Stops` | `upload_analysis.py`, `analysis_service.py`, `streaming_demo.py`, `demo.py`, `cli.py`'s correlation: reading, provisional saves, import, save, and a client or process that goes away |
| `review`; `ReadForReview`, `WriteReview`, `Feedback` | `set_status` and `add_feedback` |
| `Downloads` by `ExportRun`, `ExportIncident` | the two export requests, which in a signed store append a record of what was handed out |
| `Retire`, `LoadDemo`, `Restart`, `Tick` | retention under protected mode, the older demonstration file, a restart with the backfill of conclusions, credentials expiring |
| `worker`, `journal`; `WorkerOpens`, `WorkerCommits`, `WorkerDelivers`, `WorkerStops` | the follower, as much of it as the store and the backup see |
| `backup`, `bundle`, `restored`; `FreezeForBackup`, `CopyJournal`, `CopyAnalyst`, `SealBundle`, `BackupFails`, `ReplaceCopy`, `Restore`, `CutOver` | `stream_recovery.py` |
| `scene`, `clock` | the deployment, and time for credentials |
| `decided`, `projected`, `authors`, `sealed`, `reviews` | history and bounds |

An API request is admitted by `AccessControl` before its action; what a job later
writes carries the request it was admitted under. The tables are one record and a
transaction is one expression over it; where the code uses two transactions, two
actions.

### The operator's commands

Five independent lanes, of which `MCCommands` runs one to a behaviour.

- **Intake**: `source`, `part`, `at` say what is read and where; `quality`, `latest`,
  `seen`, `accepted` are the account of this file, `total` and `events` of the ones
  before; `capture` is what was kept of the packets. `Reject`, `Accept` and `Abort` are
  one record, `Close` one file, `ReadPacket` one packet, `Join` the join. A record is a
  form, hints of its kind, times and identities, and the set of faults a check would
  find in it; the checks keep the order of the code.
- **ModelPromotion** and **Deployment**: `disk` is what each output path holds,
  `worker` each command between its computing and its closing of a file; a file that is
  being written is `Torn`. `FitCandidate`, `EvaluateCandidate`, `PromoteCandidate` and
  `Retrain` are the commands, `StartUnderContract`, `StartWithModel`, `StartUnmodelled`
  and `ReadPolicy` a session that starts. A fitted variant is a table of scores; the
  Wilson bound is compared in integers. Artifacts carry a checksum, which whoever
  edits a file can recompute, not a signature: in the model an edited artifact keeps
  its old checksum. A promoted model file carries no checksum at all.
- **AnalystRecovery**: `live`, `bundle`, `place` are the store, the backup and the
  restoration directories; `operator` is the command under way, step by step; `heads`
  are those kept by hand. Manifests are signed with the store's key: one is missing or
  genuine, but it may be moved.
- **Benchmark**: `corpus` and `published`. What the analysis raises is any set of alerts
  over accepted flows.

### Faults

Operators whose comment begins with "Fault:" or "Mutant of" belong to no
specification. Each is a slip one could make in the definition it names or that follows it, and
replacing that definition by it makes TLC find the property named in `PROJECT.json`
violated: evidence that the property can fail. In some places the operator before the
definition in question serves, `LastCombined` for `Combined` for instance.

## 4. Runs

| Run | Instance | Shows |
|---|---|---|
| `ingest_crash` | 2 workers, 2 contracts, 4 lines of 4 kinds, batches of 2, limits of 3 records, 5 bytes and 3 bytes a line, 2 faults | type, single writer, one contract, limits, monotone view, and the refinement of `StreamLog`, with it that a batch waits until the one before is delivered |
| `ingest_policy` | 1 worker, 3 lines of 6 kinds over 2 keys, 1 fault, two-transaction repository | recovery rebuilds exactly the memory of an uninterrupted run and accepts its own journal; no accepted record is out of order for the session; run never ahead of its findings |
| `ingest_edits` | 2 workers, 2 lines, 1 fault, 1 outside edit | edits to a closed journal are found before it is used; a changed source takes no further batch |
| `ingest_live` | 1 worker, 3 lines, 1 fault, fairness | every line that can be taken is delivered |
| `audit_serial` | 2 requests, 2 runs, 2 reports, 1 row, 1 export, 4 entries, 2 times, plans of 1 run | every operation with failures anywhere: what was verified is what is signed; the store never refuses itself; complete change lists; retention follows the runs; deletion bound to its preview; receipts backed; and the refinement of `SerialEvidence` |
| `audit_outside` | 1 request, 1 unsigned process with 1 write, 1 run, 1 row, 3 entries, 2 times, 1 copy, 2 edits | nothing foreign is certified; a retained head stands for one whole store |
| `analysis` | 12 profiles (scanning, crowding, flooding, reflecting, holding, beaconing, resolving, encrypting, rotating, sending, boundary, mixed), 2 sources, 2 destinations, 4 or 5 events 0 to 3 seconds apart | all eleven kinds of window hold exactly what they should, late transfers of a second run included; a cooldown hides repeats and nothing else; findings only widen; incidents partition them; a resumed exfiltration detector behaves as if it had never stopped |
| `workbench` | 5 scenes (demo, watching, combining, protected, operating), up to 2 analyses and 2 reviews or downloads | decisions survive; the queue shows what was projected last and agrees with the listed runs; writes are authorised, and so are the records of downloads; a backup joins one moment and a restore is what was backed up |
| `commands` | 5 lanes: replay, promotion, session, recovery, benchmark | quality accounts are true; a join sees no future; promoted models earned it; sessions run what was approved; receipts stand for whole stores; published scores can be believed |
| `ingest_tampered`, `workbench_export` | see section 6 | two sentences of the documentation that the code does not keep |

**Bounds.** `MaxSource`, `MaxFaults` and `MaxEdits` bound the world; the limits are
the program's own parameters made small. With three or four lines and batches of two there
is a full batch, a short one, a poll that finds nothing and a line that arrives
after the size was taken; records and bytes each run out before the file does;
one line exceeds the line limit. Two faults let a recovery be interrupted and a
failed poll be followed by a crash. Two lines of the same key and two times around
each other give duplicates, conflicts, late lines, and all mixtures. Workers and contracts
are interchangeable, and any third would be refused as the second is. Deadlock is checked
except where a rotation may stop the stream for good, `ingest_edits` and
`ingest_tampered`.

In `audit_serial` four entries are `genesis`, a run, something that makes a preview
stale or a hold, and the application; a plan limit of one with two runs truncates a plan
and two times put a run before a cutoff. In `audit_outside` three entries and two
edits allow a rollback followed by a different continuation of the same length, and a
truncated ledger with its rows edited to match. That store may stop for good, every
later operation being refused, so `audit_outside` does not check deadlock.

In `analysis` the thresholds are at their lowest and the windows a few seconds, so that
four or five events fill a window, leave it, meet a cooldown and come after it; the
correlation window is 3 seconds instead of 900. `reflecting` is `flooding` with the
setting of the deployment baseline, which alone keeps a window of reflected traffic. Each profile has the shapes of traffic
that reach every rule of its detectors; `mixed` has all of them on. The exfiltration
profiles are run twice over the kept state. A session ends, so deadlock is not checked.

In `workbench` each scene has the actors its hazards are about: two analyses suffice for
an import to overtake another and for an alert to move between incidents; two reviews or
downloads for one to race a projection and be followed by another. Downloads happen in
the signed scenes `combining` and `protected`, both statuses wherever a review's outcome
is the question, one of them in `protected` and `operating`. `operating` has a worker
with a feed of two alerts, one backup and one cutover. Credentials number three, one of
each role, and expire at one time.

In `commands`: a replay has up to three records, of which more than one bad in 4 (10 in
the code) is unusable, a capture up to three packets, of which 2 (128) are kept of a flow
and 4 (20,000) records are too many; the promotion lane has 3 output paths, 2 commands at
once, 1 kill, 2 changes and corpora of up to ten domains; the session lane 1 change, no
kill and the sound corpus; the recovery lane 2 bundles, 1 place, 3 writes and 2 changes
of files; the benchmark lane 6 records to an artifact, 20 (500,000) in all and at most 2
alerts. Commands and paths are interchangeable. Every lane ends, so deadlock is not
checked.

**Fairness** (`ingest_live`): weak fairness of each worker's own
steps, since `run_continuous` polls in an endless loop, and of `Start`. The latter
is the operator: nothing in the repository restarts a stopped worker
(`docs/OPERATIONS_RUNBOOK.md`), the failed report asks to "inspect operator error and
restart from checkpoint". Liveness is therefore "as long as somebody reopens the
stream", and says so. Faults are bounded, so they stop; no fairness is assumed of the
producer.

## 5. Proofs

**Induction over a sequence.** The library's induction theorems take an operator and the
provers cannot instantiate them, so `FoldProofs` does without. The recursive function of
`Folded` is opened once, as a run of partial results: it exists for every length because
there is no least length without one (`WFMin` on the naturals, applied to a set). From it
come `FoldIsRun`, `FoldAppend` (a fold over one more element) and `FoldInvariant` (what
holds of the start and is kept by the step holds of the result). The module is
parameterised by the step and by what holds, with a context as an argument, and is
instantiated wherever a definition folds. `SequenceProofs` applies it to `Chosen`, `Put`
and insertion, and says when two selections agree (`ChosenAgree`); `FindingsProofs`
applies it to the resolution of findings and to incidents: every resolved alert is one
that was raised or joins such alerts, the findings of more alerts widen those of fewer,
and an incident's members are of its source.

### The follower

`ContinuousIngestionProofs` proves, for any sets of workers, contracts, keys, bodies
and lines, any limits, any number of lines, faults and edits:

| Theorem | Statement |
|---|---|
| `TypeCorrect` | `Spec => []TypeOK` |
| `MutualExclusion` | `Spec => []SingleWriter` |
| `DetectorsNeverRefuse` | `Spec => []SessionNeverRefuses` |
| `RecoveryExact` | `Spec => []MemoryIsReplay` |
| `JournalTrusted` | `~LiveEdits`, or no edits at all, gives `Spec => []JournalTrustworthy` |
| `RunCommitted` | `Spec => []RunIsCommitted` |
| `StoreAgreement` | `Spec => []StoreAgrees` |
| `Backpressure` | `Spec => []OutboxBounded` |
| `ContractUnique` | `Spec => []SingleContract` |
| `ViewMonotone` | `Spec => ViewNeverRegresses` |
| `ChangedSourceFrozen` | `Spec => []SourceFrozen` |
| `LimitsKept` | `Spec => []WithinLimits` |
| `ImplementsLog` | `MaxEdits = 0` gives `Spec => LogSpec`: every step of the follower is a step of `StreamLog` or a stutter |
| `NeverStuck` | `~LiveEdits`, or no edits, gives `Spec => []RecoveryNeverStuck` |

`RunCommitted` (the run in the store is one the checkpoint committed) and `Backpressure`
are proved and not checked by a run: the refinement, which a run checks, says more.

Its first part relates memory to file: the outcome computed from a memory
that faithfully remembers the first lines of a file is the verdict the file alone
gives (`OutcomeIsVerdict`), and absorbing a line keeps it faithful
(`AbsorbFaithful`). "Faithful" says of each key, of the high-water mark and of the
session's clock what they are in terms of the lines.

The theorems rest on inductive invariants that speak about what the properties do not
mention. `Core` is `TypeOK`, `SingleWriter`, `PositionsAgree` (memory, journal and
checkpoint count the same lines, uncommitted ones included) and `MemorySound` (the
memory is faithful to the lines it has hashed, even in a failed worker), with
`BatchSound` for the transaction under way. `JournalSound` adds that committed rows
carry verdicts, and is what an edit breaks and recovery re-establishes.
`ReportSound` says the same of the report, of a copy on its way to the store and of
the store's run; `ViewSound` orders the three by the lines they stand for, which is
what makes a repeated delivery harmless. `RecoveryExact` carries, for each worker, that its
memory is the fold over the lines it has hashed, which `FoldAppend` extends by a line.

`FrozenSound` is what a batch under way knows of the file: it is the file's next lines,
or the file was disturbed during it. Without edits only the first case remains, and a commit is then
`StreamLog`'s commit of as many lines as the transaction has rows; an empty batch and a
repeated delivery are stutters. Where a property speaks of a sum over lines (the byte
limit) or of the whole course of a replay (recovery compares offset and findings),
the invariant carries the graph of the recursion, a function with its equations, which each
step extends by one line: `Spent` in `LimitsSound`, `Trace` in `HistorySound`. A worker in recovery is on
the course recorded when the same lines were committed, so it ends where they ended.

Assumptions: the named ASSUMEs of the modules (limits are positive, `None` is no
worker, key, body or contract), each evaluated by TLC in the runs. `JournalTrusted` and
`NeverStuck` also assume that the journal is not edited under a live worker; section 6
shows that it is needed.

### The signed store

`AuditedStoreProofs` proves all ten properties of the two store runs, for any
rows, values, runs, requests and bounds, outside edits and unsigned processes included:

| Theorem | Statement |
|---|---|
| `StoreTyped` | `Spec => []TypeOK` |
| `SnapshotsCurrent` | `Spec => []SnapshotCurrent` |
| `NeverLocked` | `Spec => []NeverLockedOut` |
| `LedgerExplained` | `Spec => []LedgerExplains` |
| `NothingCertified` | `Spec => []NothingSilentlyCertified` |
| `AnchorsFaithful` | `Spec => []AnchorFaithful` |
| `RetentionAccounted` | `Spec => []RetentionAccounts` |
| `ReceiptsBacked` | `Spec => []ReceiptBacked` |
| `DeletionBound` | `Spec => RetentionBinding` |
| `ImplementsSerial` | `Spec => ([]Untouched => SerialStore)`: while there are no edits and no unsigned writes, every step is a step of `SerialEvidence` or a stutter |

Its inductive invariant `StoreInv` says of every ledger there is, the file's, a
copy's, the one a head was retained of, that it is a chain of what was signed, that its
entries explain its states, and that any two of them agree up to the first entry in
which they differ (`OneHistory`): two histories may fork, but a MAC names one of them for
good. Because the steps carry that pairwise agreement along, nothing needs induction over
a ledger. Assumed: the named ASSUMEs `RowsAssumption` and `LimitsAssumption`, and for the
refinement `EventsAssumption` (`None` is no event).

`SerialEvidence` has no lock, transaction, signature, failure or rival: an operation
changes the tables and logs what it was, when, and what it made, in one step. The mapping
takes `state` for its tables, `clock` for its time, and of each ledger entry the event, the
time and the certified state for its log. Beginning, failing, previewing, quoting a head and
writing what is there already are stutters. The proof goes operation by operation: what a
body and its bookkeeping make of the tables, row by row (`ExitedRows`), is what the serial
operation makes of them, a hold kept through a new report and the age it restarts
included; the entry appended is the log's (`ShownGrows`, `ExitLogs`). That a deletion
removes only what was completed, free and stored before now needs `PlansPast`: a
previewed cutoff is never in the future.

### The workbench

`WorkbenchProofs` proves, for any deployments, replays, callers and credentials:

| Theorem | Statement |
|---|---|
| `BackupsCoordinated` | `Spec => Coordinated` |
| `RestoreIsFaithful` | `Spec => []RestoredFaithful` |
| `WritesAuthorised` | `Spec => []Authorised` |
| `DecisionsAreKept` | `Spec => []DecisionsKept` |
| `QueueAgrees` | `Spec => []QueueMatchesRuns` |
| `QueueIsCurrent` | `Spec => []QueueCurrent` where alert ids name their sources; its first half, that a signed store shows what was projected last, always |

`RecoveryInv` follows the copies of a backup through its steps: what was compared under
the locks is what is sealed, and a restore takes the sealed pair or nothing; `BackupFrozen`,
that as long as a backup is under way it holds the store's lock, no worker runs, and each
copy made so far is what journal and tables still hold. `AuthInv` says of
each job and review under way, not only of what was written, that it acts for a
caller who was admitted.

`QueueInv` says of the tables, of every copy of them (a backup's, a bundle's) and of
everything on its way into them that incidents have ids of their own with their source in
them, that alerts are of the sources of their incidents, and that the rows a completed
run lists are there (`Sound`, `Proper`). `Grown` is what every write keeps to: it loses
no row and changes no status but a review's. A cutover is the exception, for which
`RecoveryInv` is needed beside it: the tables become a sealed pair's, which are sound as
they were. `CurrentInv` adds the history of projections: a review under the immediate
lock holds the payload the row still has, and each row shows what was projected last but
for status and conclusion.
`CollisionFree` is a condition, not an assumption: alerts of several captures correlated on the command
line may share an id over different sources, and then an incident shows the other's
alert; `QueueIsCurrent` says what holds then as well.

Assumed: `CredentialsAssumption`, `OriginsAssumption`, `ScenesAssumption`,
`NamesAssumption`, `AlertsAssumption` (alerts have an id, a source and times; within a session an id
names a source) and `LegacyAssumption` (the saved demonstration was written by a store like this one).

### The analysis session

`AnalysisSessionProofs` proves, for any traffic, profiles and thresholds, and any number of events
and restarts:

| Theorem | Statement |
|---|---|
| `WindowsAreExact` | `Spec => []WindowsExact`: each of the eleven kinds of window holds what a scan of the whole history would choose for it, the exfiltration detector's across all runs |
| `CooldownsAreHonest` | `Spec => []CooldownsHonest` if the exfiltration cooldown is not negative: at every match an alert under its key was raised less than a cooldown before, and no two are closer than that |
| `FindingsNeverVanish` | `Spec => FindingsSurvive` if the models' scores are numbers: a finding, once shown, is in every later view of its session, as wide and as strong, unless it is a SYN flood whose flows a scan explains |
| `EveryFindingInOneIncident` | `Spec => [](session = 1 \/ Forward => IncidentsPartition)` if scores are numbers and scans, floods and look-ups have a cooldown: each finding is in exactly one incident, which covers it, and a source's incidents lie apart |
| `RestartsAreInvisible` | `Spec => []RestartsInvisible`: the exfiltration detector, saved and restored at any points, is as if it had never stopped |

`SessionInv` has three parts. `TimeInv`: where another detector than exfiltration is on, the
history is in order of time and the session's clock is its end, because the session
refuses an older event; where it is alone, sessions restart and nothing is assumed of the
order. `IdleInv`: a detector that is off is as it was built. `WindowsInv`: each window
is `Exactly` the chosen events of the history within the span before its last event. A
step appends to a window and evicts, and in order of time that is what the definition
over the whole history does (`AddedInOrder`, `SessionWindows`). The definitions scan the
history with a filter; that two filters agree on it is the induction of `SequenceProofs`.

The exfiltration windows outlive a session, and the next one may read an older file, so that
the history is not in order of time and "the last ones of it" is no description of a window.
`TransfersInv` says of each what is true in any order: it is in order of time, and at
every time it has, in order of arrival, what arrived of that time, or nothing if
that time lies more than the span before the newest (`MergedIn`). An event inserted in its
place extends its own time and no other (`OfTimeInserted`, from the two parts that
`InsertedParts` cuts the window into), and eviction drops whole times
(`OfTimeAfter`, `MergedStep`). That a restart changes none of it is `RestartInv`, below.

A cooldown is a map from keys to times, and the property is about all the alerts ever
raised. `HonestInv` ties them: of each detector, `Tracks` says that its map holds for every
key the end of some alert raised under it, and of the last one. An event offers a detector
a sequence of findings, one after the other (`Spaced`), and each is either raised,
which moves the map along, or hidden by an alert that is there (`OfferedStep`,
`SpacedStep`). What every detector does of this is `Speaks`: it finds something that does
not depend on its cooldowns, raises what is ready of it, and would have raised no more than
it found had nothing cooled down. An event passes four detectors in turn (`SpeakStep`, once for each). Two
findings of one event may share a key: a DNS tunnel whose domain has the name of a
campaign is hidden by that campaign, `_cooldown_ready` being called rule after rule.
That the alert in a map is the last one, and not merely some one, needs either the order
of time or a cooldown that is not negative. The session gives the order, but not across
the command line's runs over a kept state, which may read older files. The exfiltration
detector's configuration is not checked, so there it is a condition of the theorem: with
a negative cooldown two of its alerts can be closer than it.

Across restarts events are not in order: a late one is inserted in its place, and what is
saved is only the events of a window and the baselines, from which a new detector is
rebuilt event by event. `RestartInv` says that this loses nothing: each window is in order
and within its span of its last event, so rebuilding evicts nothing (`ActiveRebuilt`); no
baseline is longer than its limit, so remembering it again drops nothing
(`ShortRemembered`); hence restoring what was exported gives the state back (`KeptSound`), and the
state of the detector stays the fold over the whole history that `Uninterrupted` is.

That a finding is never taken back compares two resolutions, of some alerts and of those
and more. `Stands` are the alerts that no scan contradicts. `ResolveShows` says what
the resolution makes of them, in whatever order they come: each is widened in a finding, no
family has two findings, and a finding is no wider and no stronger than its alerts
together (`Built`). So if all the alerts behind a finding still stand among more alerts, the
finding there covers each of them and hence the old one (`BuiltWidens`); and one that
no longer stands is a SYN flood whose flows a new scan has, and the scan, which nothing
contradicts, is in a finding (`FindingsWiden`). This needs every alert to be `Full`: its times and its
confidence are numbers, for otherwise merging two of them by minimum and maximum means
nothing. `FullInv` is that, with what it takes: windows are never empty, a start
is the time of an event in one, and every quotient in a confidence has a positive divisor,
which is a window's length or a threshold that the configuration checks. The scores of
the domain model and of the feature vectors are constants of the model, so that they are
numbers or absent (`ScoresNumeric`) is the condition of the theorem, as their code returns it.

That incidents partition the findings is first a fact about the algorithms
(`FindingsPartition` of `FindingsProofs`). Findings come in order of their starts, so of the
incidents of a source only the last can be near the next finding: that one either joins it
or lies more than the correlation window behind it (`CorrelatedParts`, along the fold by
`IncidentsParted`). What can go wrong is identity: an incident takes a finding whose id it
lists for one it has, it is itself named by its source and start, and a finding bears the id
of one of its alerts. So findings of one id must have one source and one end (`Orderly`). The theorem
therefore asks that alerts end no earlier than they start, and that two that share an id be
`Twins`: of one family, and so in one finding, or ending together with nothing of
their families after them (`PresentedOrderly`). `LabelInv` shows it
of a session. Every alert is `Labelled`, its id and cooldown key made of its own parts; ids of beacons, transfers
and encrypted sessions name the family. Those of floods, look-ups and scans do not,
but a key has one alert at a time while there is a cooldown (`SameAlert`, from
`HonestInv`), which the defaults have and the configurations do not insist on: `recon.py:23`
and `ddos.py:46` refuse only a negative one and `dns.py` none. Only a scan still open at
the end may share the id of one that was raised, and it ends with the last contact of its source
(`SnapshotsClose`), after which no scan of that source ends (`Follows`). That an alert starts no later than
it ends is `AllDated`: no window holds an event from after the latest one. It fails where the command line
starts over kept transfers with older events, so for later sessions it is a condition
(`Forward`): an incident opened by an alert that starts after it ends can fall outside
its own window, and a later alert of the same source and start would then open one of the
same name in its place. The `analysis` run checks `IncidentsPartition` in restarted sessions
as well.

Assumed: the `ConfigAssumption`s of the detectors (limits and windows are positive),
`TrafficAssumption` (times are integers, every event has a kind, and the bytes, packets and
supplied scores of an event are integers), `CooldownsAssumption`
(so are cooldowns) and `ProfilesAssumption`.

### The operator's commands

`CommandsProofs` proves, for any number of bundles, places, writes, faults, paths, commands and
corpora:

| Theorem | Statement |
|---|---|
| `RestorationSound` | `RecoverySpec => []RecoverySound`, with no assumption on the constants |
| `PromotionEarned` | `PromotionSpec => []PromotedEarned` |
| `SessionsAuthorised` | `DeploymentSpec => []SessionAuthority` |

`RestoreInv` states what each step of a backup and of a restoration knows at its point, and which of it
a fault may take away. `PromotionInv` says of every artifact on disk, and of what each
command is about to write, what its checksum stands for: an intact candidate, alone or
inside an evaluation, is what fitting makes of a manifest whose corpus loaded with its
splits apart, and a model has earned its place. The choice of an operating point is a
best one because the points are finitely many and their hits are numbers
(`PromotionAssumption`: sources and contents are finite, a variant is a number).
`ServiceInv` adds what a session that is opening has checked and what it has read since,
which is where a policy may still change.

The module also proves of `Intake`, for any inputs and limits:

| Theorem | Statement |
|---|---|
| `QualityIsTrue` | `Spec => []QualityTruthful` |
| `JoinsAreCausal` | `Spec => []JoinCausal` |

`FilesInv` follows the reader: the counters of the current file are the account of
the records read so far (`Account`), and a status of healthy says of the files before that nothing in them was
refused, repeated or late (`TotalSound`). `EventsSound` says that events are records'
own. `CaptureSound` says that the counters of a capture miss no packet that was cut, late or
ambiguous (`CaptureTally`), and that a connection with an identity of its own has heard exactly its
own packets, the most recent of them kept (`Heard`): what a session joined to it was
given. Assumed: `SourcesAssumption`, times not before 1970 among it (section 6).

And of `Benchmark`, for any corpora, labels, limits and analyses:

| Theorem | Statement |
|---|---|
| `EvaluationsStand` | `BenchmarkSpec => []EvaluationStands`: nothing leaked into what a report measures, and the two scorers tell one story |

The invariant is short (`Report`: a report comes from an audited corpus and pools the scores
of its split); the argument is about the scorers. The live one forms its units from the
accepted records, the benchmark's has them declared over all records. Identities being unique
in an artifact (its audited count), the live units are exactly what remains of the
declared ones that were reached (`LiveUnits`), no two of which become one
(`LiveCounts`, because declared units are disjoint), and an alert, which is over accepted flows,
meets what remains of a unit where it meets the unit (`MeetsAlike`). So each cell of one confusion
table is a count of the same units as the other's, up to those of which nothing was
accepted (`ScoresAlike`). The pooled tables are sums over the artifacts: the
recursion of the community modules' `SumFunction` is opened once (`SumIsRun`), and sums are additive by a least
counterexample (`SumAdds`). Assumed: `BenchmarkAssumption` (corpora are finite, an
analysis sees accepted flows only).

### Only model-checked

Liveness (`EverythingDelivered`), which is out of the prover's reach.

## 6. Disagreements between documents and code

- `docs/SPRINT_12.md:76`, "Checkpoint or source tampering, truncation or
  replacement stops processing": `poll` checks the source before every batch but
  reads no journal row again; a row altered under a live worker is noticed at the
  next start. Run `ingest_tampered`.
- `docs/SPRINT_18.md:5`, "Completed replays can be downloaded": a completed stream is
  saved without its run id, so every export of it is answered with 409. Run
  `workbench_export`.

Observed while modelling, each kept in the model as it is in the code, without a sentence
of the documentation that it plainly breaks:

- An over-long line stops the worker (`docs/SPRINT_12.md:74`) and, as a failure rolls back
  the whole batch (`:34`), good lines read before it in that batch wait with it.
  `EverythingDelivered` states the exact condition under which a line is delivered.
- `set_status` of an unsigned or PostgreSQL store reads the payload before it locks; a
  projection in between is lost until it is repeated. `QueueCurrent` is stated of the
  signed store, which holds the lock.
- An alert that is projected again under another incident disappears from the older one
  that still lists it as a member (`README.md:755`).
- The provisional incident of a stream's SYN flood has another id than the scan it is
  resolved to (`docs/SPRINT_12.md:40`, `README.md:1344`); it is saved with the run only.
- `correlate-alerts` run again over alerts that were stored counts their contribution
  twice (`docs/BUILD_WALKTHROUGH.md:243`, `:340`).
- A latest time of zero is taken for none (`passive_replay.py:194`), so a record after one
  of 1970 counts as in time. A packet whose two ends are the same counts as ambiguous.
- The exfiltration detector resumed over an older file raises an alert whose start is
  after its end. A reconnaissance alert's id leaves its destination out.
- A flow export with an impossible time, or an infinite counter, raises past the
  per-record handler and ends the replay. JSONL whose first line is malformed is refused
  as a document.
- The deployment policy is read again after its digest was checked.
- `dns_calibration` creates its output before writing it: a killed command leaves a torn
  file that no later one replaces. `dns_model.load` takes any JSON object that is not a candidate.
- The live scorer has no entry for UDP floods and counts only accepted records; the
  benchmark keeps units of rejected records in its denominators.

## 7. What is left out

Not modelled in ContinuousIngestion: quality counters and report layout; `--once`,
which only ends the loop earlier; path checks before the lock is taken; an unfinished
fragment that is itself over-long (it stops the poll as the finished line would); a
missing repository (`_publish` returns at once). A file edited back to its former
content between two steps of one poll is possible in the model as it is in the code.

Not modelled in AuditedStore: `verify_export`, a comparison; reads outside
transactions; the ten-second wait for SQLite's lock, after which a caller sees an error
and nothing has changed; the rewriting of old incident conclusions when an unsigned repository opens, which
is one of the writes `UnsignedWrite` stands for and an action of its own in Workbench. The
order of the four kinds of `records` and their foreign keys are in AnalystStore.

Not modelled in the detectors: terms of confidence and severity that no threshold or
merging reads, evidence text, real-valued entropy and n-gram probabilities (attributes of
the name), negative timestamps. In Findings: the wording of conclusions and recommendations;
findings of one time stay in order of arrival, where `findings.py:50` goes on by type and
subtype, and no property depends on it. In AnalysisSession: the cap of 20 look-ups named with
an alert and the dropping of expired ones (`passive_context.py:16`); the window of
look-ups is compared where they are read, so that an expired one is never named.

The ledger of a signed store is in AuditedStore, and Workbench has of a download what
Workbench is about: who caused the record. Its entry, receipt and head are
`RecordExport` and `IssueReceipt` of AuditedStore, as retention holds and the rules of a plan
are `SetRetentionHold`, `PreviewRetention` and `ApplyRetention`; `Retire` is what an applied
plan does to the runs.

Not modelled in Workbench: CORS preflight, notes of a feedback, pagination, metrics,
serving of files; `_reconstruct`'s comparison of source and engine in
`stream_recovery.py`, which refuses more than the model does; a stream that was left
stays "running" and nothing is said of its end. PostgreSQL is a dialect shim over the
same queries and behaves as an unsigned store there.

Not modelled in Intake: packet headers, TLS parsing and Zeek itself, one outcome each;
`preflight`; path translation for WSL. In ModelPromotion: n-gram fitting, `train-dns`'s
metrics and card. In Benchmark: ratios, intervals, error examples, the CTU-13 reader, the
protection of outputs, and `pipeline_evaluation`'s comparison of two pipelines.

The web dashboard presents answers of the API and keeps nothing; `evaluation.py` and
`pipeline.py` time and compare runs. Neither is modelled.
