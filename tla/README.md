# Verification of the job protocol and of the work it carries

TLA+ specifications of novel-agent: a Go **Control** plane (`src/apps/control`) that owns projects,
documents, catalogues and jobs as users see them, and a Python **Runtime** (`src/apps/runtime`) that runs
the jobs. The two have a database each and share nothing but messages (RocketMQ): commands one way, events
the other.

## 1. The system

| part | state | operations | talks to |
|---|---|---|---|
| Runtime job store (`infrastructure/postgres/messaging.py`, `jobs.py`) | `runtime_jobs`, `command_inbox`, `runtime_cancellations`, `runtime_event_outbox` | accept a task, a cancel, a resume; claim, renew, finish; record model calls and artifacts | workers (leases), relay |
| Runtime workers (`execution/worker.py`, `entrypoints/messaging.py`) | the claim a process holds, its handler's outcome | poll, heartbeat, run the handler, finish; crash, shutdown | job store, model providers |
| Content handler (`execution/handlers.py`, `workflows/content`, `domain/content_adapters.py`) | draft under review, `model_calls`, documents in the object store | look at the budget, plan, write, review, check; publish an approved draft, revise | providers, object store, job store |
| Control submission (`modules/execution/postgres`, `modules/task`) | `jobs`, `command_outbox`, the version frozen in a request | run, generate, cancel, resume | relay |
| Control projection (`mq_repository.go` `Project`, `task/state.go`) | `jobs.status`, `last_event_sequence`, `runtime_event_inbox` | store an event, apply those whose turn it is | content |
| Document versions (`modules/content`) | `documents`, `document_versions` | append by hand, commit a job's version | projection |
| Messaging (`platform/messaging`, `infrastructure/mq`) | published marks, acknowledgements | relay, receive | both planes |
| Video (`postgres/media.py`, `workflows/media/video.py`) | the remote task of a job | reserve, submit, poll, cancel, reconcile | provider, job store |
| Image, speech, music, sound (`generated_media.py`) | one paid call, its products and receipt | reserve, submit, archive, recover, review | provider, object store |
| Compositions (`workflows/media/compose.py`, `domain/timeline.py`, `assembly.py`) | `composition_runs`, the timeline, the rendered film | assemble, render, archive, cancel | object store, ffmpeg |
| Novel workflow (`workflows/novel`) | one checkpoint per project, chapters, versions, candidates, canon | plan, write, check, review, revise, commit | job store, models |
| Memory and knowledge (`schedule_memory`, `_commit_memory`, `execution/operations.py`) | memory nodes and facts, packs, bindings | schedule, refresh, read as context; publish, bind, unbind | event topic, job store |
| Productions (`modules/production`) | a run, its children and stage | create, advance, cancel, resume, recover | submission, projection |
| Governance (`modules/governance`) | skills, prompts, packs, policies, model profiles and routes | edit, publish, bind, delete; freeze for a submission | submission |
| Identity (`modules/identity`) | members, roles, sessions | register, log in and out, change members | every endpoint |
| Exports (`modules/project/transfer`) | `project_transfers`, goroutines in two slots | queue, render, cancel, recover | |
| Tools (`src/tools`) | `platform_migrations`, the row of a restore, an environment file, `legacy_import_rows` | migrate, seed, back up, restore, import, upgrade the keys | databases, object store |
| Evaluation, observability, HTTP, object storage | rows or streams of their own | | |

What is hard: unordered topics that repeat messages; workers and renderers that outlive their lease or their
claim; calls in threads that commit after their handler was interrupted; providers that charge for a call whose answer
is lost; cancellations that race everything; a projection that folds events that come too early; versions, routes,
roles and briefs that are read at one time and used at another; answers of reviewers that outlive the review.

What makes each part correct:

* **job store and workers** - one worker at a time, stale workers write nothing, the log tells every transition,
  an end is final, a cancellation wins, an approved draft is what is published, every job comes to rest;
* **submission and projection** - one mutation per project, Control never shows an end that did not happen, what it
  assumes gives way to what the Runtime says, every end is shown;
* **document versions** - a version has the number its job was given, and only completed jobs have one;
* **content generation** - what is published was approved, by a human or by a model and the checks; what is shown is stored and
  accounted for; a project's token budget is kept;
* **paid media** - at most one billed call per job, nothing paid for is written off, a doubt is shown to a human;
* **compositions** - one film whichever render wins, a stopped render stays stopped, sound and frames in step;
* **novel** - every chapter checked under the brief it was approved under, the committed book whole, an answer
  counts for the review it was given to;
* **memory, knowledge** - a memory is of one reading, packs and creations have of it what there is room for, a staged
  request takes effect with its completion;
* **productions** - one run per key, stages in order, nothing left running after an end, every run settles;
* **governance** - no lost update, what is frozen resolves for ever, what is bound is usable;
* **identity** - members are changed by who is an owner then, and an owner is left;
* **exports** - the last claim ends the export, and every export ends;
* **tools** - a restored target is of one archive and whole, every database has the migrations of one list in order, a
  key that is in use is not lost, what an import reports is all there.

## 2. Modules

| module | models | composes |
|---|---|---|
| `JobLifecycle` | the promise: the states of a job, ends are final, an asked cancellation is the end | |
| `LeasedJob` | the promise to handlers: one job, claimed under fencing tokens, taken away, cancelled, reviewed | |
| `RuntimeJobs` | `RuntimeMQStore` and `DurableWorker` | implements `JobLifecycle`, and `LeasedJob` for each job |
| `ControlJobs` | `MQRepository`, `ProjectState`, `CommitGeneratedVersion`, `EnsureIdle` | |
| `JobProtocol` | both planes and the topics between them | `ControlJobs`, `RuntimeJobs` |
| `MediaTask` | `execute_video_task`, `PostgresMediaTaskStore`, the video provider | `RuntimeJobs` |
| `GeneratedMedia` | `execute_generated_media` and its store, the one paid call | `LeasedJob` |
| `MediaAnswers` | the answer to a paid call: product, refusal or doubt (`infrastructure/media`) | extended by `GeneratedMedia` |
| `Composition` | `compose_content`, its store, the renderer's process | `LeasedJob` |
| `Timeline` | `assemble_timeline`, the validation of a `Timeline`, the cut into frames | |
| `ContentAdapters` | `domain/content_adapters.py`: the findings of a generated document | extended by `Creation` |
| `Creation` | `generate_content`, the graph of `workflows/content`, the token budget | |
| `Novel` | `run_novel`, the graph's nodes, the checkpoint and workflow stores | |
| `Knowledge` | memory jobs, creation contexts, knowledge operations and their projection | |
| `Production` | `modules/production` | |
| `Governance` | `modules/governance` and the freeze of a submission | |
| `Identity` | `modules/identity` | |
| `Transfer` | `modules/project/transfer`, exports | |
| `Restore` | `platform_backup.py`: archives and their restore | |
| `Deployment` | `platform_migrate`, `platform_external_prepare`, the seeds, `platform_config_upgrade` | |
| `LegacyImport` | `platform_legacy_export`, `platform_legacy_import` | |
| `Installation` | the tools, side by side | `Restore`, `Deployment`, `LegacyImport` |
| `RuntimePlane` | the Runtime's jobs that share no row, side by side | `GeneratedMedia` with `Composition`, `MediaTask`, `Novel`, `Creation` |
| `ControlPlane` | the parts of Control that share no row, side by side | `Production` with `Identity`, `Transfer`, `Governance` |
| `BothPlanes` | the protocol of the jobs beside the memories | `JobProtocol` with `Knowledge` |
| `RuntimeJobsProofs`, `MediaTaskProofs`, `CompositionProofs`, `NovelProofs`, `KnowledgeProofs` | theorems about the module each is named after, `CompositionProofs` about `Timeline` too | |
| `RuntimePlaneProofs` | theorems about `GeneratedMedia`, `MediaAnswers`, `Creation` and `ContentAdapters`, and what the parts of `RuntimePlane` promise | the three proof modules of its parts |
| `ControlPlaneProofs` | theorems about `Production`, `Identity`, `Transfer`, `Governance`, and what `ControlPlane` promises | |
| `JobProtocolProofs` | theorems about `JobProtocol` and `Installation`, and what `BothPlanes` promises | `RuntimeJobsProofs`, `KnowledgeProofs` |
| `MCRuntimeJobs`, `MCJobProtocol`, `MCMediaTask`, `MCProduction` | instances of one module each | |
| `MCRuntimePlane`, `MCControlPlane`, `MCBothPlanes`, `MCControlLive` | instances of the planes, one part per behaviour | |

A *plane* module puts components that share no row next to each other: its own state is one component's, the others are
instances with variables of their own, and a step is a step of one of them while the others stay. It names the properties
of its parts, so that the runs check and the theorems prove one and the same formula.

### RuntimeJobs

One variable per column that matters: `status`, `fence` (the fencing token; `attempt` moves with it), `owner` and
`lease` (`lease_owner`, `lease_expires_at` as none/live/expired), `result` (the content version it names, 0 for
none), `resumeInput`; `inbox` and `cancellations` are tables; `events[j]` is job j's part of
`runtime_event_outbox`, an event's position being its sequence number. `worker` is what each process holds in
memory.

* `AcceptTask`, `AcceptCancel`, `AcceptResume` are the handlers of the control and task topics, one transaction each.
* `Claim` and `ClaimNothing` are `claim_next`, *with* the sweep of abandoned cancellations that precedes every pick
  (and is committed even when there is nothing to pick).
* `FencedOut`, `HeartbeatCancelled`, `HandlerReturns`, `Finish`, `FinishLost`, `WorkerStops` are the ways through
  `DurableWorker.execute`: the outcome is computed in memory (`HandlerReturns`) and written by a later transaction
  (`Finish`) that looks at the row again, which is where cancels and lost leases interleave.
* `RecordModelCall` and `RecordArtifact` append the events handlers emit; the second is refused under a cancel.
* `LeaseExpires` is the passing of time. A lease may expire under a worker that is still at work.

The content handler is a choice of its outcomes, restricted by what it reads of the claimed row: with an approved
draft in `result` it publishes that draft (`Creation` has it step by step). A version is named after the claim that wrote it (the code hashes job id
and fencing token), so it is modelled by the fencing token.

### ControlJobs

`outbox` is the set of commands submitted, `jobStatus`, `sequence` and `frozen` are columns of `jobs`, `received` the
sequence numbers in `runtime_event_inbox`, `versions` who wrote each version of a document. `SubmitMutation` is
the second transaction of `SubmitCommand`, `SubmitGeneration` that of `generateWithSnapshot` (no idle check), each down
to `SubmitWithin`; the partial unique index of migration 020 is `IndexFree`, and it also stands in the way of
`SubmitCancel` and `SubmitResume`. `Project` stores event i and applies every event whose turn has come;
a failing commit rolls back the whole transaction, which leaves the message unacknowledged.

### JobProtocol

A command in the outbox and an event in the log may arrive at any time, in any order: publishing, marking and
acknowledging are abstracted to "it is deliverable from when it was written". A repeated delivery is a no-op
because of the inboxes (`NewInInbox`, `received`), so it needs no action of its own: delivery of what is stored is
not enabled. A message whose handler raises stays deliverable.

### MediaTask

The handler of a video job, step by step, under the leases of `RuntimeJobs`: where that module lets a handler return
what it likes, this one runs `generate_video`. `task` is the `media_tasks` row, `remote[j]` the provider's
tasks of job j in the order of their POSTs, `usage` the rows `_record_video_usage` wrote to `model_calls`, `step` where
each worker's handler is. Each store method is an operator that gives the rows it may leave, none when it refuses;
each `await` is a step boundary, so that between two steps a cancel, a crash or another worker may act.

* `StoreAnswers` and `StoreFails` are one store call with all the handler does until its next `await`; `Plan`,
  `Post` and `Answer`, `Reconcile`, `Poll`, `Deadline`, `Delete` and `Publish` are what it does between them. `Post` and
  `Answer` split the POST, so that the provider may have made a task the Runtime never hears of.
* `Deliver`, `Claim` and `Finish` add `_media_cancellation_payload` to the transactions of the job store that call it.
* `Interrupt` is the heartbeat that sees a cancel: the handler may still mark its POST as unknown or try to DELETE
  (`CleanUp`) before the job is finished. `FencedOut` and `WorkerStops` end a handler without that.
* `late` holds store calls whose handler was interrupted: `asyncio.to_thread` cannot stop the thread, so the call may
  still commit while its lease is good (`LateCommit`).

An operator who reconciles names a task of this job: the code checks the id and the model with the provider, not whose
order it was. The check of the frozen route and a `committed_version` of an earlier claim, which Control puts in
the bundle of no claimable job, are left out.

### LeasedJob, GeneratedMedia, Composition

`LeasedJob` keeps of a job what its handlers can tell: status, token, whether the lease is good, what a reviewer
answered. `RuntimeJobs` is checked to implement it for each job (`LeasesJobs`), so that the handlers on top of
it need not carry the log and the inbox.

`GeneratedMedia` has one step per store call, upload and POST of `execute_generated_media`. `Get` is what makes a call
that was begun under another claim an unknown one; `Recover` looks for the receipt and never posts again; `Settles` is
`_media_cancellation_payload`. `late` holds calls in threads whose handler has gone: store calls still ask for the lease
when they commit, uploads do not. The four modalities differ in data only and are one model. `Load` is the read of the
frozen input that precedes every handler.

`MediaAnswers` says what becomes of an answer: any list of images, body of bytes or stream of events a provider may send, or a
status. That a provider refuses nothing it has made, and delivers nothing it has not made, is assumed of it (`HeardWhenMade`, `HeardWhenNot`).

`Composition` differs where rendering does: it may be repeated, two renders need not give the same bytes
(`Films`), and the objects are put with If-None-Match (`MayPut`). `Rendering` is the part of the handler an interrupt
turns into a stop of the process.

`Timeline` lays out a film shot by shot: each as long as it was planned or as what is said in it (`AddShot`), music and
effects (`Score`, `AddEffect`), the validation (`Assemble`), then what the renderer makes of it, one shot's frames at a time (`CutShot`), and the
mix (`Mix`). Lengths of files are in microseconds, the timeline in milliseconds, the film in frames; rounding at each border is where they could part.
The timelines are those that are assembled, whose sources start at 0.

### Creation, ContentAdapters

`Creation` is the content handler for the jobs of one project. `rows` keeps of a job what the handler reads and writes of it, `writer` what each process is
at, `spent` and `calls` the rows of `model_calls`, `stored` the documents in the object store; `agreed` and `liked` are history variables: which version a
human approved, and whether the reviewing model did.

* `Submit`, `AskCancel`, `AskResume`, `Expire`, `Claim`, `Finish`, `Cancelled` and `Leave` are the job store and the worker around it, as in `RuntimeJobs`. A
  cancellation takes the draft out of the row, as `accept_control` writes another result.
* `Begin` publishes the draft that was claimed, unless it is to be revised, and starts from nothing otherwise; `Recall` reads the memories and packs the job requires.
* `Check`, `Ask` and `Record` are `invoke_structured` and the recording around the model: the budget is looked at before the call and what it cost is written after
  it, in transactions of their own, by however many processes. An answer that cannot be read costs its tokens and is asked for once more (`Unreadable`).
* `Upload` puts the document, `Artifact` is `record_artifact` and the decision: completed if the draft is `Approved`, to be reviewed by a human if not.
* `Fail` stands for every refusal on the way that is not worth another attempt.

`ContentAdapters` has the findings of a document as sets of blocks: a block has an id, a type, a character, a place in scenes and episodes, and its sources. The
wording of a finding is left out, its code and block are kept. `Sound` says what a reader takes from a document without findings.

### Novel

`ck` is the latest checkpoint: the next node, the brief it is under, the draft, what the consistency check saw, the
book, the answer the graph was given. It outlives jobs; a job claims the project's lock, brings the checkpoint up to its
brief, gives it the answer and drives the graph node by node, each write refused without the lease. LangGraph's own part
(an interrupted node starts again from its top when it is resumed, a checkpoint after each node) is an external
abstraction. A text is a number, given when a model writes; `of`, `checked`, `under` and `shown` remember which text
a reviewer saw, which the check saw and under which brief. A canon operation, a restored version or candidate, a revised
brief and a failed save are the ways on which a text could get past a check.

### Knowledge

A version is the creation that commits it. `Schedule` makes its memory job, `CommitMemory` is `_commit_memory`: all nodes
of one reading or none. A creation reads facts, summaries and packs in statements of their own (`RecallFacts`,
`RecallSummaries`, `RecallPacks`) before `SavePlan` keeps what it got. A knowledge operation stages its request under its
lease and commits it in the transaction of `finish`; Control applies completions in any order across jobs (`Project`).
`after` is a history variable: what had been projected when an operation was submitted.

The queries have a LIMIT each: `FactLimit` (40 facts of the project, `messaging.py:573`), `SummaryLimit` (20 summaries, `messaging.py:586`) and
`PackLimit` (1000 nodes of a pack, `knowledge.py:87`). `Limited` returns all that is found, or as many rows as the LIMIT allows,
whichever those are: the orders are by when transactions began, by numbers of document versions and by hashed ids. `Remembered` are versions the project may have
remembered before. So a creation may miss facts of a version it required: a reading may hold 50 facts (`handlers.py`, `refresh_memory`), 40 of the whole
project are read. `RememberedAsRead` says what is left: a memory is one claim's reading or nothing; packs and
contexts hold of it nothing else; and of a version in a pack, or of one a creation required, something is missing only where the LIMIT is full.

### Production

`run` is the row, `child` the status of each slot's job, `committed` the slots whose version exists, `tx` what each
actor (a user, the recovery loop) does and what it has read. A transaction is two steps, because children are read in a
statement of their own and move before it writes (`Begin...`, then the body). A contract error of a child's
request rolls Advance back and starts the failover. Creation freezes one kind after the other outside any transaction and looks
the row up again under an advisory lock.

### Governance, Identity, Transfer

`Governance`: `versions[i]` are the rows of an item, `edit` what an editor has read before its lock, `snapshot` what a
submission has frozen in three transactions. Skills, prompts, packs and policies differ in what makes a version valid.

`Identity`: one workspace. `request` holds what an authenticated request still has to do, so that roles change before
it does it; `OwnerNow` is the role read again under the workspace's lock.

`Transfer`: `task` is a goroutine of `Execute`; `claim` stands for `updated_at`, by which `FinishTransfer` tells its own
claim from a later one. `Recover` is the loop of a minute, which queues again what runs too long.

### Restore, Deployment, LegacyImport

The tools are run with the services stopped, one kind at a time; runs of one kind may overlap, and stop anywhere.

`Restore`: `target` is what each database was loaded from and its row of `platform_restore_progress`, `bucket` the object under each
key. `pg_restore` loads a database in one transaction, another notes the phase, and objects follow one by one; a run looks at the whole target first.

`Deployment`: `schema` are the migrations run, `ledger` the rows of `platform_migrations`; each migration is one transaction under an advisory
lock, roles and databases are made one by one by whoever finds them missing, the seeds of prompts and policies publish a version where the text
has changed. `upgrade` is the environment file being rewritten, `secret` the key each database's values are sealed with.

`LegacyImport`: a project is written in several transactions, in two databases, one of them open while the other is committed; every row is inserted only if it is not
there. `reported` keeps what an import has said it did. An export is imported by one operator at a time.

## 3. Runs

TLC runs take a minute or a few each. The parts of a plane are checked in one run: in `MCRuntimePlane`,
`MCControlPlane` and `MCBothPlanes` the variable `part` picks one at the start (`PartSpec`), and only its variables move. Nothing is lost:
parts that share no state cannot disturb each other, which the theorems `PartsWithin` of the planes prove.

| run | instance | question |
|---|---|---|
| `RuntimeJobs` | 1 job, 2 processes with one worker id; run, cancel, approve and revise; 2 attempts, 2 lost leases, 2 records | does the store keep its log, fence, seal, honour cancels, implement `JobLifecycle` and `LeasedJob`, and let every job come to rest? |
| `JobProtocol` | 2 mutations of one project and document; run, cancel, approve, revise; 1 edit by hand, 1 lost lease | do the two planes agree, and do versions land where they were frozen? or, in its other parts: are memories, packs and contexts of one reading, as far as there is room, do effects go with completions, are bindings shown as they are; do the tools leave whole what they restore, install and import? |
| `JobProtocolLive` | a mutation and a generation with documents of their own, a cancel and a resume | does Control learn of every end, and is every cancellation settled? |
| `MediaTaskLive` | 1 video job; run, cancel, resume; 1 lost lease, 1 record | does the video handler always end? |
| `RuntimePlane` | each part below with 2 processes (or 1) | are paid calls made once and accounted for, films single, books whole, creations approved and within the budget? |
| `ControlPlane` | each part below | are the Control plane's read-then-write operations right however they interleave? |
| `ControlLive` | a production; two exports for one slot | do Control's loops get their work done? |
| `EndLost`, `ProductionReview`, `PaidAssetLost`, `ChapterUnseen`, `CanonApproved` | | *violated*, see below |

Parts of `RuntimePlane`: *media* and *film* (2 processes, 3 claims), *cut* (up to 3 shots, one effect, 3 rates), *video* (1 job; run, cancel, approve, reconcile; 1 lost
lease), *book* (2 chapters, 2 jobs, 2 briefs, 3 texts), *desk* (1 chapter and every operation), *blueprint* (the plan's
reviews, a scene written again), *draft* (1 creation, 1 process, 2 claims; 72 drafts of a cast, a scene and a dialogue over a source of two blocks, planned, written
and reviewed, a second draft being flawless), *budget* (2 creations, 2 processes, 2 claims each; one draft, a limit of 3 tokens and calls of 2; nobody cancels or answers). *desk*, *blueprint* and *draft* have other constants than the plane's, over the same
variables; the theorems of `NovelProofs` and of creations hold for them as for any. Processes, and films, are interchangeable (SYMMETRY); the run has
invariants and one action property, for which that is sound.

Parts of `JobProtocol`: *protocol* (the row of the table), *recall* (a creation, and one of the same project that requires its memory; 2
processes, 3 claims, 2 lost leases), *crowd* (the same beside another version that is remembered already, with more facts and summaries than
the LIMITs; 1 process, 1 lost lease), *share* (a project publishes while another binds and unbinds; 2 processes, 1 lost lease) and *lend* (a
creation of the borrower, and a pack of 1 to 3 nodes, of which it holds 2; 1 process). `Within` gives each of the last four its jobs and its bounds. Then the tools: *restore* (2 operators, 2
archives that share a key, 4 runs), *install* (3 tools of 3 releases, of which one adds migrations and one has altered them), *keys* (the upgrade of the
environment file) and *import* (2 importers, 2 exports of which one novel is in both, a sealed key, 3 runs).

Parts of `ControlPlane`: *skills*, *packs* and *routing* of the catalogue (2 editors, one submission, 2 or 3 versions),
*productions* (2 posters of different bodies under one key, a user and the recovery loop, one shot, a fragile slot, one
republished routing), *members* (2 users who may both be owners, 2 requests, 3 sessions), *exports* (2 exports, 3 goroutines, 2
slots, 2 faults, one renderer slower than a minute).

Bounds. `MaxLosses`, `MaxClaims`, `MaxReclaims` bound claims and lost leases: one loss gives a stale worker, two a stale
worker and a lost successor; three claims a call that is late by two. `MaxAttempts` = 2 has both a retry and the last
attempt. `MaxRecords` bounds events that only lengthen the log. `MaxAhead` = 2 fills a gap from behind. `MaxEdits` = 1 is one
version by hand between freeze and commit. With `MaxFacts` = 2, `FactLimit` = 2, `SummaryLimit` = 1 and `PackLimit` = 2 what is read fits in some behaviours and not in others. `MaxTexts`, `MaxBriefs`, `MaxCanon` let each thing change once under a draft.
`MaxTries` = 2 claims are a draft and its revision or
what publishes it. `MaxVersions`, `MaxRoutes` = 2, 3 or 1 let what was read be replaced. `MaxRestores` = 4 is a run that stops, one that goes
on and two for another archive; `MaxInstalls`, `MaxImports` = 3 a run beside another and one after both. `Longest` = 3 images or
events, with `Asked` = 2 and `MaxBytes` = 2, is one more than is right. Shots are shorter than a frame, about one, and so long that the second goes beyond ten minutes (`Planned`
1, 20, 400000 ms); narrations, visuals and sounds (`Narrations`, `Visuals`, `Sounds`) end within a millisecond or within a frame; frames are
1, 24 and 25 a second, and of sources without frames or with 60 (`Rates`, `SourceRates`). `MaxFaults` and `MaxSlow` are crashes and renders that
outlast their minute. One job is enough where jobs meet only in a sweep or in nothing; `JobProtocol` has two that write one
document. No run checks for deadlock: a system whose jobs have all ended stops.

Fairness. An idle process polls for ever and one that works ends (`run` loops, calls have timeouts): weak fairness of
`ClaimAny` and `Work`. A lease nobody renews runs out: weak fairness of `LeaseExpires` for jobs nobody holds. Relays and
consumers loop for ever and retry what failed: weak fairness of each delivery. In `MediaTask` the handler takes its next
step (`Handle`), and the polling deadline is strongly fair: time passes between polls. Its run shows `HandlerEnds`,
which is what `RuntimeJobs` takes for granted of every handler. In `Production` the recovery loop comes round every two seconds
(weak fairness of its `Pick`) and its waits for the row lock are served (strong fairness of its `Begin...`, the lock being taken and
given back by others all the time); not every transaction of an actor is aborted, nor every failover of the loop (strong
fairness of `Act`, `Failover`); a child that is retried and reviewed ends at last. In `Transfer` the
loop comes round every minute and a goroutine gets on: weak fairness of `Recover`, `Take`, `Claim` and `Finish`; one Control process
runs the loop. Users are never obliged to do anything, and nothing makes a worker that holds a lease lose it.

### What the violated runs show

* `EndLost`: two generations of one document may be submitted while neither is committed, and both freeze the
  same version number. When the second job's `content.version.committed` is stored before its `job.completed`, the
  arrival of the latter applies both in one transaction; the commit fails on the version number, now and on every
  redelivery, and so Control never learns that the job completed. `docs/architecture/go-control-plane.md:81` promises
  recovery from lost, repeated and reordered events.
* `ProductionReview`: while a run is paused for the review of one child nobody looks at the others, and the failure of a
  sibling stops nothing (`docs/architecture/automatic-production.md:61` says it does).
* `PaidAssetLost`: the frozen input is read before, and outside, the recovery of paid products: a hiccup of the object store
  there ends a job failed whose products are archived (`docs/architecture/image-speech-models.md:114`).
* `ChapterUnseen`: the answer stays in the job's row; after a lost lease between a check and its review the approval of
  chapter 1 approves chapter 2, which nobody has seen (`workflows/novel/graph/nodes.py:5-7`).
* `CanonApproved`: a resumed canon operation applies the operation again instead of the approval, and asks for the same
  review (`docs/migrations/generic-control-api.md:9`).

## 4. Proofs

Every safety and action property that a passing run checks is proved; the liveness properties are
named at the end of this section. A theorem is stated for every value of the constants that meets the assumptions; TLC evaluates
those on the instance of each run.

### The job store: `RuntimeJobsProofs`

For every set of jobs, commands and workers and all bounds (`JobsAssumption`, `CommandsAssumption`, `WorkersAssumption`,
`BoundsAssumption`):

| theorem | property |
|---|---|
| `TypeCorrect` | `TypeOK` |
| `Exclusion` | `MutualExclusion` |
| `Fencing` | `FencedLog` |
| `OneHolderAlways` | `OneHolder`: the two together |
| `Sealing` | `TerminalSeals` |
| `RowsAgree` | `LogTellsStatus` |
| `ApprovalKept` | `ApprovedDraftPublished` |
| `Refinement` | `KeepsLifecycle`: `RuntimeJobs` implements `JobLifecycle` |
| `CancellationWins` | `CancelWins` |
| `LeasedJobs` | `LeasesJobs`: each of its jobs implements `LeasedJob` |

The inductive invariant is `IInv == TypeOK /\ ClaimsOK /\ LogsOK`. `MutualExclusion` and
`FencedLog` are not inductive by themselves: two processes with one worker id are told apart by their tokens only, so
one must know that no two processes hold the same token of a job and that no process and no event of the log has a
token above the row's (`ClaimsOK`). `LogTellsStatus` and `TerminalSeals` need each other: that nothing follows an end
holds because a row that has ended is no longer leased or claimable, and the row has ended exactly when
its log says so (`LogsOK`). Each step lemma has one case per action.

An approved draft crosses a review, a resume, a new claim and a transaction. `ReviewsAnswered` says that what follows a review in the log is
an answer to it; `DraftsKept` that the row names the reviewed version from the review to the end, and
that whoever holds the job's current token has that draft in its hands.

For the refinements, a job that was asked to cancel is never `accepted`, `running` or `waiting_review`
(`AskedOK`), and each action maps to a step of `JobLifecycle` or a stutter; the sweep of a claim moves several jobs at once, which is why
a step of `JobLifecycle` does too. `LeasedJobs` does the same for `LeasedJob`, one job at a time: a claim of
one job is the sweep of others and nothing to the rest. It needs `HandsOK`: an idle process holds no job, one at work has a token
other than 0.

### Two planes and their messages: `JobProtocolProofs`

For all jobs, commands, projects, documents and workers (`RuntimeAssumption`; `OwnersAssumption`: a document belongs to
the project of the jobs that write it; `ControlBoundsAssumption`):

| theorem | property |
|---|---|
| `RuntimeWithin` | the Runtime's half takes only steps of `RuntimeJobs` |
| `ProtocolInvariance` | the inductive invariant |
| `EndsAlike` | `EndsAgree` |
| `ViewsAlike` | `ViewsAgree` |
| `PlanesAgree` | `Agreement`: the two together |
| `MutationsApart` | `OneMutation` |
| `ResumesMeetReviews` | `ResumeFindsReview` |
| `VersionsKeepNumbers` | `VersionsAsFrozen` |

By `RuntimeWithin` all that was proved of the store's log is true of the log events come from; it is not proved again.
The invariant `ControlOK` is about Control's row: its commands and the Runtime's inbox explain each other
(`CommandsOK`, `CancelsOK`), only events of the log arrive (`SeenOK`), a resume on its way was sent after its review was shown and is the
only one (`ResumesOK`), one mutation of a project is live (`OneLive`), a version carries the number it was frozen to (`VersionsOK`), and `StatusesOK`: the
row's status is what the applied prefix of the log says, or what Control assumed since (queued after a resume, cancel_requested after a cancel), as
long as a command on its way or an event not yet applied explains it.

`Project` applies any number of events in one transaction, as a fold over the log. What the fold computes is stated
by `AppliedFold`: there is a sequence of rows, one per event applied, each made of the one before. It is shown without an induction schema, by taking
the least number at which there is none (`LeastNat`). From then on `AppliedGood` needs only that one event keeps what is said of a row.

### Videos: `MediaTaskProofs`

For all jobs, commands and workers (`MediaJobsAssumption`: the jobs are video jobs; `RuntimeAssumption`):

| theorem | property |
|---|---|
| `StoreWithin` | the job store's half takes only steps of `RuntimeJobs` |
| `OrderInvariance`, `DoubtInvariance` | the inductive invariants |
| `OrderedOnce` | `OneSubmission` |
| `HonestEnds` | `EndsHonestly` |
| `DoubtShown` | `DoubtIsShown` |

The first two need no lease. `OrdersOK` says of every store call, whoever makes it and however late it commits, that what it carries is
true of the job (`CallOK`), and of the row that it moves forward only (`RowOK`); `PostOK` and `OneAtPost` say that who
is about to order is alone and the first. `DoubtIsShown` is about whose turn it is: a handler at work or a thread of one that is gone may still
mark the row, if its token is the row's. `DoubtOK` says so (`HandOK`, `CallGone`, `RowShown`) and takes from `RuntimeJobs` that two
claims never share a token (`ClaimsOK`, by `StoreWithin`).

### Films: `CompositionProofs`

For every set of processes, of films and any number of claims, `NoFilm` not being a film: `FilmsBacked` is the inductive invariant,
`OneFilmOnly` proves `OneFilm`, `CancelledStays` proves `StoppedIsStopped`.
Two renders may differ and both processes may be past theirs. What keeps them from two films is that objects are written once: whoever
is to upload, confirm or publish does so for the film that the objects uploaded before already are, and once the row names a film that is the one
in the store.

For the timelines, if a film has at most 60 frames a second and no video more than 1000 (`TimelineAssumption`), any number of shots, effects and any
lengths: `FilmsInStep` proves `RendersInStep`. The invariant `InStep` says that the shots follow each other without a gap (`Continuous`),
that narrations and effects stay in their shots (`Heard`), that a source is as long as what was taken of it in whole milliseconds (`Covered`), and that the frames drawn are those up to the
next shot's start (`InPhase`). What was rounded up by at most a millisecond is within a frame or a frame of AAC for the renderer (`LastsLongEnough`),
and the frames of a shot are a difference of two rounded borders, so that roundings never add up (`FramesNear`, `FramesFollow`).

### Books: `NovelProofs`

For all processes, operations and answers, `Total` and `MaxRevisions` being numbers (`BookAssumption`):

| theorem | property |
|---|---|
| `BooksSound` | the inductive invariant |
| `BriefsChecked` | `CheckedUnderItsBrief` |
| `DocumentsWhole` | `DocumentWhole` |

`Alone`: one process at a time is past the project's lock, so that the checkpoint is driven by one. `Sound` says what the nodes leave in it: the draft
is of the chapter the graph is at (`DraftOK`); what may be approved was checked under the checkpoint's brief, and an approval counts only
if no check is still to be made (`ReviewOK`); chapter records and checkpoint agree but for the chapter at hand (`PagesOK`); a book that was audited is at
its end and unchanged (`EndOK`). An approval is two writes: `Between` holds from the first to the second, across a crash as well, because the
chapter at hand is the one `PagesOK` leaves open.

### Creations: `RuntimePlaneProofs`

For all processes, drafts, sources and costs of calls, finitely many creations of the project, with and without a stage that plans (`CreationAssumption`):

| theorem | property |
|---|---|
| `NothingFound` | a document without findings is `Sound` |
| `CreationsAlone` | `CreatedSoundly`: `BudgetKept`, `DraftsBacked`, `PublishedSoundly` |

`NothingFound` is about what the code does not say of its checks. Scenes are compared with a running count, so that those of an episode are numbered upwards
(`NumbersStand`); a dialogue is looked up in a set that a later character or scene may have been added to twice, so that who speaks is one only
because of the findings about duplicates (`CastStands`); what is left out of a conversion is counted over all blocks (`ConversionStands`).

The inductive invariant is `CreationInv`. *Budget:* a call is between its check and its record under a claim that one process holds (`ClaimsApart`), and whoever
is to record must hold the last one; so a job has one such call at a time, and `BudgetInv` gives each of them its `MaxCost`: the limit is passed by less
than one call of each creation. *Drafts:* a version is the token of the claim that wrote it, objects are written once, and `WriterFine` says, stage by stage,
what is stored and accounted for when a handler is there. *Publication:* the row's draft is the one that was approved for as long as the answer in the row is not a
revision (`Answered`), a stale process that thinks so cannot write (`Rules`), and what else is completed had no findings (`Good`), which
`NothingFound` makes `Sound`.

### Memories: `KnowledgeProofs`

For all processes, creations and operations (`KnowledgeAssumption`: creations, operations and memory jobs are different jobs, a binding is of a
pack some operation publishes, required versions are creations, no LIMIT is 0):

| theorem | property |
|---|---|
| `Remembering` | the inductive invariant |
| `MemoriesAsRead` | `RememberedAsRead` |
| `EffectsWithCompletion` | `EffectWithCompletion` |
| `ShownAsBound` | `ShownInOrder` |

Memories, packs, staged requests and ends only grow (`Grown`). So what a process has read stays true until it commits: `HandsOK` says, step of a creation by
step, that what it has read is remembered and is all there is of each required version unless the LIMIT of the query is full (`LimitedHas`), and that a staged operation is still possible. `BoundLast` and
`ShownLast` say that the binding there is, and the one that is shown, is decided by a completed (projected) operation none of the others was asked for
after; where each was asked for after the one before was shown, there is but one such operation, and the two agree.

### Generated media, productions, members, exports, catalogue: `RuntimePlaneProofs`, `ControlPlaneProofs`

| theorem | property | for |
|---|---|---|
| `EachStepEarned` | the inductive invariant of `GeneratedMedia` | any processes and claims |
| `AskedOnceAlone`, `NothingWrittenOffAlone` | `PaidOnce`, `DoubtKept` | |
| `MadeIsNotRefused`, `ProductIsMade` | no answer to a call that made its product is read as a refusal, none to one that did not as a product | any sizes and lengths |
| `RunsHold` | the inductive invariant of `Production` | any shots, posters, actors, routes and fragile slots (`RequestAssumption`, `ActorAssumption`) |
| `OneRunOfProduction`, `StagesOfProduction`, `EndOfProduction` | `OneRunPerKey`, `StagesInOrder`, `EndIsFinal` | |
| `MembersShaped` | the shapes of members, sessions and requests | any users, the founder among them (`FounderAssumption`) |
| `OwnersRuleOfMembers` | `OwnersRule` | |
| `ResultsMatch` | snapshot while an export is open, file when it is completed | any exports, goroutines, slots, faults |
| `LastClaimOfExports` | `LastClaimEnds` | |
| `CatalogueHolds` | the inductive invariant of `Governance` | any items, editors, submissions; no hypothesis |
| `NothingLost`, `FrozenOfCatalogue`, `BindingsOfCatalogue` | `NoLostUpdate`, `FrozenResolves`, `BindingsUsable` | |
| `FrozenStays`, `BindingsHold`, `ResolvedAlways` | the last two of these in the plane, and `Resolved`, the two together | |

*Generated media.* `PaidOnce` needs to know who may post: a process whose next step is
the POST is the only such one, nobody has posted, and the row has left the states from which another claim could get there; this
covers a process that has lost its lease without noticing (`PostOK`). `DoubtKept` needs the same of refusals (whoever reports one has seen one, in a thread
that commits late too) and of the order products, receipt, confirmation, completion (`ArchiveOK`).

*Productions.* Children are read in one statement and written in a later one, and move in between. The invariant says in what way what was read still
holds (`Since`): a child that was not there is still not there, one that had ended is the same, one that was told to stop only ends. With it,
cancelling the children that were seen alive stops all that are alive, and a stage judged complete is.

*Members.* `OwnersRule` needs `MemberShapes`, and `Founded`: before the founder has registered there is nobody, so that `Register` is not a way to become an
owner of a workspace that has one (lemma `FounderFirst`). That an owner is left when one of several goes is
a fact about cardinalities (lemma `AnotherOwner`).

*Exports.* `ResultMatches` is inductive: it adds to the types that a row's result goes with its status and that a goroutine that renders knows
its claim. That an end is final and belongs to the last claim is then a fact about each step (`StepEnds`).

*Catalogue.* A version, once a row, stays as it is, and publishing writes another (`VersionsGrow`): what was published when it was
bound, routed to or frozen is so for ever. `CatalogueOK` adds what an editor between its read and its lock may rely on (`EditsOK`), that the routes name profile
versions that exist, those in force no deleted one (`RoutesOK`), and that what is bound may be (`BoundOK`).

### Tools: `JobProtocolProofs`

For all operators, archives, tools, releases, keys, importers and exports (`ToolAssumption`: a list of migrations names each once, and the lists of two
releases name the same as far as both go, whatever the texts):

| theorem | property | inductive invariant |
|---|---|---|
| `RestoresWhole` | `TargetWhole` | `RestoreOK` |
| `InstallsSound` | `Deployed` | `MigrationsOK`, `PromptsOK`, `SecretsOK` |
| `ImportsWhole` | `ImportWhole` | `ImportOK` |

By `OneTool` each kind of tool is proved alone. *Restore:* nothing that is there is replaced (`Onward`), so what a run has read of a target stays true, and `RunOK` says,
step by step, what must be there before it; the note that a database is complete needs all objects, whoever put them. *Migrations:* a tool is at a position of its own list, and
everything before that position is in the ledger with the text of its list (`ToolOK`), which makes every schema a prefix of some release's list although tools of
different releases take turns. *Keys:* the second file is written with the key of the first. *Import:* every row of a project is of one export
(`OneSource`), and what an importer has gone past is there (`RunsAt`), also when another importer of the same export wrote it.

### The planes

`PartsWithin`, one for each plane: a step of the plane is a step of one part and a stutter of the others, so the plane implements the specification of each
part. The properties the runs check are then theorems of the plane:

* `RuntimePlane`: `AskedOnce` (`PaidOnce`), `NothingWrittenOff` (`DoubtKept`), `OneFilmOnly` (`OneFilm`), `CancelledStays`
  (`StoppedIsStopped`), `RendersSoundly` (`RendersInStep`), `OrderedOnce` (`OneSubmission`), `HonestEnds` (`EndsHonestly`), `DoubtShown` (`DoubtIsShown`), `BriefsKept`
  (`CheckedUnderItsBrief`), `BooksWhole` (`DocumentWhole`), `BooksSound` (`BookSound`, the last two together), `CreationsSound` (`CreatedSoundly`);
* `ControlPlane`: `OneRunOfKey`, `StagesRest`, `EndsAreFinal`, `UpdatesKept` (`NoLostUpdate`), `FrozenStays` (`FrozenResolves`), `BindingsHold`
  (`BindingsUsable`), `OwnersRuleHolds` (`OwnersRule`), `LastClaimEnding` (`LastClaimEnds`);
* `BothPlanes`: `MemoriesKept` (`RememberedAsRead`), `EffectsEarned` (`EffectWithCompletion`), `ShownAsTold` (`ShownInOrder`).

A plane assumes of its constants what its parts' theorems do (`FilmAssumption`, `CutAssumption`, `VideoAssumption`, `BookAssumption`, `TextAssumption`,
`MemoryAssumption`, `FounderAssumption`). `GeneratedMedia`, `Composition`, `Creation`, `Novel` and `Knowledge` do not run on the same rows as `RuntimeJobs`: the first two
rest on `LeasedJob`, which `RuntimeJobs` is proved to implement, the others keep rows and leases of their own.

### Model-checked only

Liveness (`JobSettles`, `CancelSettles`, `EndShown`, `HandlerEnds`, `RunSettles`, `ExportEnds`) is out of the prover's reach; that is all there is.
`RendersInStep` would be an induction over data if the renderer were one expression; it is a loop in the code, and a step for each shot in the model.

## 5. Not modelled

`PROJECT.json` lists every component with its reason. Left out of the parts that are modelled:

* submission: the first, unlocked transaction of `SubmitCommand`, and the batch of `Relay`, one poisoned command of which holds
  up the rest;
* video: the check of the frozen route; an operator who reconciles names a task of this job, since the code checks the id and the model
  with the provider, not whose order it was;
* content: prompts and the contracts models fill in, `committed_version` (the job's version that Control has committed already), reports, and the text that
  counts as unusable, a policy's pattern or a length (`Weak`);
* novel: imported states, texts of plans, quality scores, the memory nodes the workflow writes itself;
* memory and knowledge: semantic search, which rows a LIMIT keeps (any may be), memory nodes of the novel workflow and of imports (they take room from the
  summaries and packs of the model: a LIMIT is full sooner than `RememberedAsRead` counts), the token budget that cuts a context after it was read, the two reads of `publish` between
  which a rebuild may drop embeddings, the usage events of memory jobs, which Control has no job for; `ShownInOrder` says nothing of
  a bind and an unbind that overlap, of which Control may show the one the Runtime committed first;
* productions: objectives and media parameters, abstracted to whether the frozen profiles allow them (`Fits`) and the closed contract takes
  them (`Fragile`);
* governance: connections, media assets, the platform's own catalogue;
* identity: the workspace's name (its update trusts the role of the principal), the audit log, passwords, CSRF and the rate limit
  of logins;
* exports: rendering and encryption, which are pure; imports, which are one transaction; downloads that build their file on the spot;
* tools: what the migrations say (an SQL text is a value), the bucket's creation, the integration checks, `restructure_monorepo.py`. What the tests or docs say of them
  and no property states: that a restore which loaded a database and stopped before it noted so can be resumed (`docs/migrations/legacy-data-cutover.md:38`;
  it cannot, the database is not empty any more), that routes exist once an import has had the keys (those that a first import without keys inserted stay as they
  are), that a request Control has checked passes the Runtime (`generated.py:301` fills in `prompt_influence`, which a model without it refuses, `audio_generation.py:197`);
* the attempts of a job count claims after reviews and lost leases too; nothing in the repository says what the bound should count.

Not modelled at all: execution snapshots and object storage beyond what `GeneratedMedia`, `Composition` and `Creation` need of them (write
once, may fail), evaluation and observability (append-only records and queries), the HTTP interface with its event stream,
which ends with the job and so never streams the version committed after it, the user interface.
Payloads, prompts, model calls and formatting are abstracted away throughout.

Worth proving next: that the handlers of `MediaTask` are ones `LeasedJob` allows, that `Creation`, `Novel` and `Knowledge` claim and finish
their jobs as `LeasedJob` does (they keep rows of their own today), that `ShownInOrder` follows from
the event log of `RuntimeJobs`.
