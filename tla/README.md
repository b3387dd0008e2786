# TLA+ models of codex-playground

The repository is a set of local automation tools.  The part where several
processes share durable state, and where mistakes are hard to reproduce, is
`telegram_connector`: its analytic jobs are admitted by a Telegram listener,
queued in SQLite, claimed by a supervisor thread, carried out by a pair of
worker processes and delivered back to Telegram.  The models start there, and go
on to the other programs that keep state which several processes touch or which
has to survive a death: the job-search system, the Telegram agent bot and the InfoExt
monitor with the TTL runner that supervises it.

## Inventory

| Part | State it keeps | Operations | Talks to | What makes it hard | Correct when |
|---|---|---|---|---|---|
| Job lifecycle (`analysis_store.py`, `telegram_bridge.py`, `telegram_analysis.py`) | one row per job (`status`, `generation`, `cancel_requested`, checkpoint, result, delivery), one flock per job, the supervisor's table of child processes | admit, cancel, resume, claim, launch, reap, recover, execute, finish, prune, index rebuild | SQLite, kernel locks, child processes | five kinds of process commit to one row, each may die between any two steps | a run has one worker; a terminal state is final; a cancellation is not lost; every run ends |
| TTL runner (`common/ttl_runner.py`) | the child's process group, pending signals, deadlines | poll, stop check, terminate, kill, reap | the operating system | signals and exits race the deadline; descendants outlive the child | the group is gone when it returns, and the exit code says why |
| Delivery (`telegram_analysis.py` 257-393, `analysis_store.py` 943-1047) | the parts of the plan, one intent per request | prepare, begin, settle, stop | Telegram | a lost answer must be neither repeated nor forgotten | each part is shown once, in order; the record knows; the user's file is kept |
| Update intake (`telegram_bridge.py` 1828-1938) | the offset file, admission keys, a queue of legacy commands in memory | fetch, admit, control, save offset, acknowledge | Telegram, job store | replay after a crash, partial failure between admission and offset | no accepted command is lost or admitted twice |
| Provider budget (`analysis_store.py` 691-901) | per-job counters, per-attempt reservation | reserve, settle, complete batch | OpenAI | unknown usage, late receipts, overrun | counters equal the attempts; limits hold; what is set aside is enough to merge |
| Merge frontier, invalidation (`analysis_pipeline.py`, `analysis_store.py` 1054-1179) | tree of batches, frontier in the checkpoint | advance, finalize, invalidate | history store | sources edited while the analysis runs | every record has one disposition; nothing stale survives |
| Progress messages (`telegram_bridge.py` 1765-1822) | progress record in the checkpoint | compare-and-set, send, edit | Telegram | a create whose receipt is missing | at most one status message per job |
| Full-text index (`history_store.py` 302-375) | FTS table and its state in the service job | backfill, refresh, invalidate | every writer of messages | writers without the module | a complete index covers every message |
| History sync (`history_session.py`, `history_messages.py`) | staged writes, sync cursor | sync, flush, OCR | Telegram | interrupted batches | the cursor never passes an unsaved message |
| Digest (`telegram_digest.py`, `digest_pipeline.py`) | last-attempt file, sent digests | run per channel | provider, Telegram | partial failure | the audit says what happened |
| Telegram agent bot (`telegram_agent_bot`) | offset, conversation state file | listen, run, reset | OpenAI, subprocess | offset saved first; unlocked file; workers that outlive the listener | at most one execution per update; a chat continues where it left off; no worker blocks the queue |
| InfoExt monitor (`infoext-monitor`) | status, failure counter, outbox of notifications | check, record, deliver | portal, Telegram, TTL runner | a kill between save, send and removal; a change of the tracked request | every change announced, in order; alerts paired with recoveries |
| Vacancies of the job-search system (`vacancy_handlers.py` 153-378) | URL seeds, vacancies, occurrences, processed mark, stage | preview, confirm, reject, import, mark, move | CLI and HTTP server, SQLite | checks before the transaction, two processes | no change of a processed vacancy goes unnoticed; a decision on a seed stands |
| Approvals and board actions (`vacancy_handlers.py` 692-933, 1547-1767) | approvals, actions, usage, reconciliation items, each under an idempotency key | approve, record, resolve | CLI and HTTP server, SQLite | repeated commands; approval checked before the transaction | what was completed was approved; what was decided stays decided |
| Artifacts of the job-search system (`vacancy_handlers.py` 950-1334, `candidate_handlers.py` 395-576, `artifact_rename_service.py`) | a row and a file per artifact | generate, reuse, overwrite, finalise, rename | CLI and HTTP server, SQLite, file system | files are written outside of the transaction | a file is what its row says; no file without a row, no row without a file |
| Shared clients (`telegram_shared`), runtime helpers (`common`) | none, or files written atomically | requests with retry, atomic write, transaction | all of the above | retry of an unsafe request | used as single steps here |
| kb-index, token monitor, the rest of the job-search system, book-search, document-converter, skills | files or one SQLite file used by one process at a time | sequential commands | - | little concurrency | see the notes in `PROJECT.json` |

The rows interact through four media: the SQLite files (transactions), the
kernel (flock, process groups, exit codes), plain files (offsets, conversations, artifacts) and
Telegram (requests whose answer may be missing).  Nothing is shared in memory between processes.

## Plan

1. `JobLifecycle` (abstract) and `AnalysisJobs` (the core), with proofs. **done**
2. `ReportOutbox` (abstract), `Delivery` (parts, attempts, back-off, stop reasons) and
   `ReportArtifact` (the file of a full report), the latter with proofs. **done**
3. `UpdateIntake`: offset, replay, admission keys, legacy lane, with proofs. **done**
4. `ProviderBudget`: reservations, receipts, the completion reserve, budget stops, with
   proofs. **done**
5. `TtlRunner`, the supervision of one child, and `InfoExtMonitor`, which puts the monitor's
   worker under it. **done**
6. `AgentBot`. **done**
7. The job-search system: `VacancyPipeline`, `ExternalActions`, `ArtifactStore`. **done**
8. Proofs for `Delivery` and for 5 to 7, of type invariants as well. **done**

Every invariant and action property that a run checks, and both refinements, are proved for all values of the
constants.  The five liveness properties (`EveryRunEnds`, `QueueDrains`, `CommandsDecided`,
`EveryUpdateTaken`, `EveryEventDelivered`) rest on fairness, which the prover does not
handle, and stay with TLC.  The type invariant of each of the ten modules is proved as well.

Delivery and the budget share the row with `AnalysisJobs` and take from it only the facts
proved there (one worker per generation, fenced writes).

| Run | Module | Question |
|---|---|---|
| `recovery`, `index`, `pool` | `AnalysisJobs` | Is the row of a job ever wrong, does every run end and every job leave the queue, do the limits hold? |
| `delivery` | `Delivery` | Does the chat show each part once, in order, and does the row know? |
| `artifact` | `ReportArtifact` | Is the job's file recognised, and the user's kept? |
| `intake` | `UpdateIntake` | Is a command ever hidden, repeated or falsely acknowledged? |
| `budget` | `ProviderBudget` | Do counters, limits, reserve and stops hold? |
| `vacancies` | `VacancyPipeline` | Is a change of a processed vacancy ever missed, a rejected seed reopened? |
| `external` | `ExternalActions` | Is an action completed without approval, a decision undone? |
| `artifact_store` | `ArtifactStore` | Do rows and files agree? |
| `agent_bot` | `AgentBot` | Is a command lost, run twice or continued at the wrong place? |
| `monitor` | `InfoExtMonitor`, `TtlRunner` | Is anything left running, any news lost or out of order? |

## Job lifecycle

### Modules

| Module | Contents |
|---|---|
| `JobLifecycle` | what a job promises: queued, running, terminal, once per generation, at most one worker, success only from the worker, others only write off a run nobody carries |
| `AnalysisJobs` | the processes, locks and transactions that carry it out |
| `MCAnalysisJobs` | symmetry and the state constraint of `recovery` and `index` |
| `MCAnalysisQueue` | the constraints of `pool` |
| `AnalysisJobsProofs` | type correctness; the inductive invariant about locks and generations; `AnalysisJobs` implements `JobLifecycle`; results and limits |

### State and code

| Variables | Code |
|---|---|
| `status`, `generation`, `cancel` | columns of `analysis_jobs` (`history_store.py:138`); `absent` and `pruned` stand for no row; `completed` stands for completed and partial, which every guard of this model treats alike |
| `checkpoint`, `result`, `delivery` | whether `checkpoint_json` holds anything and a result is saved, and the outcome of the delivery plan: `none` as long as nothing can have reached Telegram |
| `origin` | the listener whose bot namespace the row carries |
| `lock` | holder of the job's flock (`analysis_ownership_lock`), released by the kernel when the holder dies |
| `mode`, `active`, `sup` | a listener is down, plain, supervising or failed; the supervisor's `active` table of child processes; the point its `_tick` has reached |
| `ctl` | a `/resume` between its read, its lock and its transaction |
| `outerAt`, `innerAt`, `outerNote`, `innerNote` | program counters of the outer worker (`run_analysis_with_ttl`) and the inner worker (`run_analysis`) launched for a job and a generation, and the status each is about to commit |
| `faults` | kills and crashes so far, bounded by `MaxFaults` |

One action is one SQLite transaction, one read outside a transaction, one flock
call or one process event, in the order of the code.  `_tick` is split where
another process can act between two of its steps: read, lock, commit.  The
supervisor visits jobs in any order; `iter_jobs` pages through random ids.
`save_checkpoint` may fail on the byte cap, in which case its callers go on.
The record of a progress message lies in `checkpoint_json` too, so that a job without a checkpoint
of its executor may count as resumable: `SaveProgress` is that write.  It is allowed for every claimed
job of a supervising listener, a superset of those whose message is due (1754-1764).
An exit code is not carried along: where it decides between failed and
interrupted both outcomes are allowed.  Pruning is allowed to a worker in any
step after its lock, which includes a worker that only found a cancellation and
would not have pruned: a superset of the code.

### Runs

| Run | Question | Bounds |
|---|---|---|
| `recovery` | Is the row of a job ever wrong, whatever dies, whoever commits late and whatever a second listener is told? | one job, two interchangeable listeners, of which one supervises, three generations, two faults |
| `index` | What may a rebuild do to the index worker, does every queued job leave the queue, and does every claimed run end? | the index job alone, three generations, two faults |
| `pool` | Do the queue and worker limits hold, and does a queued job leave the queue although others fill the pool? | two analytic jobs of two listeners and the index job, one worker slot, two places in the queue, one fault |

A claim takes one generation and `Requeue` stops one short of `MaxGeneration`, so that a requeued job can
still be claimed.  Three generations are the first claim, a resume and the claim after it: in
`recovery` the executor of generation 1 may live while generation 2 or 3 is on the row, the resume decides on a
snapshot and acts under the lock, and the second run is orphaned and recovered in its turn.  No guard tells the
outer worker's two notes `interrupted` and `timed_out` apart, so the run leaves the first one out
(`OuterTimesOut`).

`pool` is about whom the supervisor visits and whom it skips.  One listener, `Home`, gets the scheduler;
one analytic job is its own, one (`Guest`) the other's (`Settled`).  A user may cancel the foreign job and nothing else, runs end before their first
checkpoint (`OneRun`), the foreign job is visited first (`InOrder`), and the one fault is
a death at a launch, which can leave a claimed row without a process in the only slot (`DiesAtLaunch`).
These constraints take behaviours away but end none: after every state that is kept, the system can go on inside them,
and a step they cut off is never the only one fairness asks for.  What is left has the cases the
property is about: the pool full of another job, of a dead one, of the index job; a queue that is full; a
job in front that is in a foreign namespace.  `QueueDrains` asks of an analytic job that its own
listener supervises, of the index job that any does.

All of the bounds are in the configurations.

### Properties

- `ExecutorOwnsGeneration`: while an inner worker acts for an analysis, the row is
  running at its generation; no recovery, reap or resume declared it over.
- `IndexWorkerSuperseded`: the index job may be requeued under its worker, which then
  is recognisably older.
- `CancelNotLost`: the README's "Cancelled jobs remain terminal".
- `OutcomeHasResult`: what was reported or sent is still there.
- `WithinCapacity`: the limits hold for rows and for processes.
- `LifecycleSpec`: all of the above as one refinement of `JobLifecycle`.
- `EveryRunEnds`: a run whose worker, outer worker or listener has died still ends.  It is checked for the
  index job.  A backfill has no deadline of its own, so that strong fairness of the executor's deadline amounts, for
  this job, to assuming that the backfill ends or its outer worker enforces the TTL.  Rebuilds are finitely many
  (`MaxGeneration`).
- `QueueDrains`: a queued job leaves the queue, in `index` through requeues and deaths, in `pool` among others.
- `LockOwnership` (a process is past its flock exactly when the kernel says so) and
  `TerminalIsFinal` are theorems only: fencing rests on the one, and the refinement
  contains the other.

### Fairness

The launch agent restarts the listener (`KeepAlive`,
`com.zabaika.telegram-connector-bridge.plist:22`): weak fairness of `BridgeStart`.
Threads and processes that are alive take steps: weak fairness of the
supervisor, of each worker and of a control command.  The executor checks its
deadline between any two requests, and the outer worker enforces the TTL:
strong fairness of the deadline branch of the executor, weak fairness of the
outer worker's.  Nothing is assumed of users, of faults (bounded), of signals, or
of progress of the executor itself.

### A race the scheduler does not survive

`recover_analysis_jobs` handles the case that a terminal state wins the race for the lock
("A terminal state won before this recovery acquired ownership.",
`telegram_bridge.py:1574`).  The reaping part of `_tick`, which makes the same three steps
(1710-1716), does not: when the outer worker dies and the inner one commits its outcome between
the read and the lock, `finish_job` raises `StaleGenerationError`, the supervisor ends and
`cmd_listen` returns 1.  The model does the same (`ReapFinish`, `SupervisorFails`,
`BridgeExit`).  Durable state is not damaged and the launch agent starts the listener
again, which is why the properties above hold.

### Proofs

TLC checks the instances above; the theorems hold for every set of jobs and
listeners and every limit, from `ConstantsAssumption` alone (finite `Job`,
positive limits).

- `TypeCorrect`: `TypeOK` is inductive.
- `LocksOwned`, `ExecutorFenced`, `IndexWorkerFenced`: none of the three is inductive.
  `IInv` adds what is true of the steps in between:
  a worker of generation g exists only if g was claimed (`Fresh`); the supervisor's
  point in its tick and its note agree with the row it read; whoever is past a
  flock is its holder; and a worker that is past its first read is fenced by the
  row as long as it holds the lock.  The key step is that every write which takes a row
  out of `running` happens under the job's lock or by the worker itself, with
  one exception (a launch that fails), where no worker has been started.
- `ImplementsLifecycle`: from `IInv`, every step of `AnalysisJobs` is a step of
  `JobLifecycle` or leaves its variables alone.  The worker of the abstract
  specification is the inner worker of the row's generation while it acts, whatever
  the row says; `IInv` then gives that such a worker's row is running.
- `TerminalFinal`, `CancelKept`: read off the refined steps.
- `ResultsAreSaved` is `OutcomeHasResult`.  `Results` adds that a worker which is inside a
  send, or about to report success, has its result saved (`Reporting`).  A run that drops the
  result to compute it anew is running, and by `IInv` nobody else then reports for that job.
- `LimitsHold` is `WithinCapacity`.  `Limits` bounds the queued and the running rows, which
  only an admission, a requeue and a claim can add to; each of these counts first.  The limit on
  processes follows by `ExecutorFenced`: whoever acts for an analysis has a running row.

Model-checked only: the liveness properties `EveryRunEnds` and `QueueDrains` (fairness is out
of the prover's reach).

## Report delivery

### Modules

| Module | Contents |
|---|---|
| `ReportOutbox` | what the reader of the chat is promised: parts of one version of the report, in order, each once |
| `Delivery` | the plan, its intents and receipts, the worker and Telegram; implements `ReportOutbox` |
| `ReportArtifact`, `MCReportArtifact` | the Markdown file of a `detail=full` report |
| `DeliveryProofs` | `Delivery` implements `ReportOutbox`, for every number of parts, tries, runs and results |
| `ReportArtifactProofs` | the invariants of `ReportArtifact` for every number of results |

`Delivery` stands on what is proved of `AnalysisJobs`: one worker acts for a running
row, and nobody else moves the row while it does.  A kill and a recovery by the
supervisor are therefore one step each, and the outer worker does not appear.
`ReportArtifact` looks at the same worker from inside the single step
`ArtifactReady` or `ArtifactFails` of `Delivery`.  In the other direction,
`CoarseDelivery` says that the four values `AnalysisJobs` keeps of the delivery
record move in `Delivery` only as they may there.

### State and code

| Variables | Code |
|---|---|
| `status`, `generation`, `cancel` | the row; the ways a run can end other than by cancellation are one value, `stopped` |
| `version`, `made`, `changed`, `ready` | the saved result, as a number counting results; `manifest.input_changed`; whether `full_path` is set |
| `outcome`, `parts`, `planOf` | `delivery_json`: outcome, parts with their attempts, and the result they were rendered from; `absent` is `{}` |
| `at`, `index`, `reply` | the worker's step, the part in hand, the answer on its connection |
| `wire`, `chat` | requests Telegram has not decided, and what the chat shows |
| `full` | `detail=full`, fixed for a job |

Of a part's attempts only their number and the generation and kind of the last
one are kept: the loop reads nothing else.  A request on the wire may be accepted
or refused at any later time, whether or not the worker still waits, also after
the job was resumed or analysed again.  A timeout is a receipt "unknown" given
before the answer comes.  A receipt that names another chat is "unknown" as well.

In `ReportArtifact` a hash is the number of the result the text was rendered
from; `known`, `previous` and `restore` are `checkpoint.artifact`, `ready` is
`full_hash`, `seen` the local `previous_hash`, non-zero exactly when
`replace_owned` is set.  The rename is atomic.  A power failure of the host is not part
of this module: the row would be taken back as in `Delivery` while the synced file
stays, and the job would then find a file it has no hash of (`artifact_hash_conflict`).

### Runs

| Run | Question | Bounds |
|---|---|---|
| `delivery` | Does the chat show each part once, in order, does the row know, and does a run recover from a failed artifact? | three parts (one before and one after the part that fails) or one that names the artifact, three tries, five generations, three results: a failed artifact, a repaired one, two edits |
| `artifact` | Is the job's file always recognised, and the user's kept? | four results: one published, two written and lost in a crash, one more |

`CHECK_DEADLOCK FALSE` in `delivery`: a job that is finished and has used
up its generations stops.

### Properties

- `OutboxSpec`: the refinement.  It fails as soon as an intent is committed after
  its request, an edited source resets a plan that may have been sent, or an unknown
  part is tried again.
- `OutcomeTruthful`: what the row says of the report (on which `/status`, `/resume` and the
  invalidation decide) is what the chat shows, for the whole and for each part,
  including requests still under way.
- `CoarseDelivery`: the steps of the record, as `AnalysisJobs` assumes them.
- `OwnFileRecognised`, `ReadyNamesReport`, `UserFileKept`: see their comments.

No liveness: nothing obliges a user to resume, and `EveryRunEnds` already says
that a run ends.

### What the properties do not cover

Power failures.  `sqlite.toml` sets `synchronous = "NORMAL"`, under which a commit to the
WAL is not synced.  It survives the death of any process, but a power failure may
take the row back behind the intent of a request that has left; the next run sends
the part again, although "an unknown send outcome requires inspection rather than automatic
resend" (`telegram_connector/README.md:218`).  Everything in this section is about hosts that keep their power.

Edits in the replacement window.  `write_full_analysis_artifact` checks the hash of a file of an earlier result,
saves its intent, and then replaces the file without looking again (284-295).  Where it found no file, it asks
`exists()` once more (291), and `write_text_atomic` renames its temporary file over whatever is there
by then (`CheckExists`, `Replace`).  What the user writes in between is lost, against the README's "user-edited
files are preserved".  `InWindow` is these two windows, the constant
`EditsInWindow` says whether the model contains edits in them; with `TRUE`, TLC finds
`UserFileKept` violated, and both the run and the theorem are about `FALSE`.

### Proofs

`ReportArtifactProofs`, from `ArtifactAssumption` alone.  None of the properties is
inductive: `CallInv` adds what is true between the steps of one call, above all that the
hash seen on the path is the one the intent saves as `previous` before the file is
replaced.  `UserFileSafe` proves `UserFileKept` under `~EditsInWindow`, that is, with
exactly the edits of those windows excluded; `WindowInv` carries that assumption to the
rename.  `TypesHold` is part of the same invariant.

`DeliveryProofs`, from `DeliveryAssumption` alone.  The invariant says what the order of the
loop amounts to: a part is touched only when all before it are confirmed (`InOrder`); the chat
shows exactly the first parts of one plan, the confirmed ones among them (`ChatInv`); what is on the
wire is one request, for the next part, which is open (`WireInv`); and the outcome sums up
the parts (`OutcomeInv`).  `AttemptInv` is about the worker: when it sends, the intent is
committed and nothing of an earlier try is left on the wire.

- `OutcomeIsTruthful`: from `OutcomeInv` and `ChatInv`.
- `DeliveryRefinesOutbox`: only an answer that Telegram accepts changes the chat, and by
  `WireInv` it appends the next part of the plan the chat already shows.
- `CoarseStepsAllowed`: each step of the record is one of those `AnalysisJobs` takes.

All properties of `delivery` and `artifact` are proved.

## Update intake

### Modules and state

`UpdateIntake` models `cmd_listen` with `--run-commands`; `MCUpdateIntake` chooses which
updates are analytic, `UpdateIntakeProofs` proves its invariants.

| Variables | Code |
|---|---|
| `arrived`, `confirmed` | Telegram's queue of updates: the newest, and the first that `getUpdates` still returns |
| `file`, `offset` | `bot_offset.json` (0: missing or not JSON) and the listener's variable (0: `None`) |
| `at`, `next`, `last`, `verdict` | the listener's step, the rest of the batch, the acknowledgement it is about to send |
| `rows`, `queued`, `decided` | job rows per admission key, those still queued, and updates the store has answered |
| `told` | the last acknowledgement that reached the chat, per update |
| `lane`, `runs` | `legacy_queue` and executions per legacy command |
| `torn` | ghost: an interrupted save has left a file without an offset |
| `faults` | crashes and storage errors, bounded by `MaxFaults` |

An analytic command goes admission, offset, acknowledgement; any other command offset,
hand-over.  `save_offset` truncates the file and writes it; a crash or a failed write in
between leaves the old file or an empty one (`CutShort`), and `torn` remembers the latter.  A control command takes the way of an admission here and
acts on its job in `AnalysisJobs`.

### Runs and properties

| Run | Question | Bounds |
|---|---|---|
| `intake` | Is a command ever hidden, admitted twice, falsely acknowledged or run twice, and is every analytic one decided? | four updates, the two in the middle analytic (a legacy one on either side), a queue of one, two faults |

`NothingHidden` is the comment "Fail closed: no larger offset can hide this unaccepted
update" (`telegram_bridge.py:1905`), for the saved offset, the one in memory and what
Telegram was told.  `AdmittedOnce` is its counterpart on replay.  `LegacyAtMostOnce` ends
with the first torn file: a crash between the truncation and the write makes the next poll start from what
Telegram has not confirmed, and a legacy command of that batch may run again.

Fairness: the launch agent restarts the listener and a living thread
takes steps (weak fairness); a poll that is repeated for ever is answered
some day (strong fairness of a `Fetch` that returns updates).  Faults are bounded.

### Proofs

`UpdateIntakeProofs`, for every number of updates, every limit, any number of
faults, and torn files: `TypesHold`, `NothingEverHidden`, `ReplayAdmitsOnce`, `AcceptanceBacked`
and `LegacyRunsOnce`.  For the middle three the strengthening says that the batch
is walked in order with everything behind `next` decided (`BatchInv`), and that the verdict in
hand is about the update in hand (`VerdictInv`).  For `LegacyRunsOnce` (`LegacyAtMostOnce`)
the lane is sorted and behind the offset (`LaneInv`), and while the file is intact, what has run is
before everything in the lane and in hand, and behind the offset in the file (`RunInv`).  `CountInv`
gives the bound on `runs` that the type invariant needs, with torn files too: one execution per
life of the listener.  `CommandsDecided` is liveness and stays model-checked.

## Provider budget

### Modules and state

`ProviderBudget` models what one job spends on the provider over all of its runs:
the executor from the selection of sources to the result, as far as requests and
their reservations depend on it.  `MergeTree` is the size of the tree that
`completion_budget` computes, as recursive functions for each fan-in; `TreeCalls` and `TreeDepth`
are their values up to the largest number of roots.

| Variables | Code |
|---|---|
| `status`, `cancel`, `runs` | the row; a run that dies and its recovery are one step, a terminal row is `over` |
| `calls`, `requests`, `used`, `reserved` | `llm_calls`, `provider_requests`, `used_tokens`, `reserved_tokens` |
| `stop` | `checkpoint.budget_stop`; all reasons but `usage_overrun` act alike and are `limit` |
| `result` | `fallback` is the document of `record_budget_stop`, `final` that of the synthesis |
| `records`, `open`, `links`, `tree` | evidence, extraction batches and a link batch not yet finished, `checkpoint.merge` (sizes of the level, of its rest and of the next one) |
| `journal`, `counts` | `attempts_json`: a bag of inferences, and the number of token counts, whose fields nothing reads |
| `at`, `stage`, `left`, `inputs`, `mine` | the executor: its step, stage, batches left of the iteration, inputs of a merge, the attempt under way |
| `strained` | ghost: since the last reservation more than one attempt was spent on, or more than one record came of, a request the reserve counts as one; or that reservation was made by extraction or linking beside a frontier |

One action is one transaction or the answer of one request.  A request is counted (or its
count is found), reserved, sent and settled; the receipt is entered again together with the
output.  An answer may be lost, not be JSON, carry no usage, or carry more than was
reserved.  `OtherStop` stands for the caps on bytes and split depth, which may stop the
work at any write.  A merge yields at most as many groups as it has inputs.  Batches that
an edit takes out are one per edit.

### Runs

| Run | Question | Bounds |
|---|---|---|
| `budget` | Do the counters equal the receipts, do the limits hold, is the merge affordable, is a stop final? | four calls, eight requests, three tokens, four records and a fan-in of three: two extractions and a merge with a synthesis, a tree of two levels with a node carried over, or one extraction repeated until the calls are gone; two batches, two runs, answers of up to two tokens |

The constraint `Small` leaves out more than one token count in excess of the calls, a
cancellation while nothing is under way (the next transaction just refuses), resumes
after more than one call, and what follows a job that is over (nothing).
`CHECK_DEADLOCK FALSE`: a job that is over stops.

### Properties

- `CountersMatch`: a receipt is entered twice, by two transactions, and often not at all; the
  counters are what the journal adds up to nevertheless.
- `WithinBudget`: over all runs.  On tokens only until the provider has used more than it was
  asked for, which the code can but record.
- `CompletionAffordable`: what `_completion_reserve_no_tx` is for.  It does not hold of every
  merge: a request that yields several records ("A request can yield several independent
  facts", `analysis_store.py:749`), reused evidence, a retry, or a split of an input enlarge the
  tree beyond what the last reservation set aside.  `strained` marks exactly these, and
  `WithinReserve` excepts the levels of the next section; the property says that nothing else does.
- `StopStands`: a stop is final for extraction and linking, also when a later stop of the
  merge overwrites its reason.  The converse is what the code does: a `limit` recorded after a
  `usage_overrun` lets merge and synthesis send again.

No liveness: `EveryRunEnds` already says that a run ends.

### The reserve of an unfinished level

Inside a level, `_completion_reserve_no_tx` (`analysis_store.py:757`) adds the roots that are
left, the nodes already made and the one being made, and reckons with them as a fresh level.
That tree may be larger than what remains of the real one.  With a fan-in of three and seven
records, a reservation for linking sets aside three merges (3+3+1, then one); the first of them needs its
own call and the tree over 7-3+1 = 5 roots, again three merges: four where three were kept.
With six calls, fourteen requests and seven tokens TLC finds that the link batch is
authorised and the first merge is then refused, although every request made one attempt.
The sum exceeds the tree only in levels of more than twice the fan-in, which is seventeen records
for the configured fan-in of eight; a fan-in of two never meets it.

The job then ends with a partial result, so no limit is broken; but the tests describe the reserve
as one that must "follow the actual bounded merge shape and output profile"
(`test_analysis_budget.py:256`), and `test_s19_hierarchical_merge_reserves_actual_remaining_frontier`
(`test_analysis_merge.py:102`) is about exactly this remainder.  `WithinReserve`
says that the next merge and what is set aside for the rest fit the tree over the present roots.

### A stopped merge without a tree

When the merge is stopped by a write of its frontier that does not fit (`OtherStop`),
`merge_analysis_records` returns the partial state but does not save it (`analysis_pipeline.py`
980-987), and the synthesis, which reads the row, raises `synthesis_merge_not_ready` (593-594).
The job then ends as completed with the fallback document saved and nothing delivered, where
`test_s19_hierarchical_merge_initial_frontier_byte_cap_is_explicit_partial` and
`test_s24_engine_wiring_budget_stop_is_partial_at_engine_boundary` expect an explicit partial
result.  The model contains this path; no property forbids it.

### Proofs

`ProviderBudgetProofs`, from `BudgetAssumption` alone, for every limit, cost, fan-in and
number of records.  `BudgetHolds` is `WithinBudget`; it needs that the reserve is a natural number
whenever it is computed, which rests on `TreeInv`: the rest of a level and the next one
together never exceed the level, and the inputs of a merge are of that rest.  `SpentInv` adds that the attempt
under way has no receipt yet, so that an answer releases what was reserved for it.
`StopIsFinal` reads the guard of the two reservations, after a lemma that nothing else adds
a request.

`CompletionPaidFor` is `CompletionAffordable`.  What is affordable must be so at the moment of the
request, long after it was set aside, so the invariant (`BudgetInv`) follows the reserve through every step:
as long as nothing was strained or overrun, calls, requests, tokens and depth still cover the
merges over the present roots and the synthesis (`ReserveInv`).  A reservation establishes it; the
request it is for uses up its own share; a merge that ends hands over to the next one, because the tree over fewer
roots is no larger (`TreeGrows`).  `ShapeInv` says where in the order of the
stages the executor and the frontier can be.

`TreeGrows` is about the algorithm of `completion_budget` itself, for every fan-in and every number of
roots: a single root takes no merge and no level, two or more take at least one of each, and more roots never
take fewer.  Level by level it rests on the arithmetic of `divmod` (`LevelsShrink`, `LevelsGrow`); that the
recursive functions exist at all and inherit this is shown once for both (`DescentExists`,
`DescentGrows`), by induction over a set of numbers (`Upwards`).

`CountersAddUp` is `CountersMatch`, for any number of requests.  Its invariant (`JournalInv`) says that the
counters are sums over the journal and that the request under way has a receipt there; what
is to be shown is what such a sum gains and loses when a receipt is entered or replaced.
The lemmas on sums say so: a sum over a finite set exists, is unique, and any element may be taken out first
(`SumExists`, `SumsAgree`, `SumWithout`).  The induction theorems of the library take a predicate as
an operator, which no installed prover can instantiate; `Upwards` and `SetsUpwards` take
it as a set.  `ProviderBudget` names its instance of `BagsExt` instead of extending it, because the
modules that would bring in hide the library's theorems on well-founded orders.

`TypesHold` is the type invariant, whose ranges are bounds of the code.  Its proof needs three facts of
its own: an iteration has no more batches left than are open, apart from the preflight (`BatchInv`);
no merge is asked for at the last level (`DepthInv`); the request under way has an
attempt of the journal's kind (`ReceiptInv`).  That `reserved` is never negative comes from
`CountersAddUp`: it is a sum of receipts.

## Monitor and TTL runner

### Modules and state

`TtlRunner` models `run_with_ttl` around any child; `InfoExtMonitor` extends it with the
monitor's worker as that child, so that every kill the runner can cause falls between
two steps of the worker.

| Variables | Code |
|---|---|
| `phase`, `cancelled` | where `_run_with_ttl` is, and whether `_Cancellation.signum` is set; `off`: the runner was killed |
| `group` | live processes of the child's group: the root and one descendant that stands for any number |
| `worker` | the root's place in `run_check` |
| `disk` | `data/state.json`: tracked request, status, failing request, failures (cut at the threshold), alert, queue |
| `recent` | the minimum interval since `last_portal_check_started_at` has not passed |
| `queued`, `sent`, `base` | histories: notifications ever queued, what reached the chat (a message sent again is not counted), the first status of the tracked request |
| `faults`, `checks` | runners cancelled or killed, checks that reached the portal; bounded |

The deadline, a host sleep and a failed audit write may come between any two steps;
any process may ignore SIGTERM.  The worker holds the lock of the state file from before it
reads it to its end, and saves after each change, so its copy and the file are one
variable.  A message is sent, then removed: a kill in between sends it again, and a send whose
answer is lost may have arrived.  The request a check is about is arbitrary, which
covers a change of the configuration between two runs.  The answer to a one-time query is about any request, too,
the tracked one included (`AnswerQuery`), and is no news about it.

### Run and properties

`monitor`: two runners, of which one is alive at a time (`AtOnce`) while the worker and the descendant of
one that was killed live on beside it, two requests, two statuses, an alert at the
first failure, three checks without a fault or two with one.  Three checks are a baseline, a failure and a success with
another status, so that a recovery stands for a change; or a request, another one while an alert is
out, and the first again; or two failures and a recovery between them.  A threshold above one only delays the alert.
`MCInfoExtMonitor` takes what the first check names as the first request and status (both are
interchangeable) and leaves out a fault together with a third check (`FaultsBeforeLast`): what that check adds
to the state file meets the processes as the second one did.

- `NothingLeftBehind`: the runner returns only when the group is gone, and a cancelled one has
  killed it before.
- `DeliveredInOrder`: the chat sees the queue in order, without a gap.
- `NewsIsCurrent`: the last thing said about the tracked request is the status on disk; a
  recovery names the status, too, so it may stand for a change.
- `RecoveryAnswersAlert`: "recovered" is said once, after an alert of the same request.
- `EveryEventDelivered`: the queue is empty again and again.

Fairness: launchd and the user start runs again and again; a runner that is alive acts;
Telegram accepts a message that is sent again and again (strong fairness); the lock is got
by one of those who try again and again (strong fairness); an orphan ends, because the portal's
requests have timeouts of their own.  The worker under a runner may hang for ever: it is the
runner that ends it.

### Proofs

`InfoExtMonitorProofs`, from `RunnerAssumption` and `MonitorAssumption`, for any number of
supervisors, requests, statuses, checks and faults and every threshold: `TypesHold`,
`NothingStaysBehind`, `ChatInOrder`, `LastNewsIsStatus`, `RecoveriesAnswer`.  `GroupInv` ties the worker to
the process group and `LockInv` lets one worker past the lock, so that the file has one
writer.  `QueueInv` and `SentInv` say that the queue on disk is what is left of all that was
ever queued and that the chat is at most the message in hand ahead of its removal.  `AlertInv` gives the alert on
disk its meaning: a failure of that request was queued, and no recovery since.
`NewsIsCurrent` and `RecoveryAnswersAlert` are inductive beside these.

`EveryEventDelivered` is liveness and stays model-checked.

## Telegram agent bot

`AgentBot` models `cmd_listen` of the bridge, `run_agent` and `cmd_reset` of the worker,
and the two files between them.

| Variables | Code |
|---|---|
| `inbox`, `confirmed` | updates at Telegram, and the first it still keeps |
| `file`, `offset`, `at`, `next`, `last` | `offset.local.json` (0: missing or unreadable), the listener's variable, and its place in the batch |
| `workers` | worker processes in the order of their start, each with its step, the response id it will continue from, its round and its copy of the conversations |
| `sessions`, `cut` | `agent_sessions.local.json`, and whether it reads as empty: truncated and not yet written, or a mixture of two writes |
| `thread` | history: the last response saved per chat since its reset |
| `taken`, `torn`, `disturbed` | histories: updates the offset has passed, an offset file left unreadable, and a worker that outlived its listener or died inside its write |

The file of conversations is written in place: truncation and write are two steps, and
whoever reads in between finds no conversation.  A response is named by the worker that
asked for it, and is `open` as long as its function calls are not answered.  Every response
is taken to carry an id, as the provider's do; without one `run_agent` would keep the previous id.

`agent_bot`: three updates, two chats, agent commands and resets, two rounds, two deaths of the
listener, after which its worker may live on.  No bound is put on workers that fail or hang.

- `SavedContinues`: no saved conversation waits for the output of a function call, and
  none is another chat's; the provider would refuse it for ever.
- `ContinuesThread`: one step after the other, a chat continues where it left off, whatever
  timed out or failed before; the exceptions are what `disturbed` names: two workers
  that overlap because a listener died may undo each other's entry, and a worker that is killed
  inside its write loses the conversations of all chats.
- `RunAtMostOnce`: the offset is saved first, so a command may be lost in a crash, but not run
  twice, unless the crash truncated the offset file.
- `EveryUpdateTaken`: liveness with workers that hang; weak fairness of the listener, which its
  service manager restarts and whose `subprocess.run` has a timeout, and of nothing else.

### Proofs

`AgentBotProofs`, from `BoundsAssumption` alone, for every set of chats and any number of updates,
rounds and deaths: `TypesHold`, `CommandsRunOnce`, `ConversationsContinue`, `ThreadsContinue`.
While the offset file is intact it is ahead of every worker that was started (`OffsetInv`), hence
no update has two (`OnceInv`).  What is saved, in the file as in every copy a worker has
read, is the last response of a worker of that chat, and is closed (`SavedInv`).  `AloneInv` is what the
listener's waiting buys: until something is disturbed, only the newest worker lives, its copy
is the file, and the file is the thread.

`EveryUpdateTaken` is liveness and stays model-checked.

## Job-search system

Handlers run in the CLI and in the HTTP server (single-threaded, `server.py:133`), so there are
two processes.  A handler reads and checks outside of any transaction and writes in one
`BEGIN IMMEDIATE` transaction: two actions, with a variable in between holding what it has read
and will write (`handling`, `command` and `request` of the three modules).  `AbandonHandler` and
`AbandonCommand` are a process that dies or a transaction that rolls back.

The modules are about three groups of tables that no command modelled here writes together.  They have the
processes in common (`Clients`) and otherwise names of their own (`PipelineInit`, `ActionsInit`, `Init`), so
that one module can extend all three for the proofs.

### VacancyPipeline

| Variables | Code |
|---|---|
| `seeds` | `vacancy_url_enrichment_seeds` per URL: status, and the content of the preview |
| `vacancies` | `canonical_vacancies` per dedupe key: stage, `processed`, the flag for changed content |
| `latest` | content hash of the newest `source_occurrences` row per vacancy and source |
| `reviewed` | history: `latest` when the vacancy was last marked |

`vacancies`: one seed, one vacancy in two versions, three batches (one with both versions),
two processes.

- `ChangeNoticed`: content that differs from what was there when the vacancy was marked is
  flagged, whichever source brings it and however import and mark interleave.
- `SettledUnlessStale`: an imported or rejected seed is moved only by a handler that
  read it before; the code does not check again inside the transaction, so a confirmation that
  has begun imports a seed rejected meanwhile.

### ExternalActions

| Variables | Code |
|---|---|
| `approvals` | `approval_records` of type `external_action_approval`, by key |
| `actions`, `usage`, `review` | `manual_board_actions` by key, the artifact use recorded for each, and its reconciliation item |

An action's `Shape` is what the checks read of it: its type (one for each group the code tells apart), its
platform, and the vacancy, application, artifact and external target it names.

`external`: two approval keys, one action key, two processes, five shapes (a submission with one and with another
artifact, one without application to a receiver of its own, a profile update, a hidden vacancy), all states.

- `CompletedWasApproved`: the approval of a completed action is still what it was when it was
  checked.  It rests on rows that are never changed: a repeated key returns the
  first row.  The other side of this is that a derived key leaves the state out (1696-1713): a
  revocation recorded without a key of its own finds the approval and changes nothing.  The same holds
  of board actions, whose derived key omits the state.
- `ReviewStands`: a repeated action does not reopen its item.

### ArtifactStore

| Variables | Code |
|---|---|
| `rows` | `artifacts`: type, hash, source, and which of two file names it has |
| `files` | what lies under each name of each artifact |
| `renaming` | the rename tool between plan, move and commit |
| `littered` | history: files left by a death or a failed write |

`resume` and `message` are created once per content and reused; `vacancy` and `vfinal` are
overwritten in place; `final` is created once per source and content.  Writes of files are
steps of their own, before the transaction: `write_text` empties the file first (`Truncate`), and a process that dies
before the text is there (`WriteFile`) leaves an empty file, under an old row if it was
overwriting.

`artifact_store`: four ids, two contents of which one passes the quality gate and the other is what an empty
file holds, two processes and the tool.  `CHECK_DEADLOCK FALSE`: when the ids are used up and no command has anything to
do, the model stops.

- `ContentAsPromised`: what is reused by its hash and what was finalised is what it claims to be.
  For a final it means that the second reading of the file (`candidate_handlers.py:513`) sees
  what the gate read or nothing: it holds because a draft's file never changes.  The final of a vacancy
  (`vfinal`) is exempt: its source may be overwritten between the two readings, so that it may hold what the gate
  never saw; a failed overwrite leaves the new file, or an empty one, under the old row, too.
- `NoLitter`: a failed transaction removes what its command created.
- `FileSurvives`: no failure costs a row its file.  After a rename that died between move and
  commit the file lies under the new name and the row has the old one: a retry stops with
  "Target artifact path already exists", and commands that read the artifact fail until the
  row is repaired by hand.

Two processes that look for a reusable artifact at the same time both create one; the
code allows it, and the newer is found from then on.

### Fairness

None: every command is an operator's decision.

### Proofs

`JobSearchProofs` extends all three modules.

For `ArtifactStore`, from `ContentAssumption` alone, for any number of processes, artifacts and contents:
`TypesHold`, `FilesSurvive`, `NothingLitters`, `ContentKept`.  The invariant separates the two ways
of writing.  An id that is being created has no row, no file but what its creator wrote or emptied, and no other
command works on it (`CreateInv`); a command that overwrites works on a row that
exists and keeps its kind, which is one that may be rewritten (`OverwriteInv`).  Hence the files of
every other row hold their own content or nothing, whatever the rename tool moves
(`ContentInv`), and a resume that passed the gate still has that content when it is read again
(`GatedInv`).

For `VacancyPipeline`, from `KeysAssumption`, for any keys, sources and processes and for batches of
any length: `ChangesNoticed` (`ChangeNoticed`), `DecidedStays` (`SettledUnlessStale`) and the types
(`VacancyTypesHold`).  One invariant, `VacancyInv`, has them all: what a handler saw when it asked was not settled
(`SeenInv`), and the history of a mark agrees with the flag.  A batch is a fold of single
imports; that each of them keeps what the fold has kept so far (`ImportNotices`) carries over to the whole
by an induction on the set of positions (`FoldDefined`, `FoldKeeps`).

For `ExternalActions`: `ActionTypesHold`, `CompletedStaysApproved` (`CompletedWasApproved`) and, from
`ShapesAssumption`, `DecisionsStand` (`ReviewStands`).  The first needs that a row, once there, is never changed, and that what a
command has checked but not yet written is still backed by such a row (`ApprovedInv`).

## Not modelled

See the notes under `components` in `PROJECT.json`.

- Of the listener: `--once`, `--echo`, `--from-scratch`, the inbox log, and denied commands,
  which are answered in place.
- Of delivery: chunking and layout of texts, and path checks that only refuse.
- Within the job lifecycle: the text of messages, access checks on commands (a rejected command
  changes nothing), expiry of a resume by age and the policy comparison (they only refuse), SQLite
  errors other than a lost race, and clock changes; progress messages, which decide nothing;
  the full-text table and the evidence behind a merge frontier.
- Of the TTL runner: exit statuses, the audit file, caffeinate, the sleep policy that pauses the
  clock, the optional stop check (`AnalysisJobs` has it) and callers that ignore signals.
- Of the monitor: `--debug`, `--test-telegram`, captcha and OCR, and the monthly history line,
  which is appended after the state is saved and may be missing after a kill.
- Of the agent bot: what a tool does, uploads and their limits, usage statistics.
- Of the job-search system: the candidate's profile (confirming it replaces one row, and of two
  processes the later wins), drafts of applications, interviews, touchpoints, reminders, searches,
  artifact acceptance, quality gate records and the cleanup tool: commands of one row or one insert
  each, where no step of one depends on a step of another.
- Programs that run alone and keep nothing between two steps: the knowledge-base index, the
  digest, the converter, book search, the token monitor, the skills.
