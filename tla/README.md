# Image Agent: specifications and proofs

TLA+ models of the parts of Image Agent where ordering, crashes and retries
decide whether paid work is lost, repeated or misreported, whether an approval
still covers what it released, and whether a project keeps its configuration
and its deliveries. Paths below are relative to the repository.

## 1. The system

| Component | State it keeps | Operations | Hard part |
|---|---|---|---|
| Project store `storage/project_store.py` | one directory per project: `manifest.json`, `branches.json`, `runtime_policy.json`, `checkpoints/`, `events.jsonl`, `transactions/pending.json` | `checkpoint`, `branch_from`, `apply_config_before_start`, `switch_branch`, `start_step`, `fail_step`, `retry`, recovery, lock-free readers | crash or failing write between any two of up to nine durable writes |
| Job registry `agent_core/jobs.py` | one JSON record per job, a thread pool, the sets `_cancel` and `_callbacks` | `submit`, `get`, `events`, `cancel`, `metrics`, `_run` | several HTTP threads and workers, deadlines, restarts |
| Workflow runner `agent_core/workflow_runner.py`, `agent_core/unified_workflow.py` | the snapshot it passes from handler to handler, read before the project lock | `run`, eight handlers, `next_state`, `_advance_domain` | approvals that must survive branches, reruns, retries and stale snapshots; what is paid twice after a failure |
| Calibration loop `calibrator/calibration_loop.py` | round, image, verdict, decision, checkpointed per round | inspections, decisions, reworks, round limit | a decision that releases more than it was given for |
| Clarification and task book `interaction/` | facts, questions, approvals in the snapshot | cards, answers, drafts, approvals | which approval covers which revision |
| Model gateway `model_router/` | call ledger in `events.jsonl`, usage | `call`, classification of errors, decisions on unknown outcomes | outcome unknown after a timeout |
| Batches `agent_core/batch.py` | candidates in files and in memory | `generate` | partial results of a failed batch |
| Configuration `configs/` | published revisions, bindings of branches, the owner's pointer, supplied files | project creation, settings apply (`runtime_settings_api.py`), managed apply (`runtime_apply_api.py`), activation of rebuilt branches (`managed_runtime.py`) | publication is outside the project's transaction; jobs are prepared without the lock |
| Delivery `agent_core/delivery.py` | exported note and envelope, candidate bundles whose marker is last, `finalized.json` | the last step's export, `/delivery/retry`, `finalize_delivery_candidate` through `/delivery/finalize` and `/delivery/candidates/finalize` | a crash in the middle of a bundle; a retry that writes without the lock |
| HTTP API `main_front.py` | branch-view cache, admission flag | the endpoints | some endpoints read before they lock |
| Front end `frontend/static/js/` | current operation, idempotency keys | `start`, `attach`, navigation | late answers, retries after lost responses |

The API creates a `ProjectStore` per request and hands work to the job
registry; a worker builds a runner, which takes the project lock
(`store.lock()`), runs handlers and calls `store.checkpoint` at each boundary.
Handlers call the gateway for paid model calls. Settings requests publish a
revision and, in one transaction of the store, apply it or fork a branch that
is bound to it. Pollers read manifest, branches and progress without the lock.
The front end polls the job record and repeats a submission with the same key
when the outcome is unknown.

## 2. Modules

| Module | Of | Role |
|---|---|---|
| `ProjectHistory` | store | abstract: commits, forks, configurations and switches are atomic |
| `ProjectStore` | store | one action per durable write, crash and rollback |
| `WorkOrders` | jobs | abstract: what a caller with an idempotency key is promised |
| `JobRegistry` | jobs | one action per critical section of the registry |
| `ModelGateway` | gateway | paid calls, lost answers, decisions |
| `CandidateBatch` | batches | the pool of threads over `ModelGateway` |
| `WorkflowGates` | runner | the graphs of stages and domain states, and the gates that pay for nothing, as sets of snapshots |
| `Workflow` | runner, loop, endpoints | requests, stages, rounds, branches and deliveries |
| `RuntimeSettings` | configuration | overrides, patches, digests, revisions, bindings: operators only |
| `RuntimeRevisions` | configuration | creation, applies, rebuilt branches, switches, prepared jobs, crashes |
| `Delivery` | delivery | exports, candidates, their requests and events |
| `ProjectStoreProofs`, `StoreHistoryProofs`, `JobRegistryProofs`, `ModelGatewayProofs`, `CandidateBatchProofs`, `WorkflowProofs`, `RuntimeRevisionsProofs`, `DeliveryProofs` | each | theorems |
| `MC...` | | symmetry and instances for TLC |

The modules lean on each other's results. A checkpoint is one step in
`Workflow` because `ProjectStore` refines `ProjectHistory` (a theorem); one request of a
project runs at a time there because `JobRegistry` lets one job of a project
execute. A paid call is one step there, whose lost answers and decisions are
in `ModelGateway`; its record is another, and the threads of one batch are in
`CandidateBatch`, whose calls are calls of the gateway because it refines
`ModelGateway` (a theorem).

### ProjectStore
The variables `manifest`, `branches`, `applied`, `policyFile`, `index`,
`files`, `pending` are the documents on disk; `stepEvents`, `forkEvents`,
`confEvents`, `started` abstract `events.jsonl` to what recovery looks up in
it; `published` is the configuration directory outside the transaction. `pc`
is the next write of the operation that holds the lock. `Begin*` are the entry
points with their guards, `Write*`, `Verify`, `Publish`, `MarkPublished` and
`Unlink` the writes in the order of the code, `Recover*` is
`_recover_transaction`, `Undo*` is `_rollback_transaction`. `Crash` may happen
at every `pc`; the next writer finds the intent on disk. `WriteFails` is an
exception inside an operation that has its own handler. `ReadManifest` and
`Listed*` are the projections of the lock-free readers, taken in one step.

### JobRegistry
`record` holds the job files. What runs under `_lock` is one action. A worker
passes `start`, `check`, `execute` and a final stage in `at[w]`; the last look
at `_cancel` and `execute()` are outside the lock and therefore steps of their
own. `overdue` replaces the clock: a job becomes overdue at some moment.
`calls` and `result` are ghosts that count what `execute()` did. `SaveFails`
is a failing write (`WriteMayFail`). `Crash` loses the pool and the sets in
memory; `Restart`, `InterruptOrphan`, `Serve` are `_interrupt_orphans`.

### ModelGateway and CandidateBatch
`log[k]` is what `events.jsonl` says of one idempotency key, `at[k]` where
`RuntimeModelGateway.call` stands: `Start` (or `Refuse`) is the part up to
`model_call_started`, `Invoke` the provider through `ModelExecutor`, `Record`
and `RecordFails` the appends that follow, `Return` the caller. A decision is
two steps, `CheckUnresolved` and `Resolve`, because the code has no lock around
them. `charged`, what the provider bills, is a ghost. `CandidateBatch`
instantiates the gateway with its slots as keys: `Generate` looks up what is
stored, `Take` is a pool thread that reaches the gateway, `Store` and `Fail`
are the two ends of `one`, `Finish` is the caller that raises
`CandidateBatchError` or goes on. `excuses` is a ghost that counts, per slot,
the events that justify another payment.

### WorkflowGates and Workflow
A snapshot is a record of what the handlers keep in the checkpointed data:
stage and domain state, category and its approval, blocking facts, the history
of the task book (`revs`, `rev`, `ok`; a revision is the sequence of its
contents so far), plans and their release, the images in use, round, status
and disposition. `WorkflowGates` says what a gate may make of a snapshot, as a
set of snapshots: the category gate, clarification, confirmation and the style
gate, with the graph of `next_state`, `validate_transition` and
`_advance_domain`.

In `Workflow`, `head` is the newest checkpoint of the current branch (its
node, its data), `mark` one older checkpoint with the policy of its branch,
`policy` the policy of the current branch, `failed` the `failed_step` of the
manifest. `run` is the request being served. It holds the snapshot read
**before** the lock and passes `queued`, `next` (a stage is to be entered),
`render` (the boundary is checkpointed, the batch not paid for), `rendered`
(paid, not recorded), `inspect`, `decide`, `reworked` (paid, not recorded),
`round` (the loop) and `done` (the handler's result is not checkpointed). The
stages are actions of their own: `CategoryConstraint`, `IntakeClarify`,
`ConfirmationBuild`, `PlanCandidates`, `FreezeBoundary`, `RenderCandidates` and
`CandidateSucceeded`, `MasterSelection`, `SelfCheck` with `Inspect`, `Decide`,
`Rework`, `ReworkCompleted`, `RoundEnds` and `SelfCheckDisposition`,
`HumanPrompt`, `HumanEdit`, `Final`. `Raise` is any exception in a handler,
`Refused` a lock that is not free or an illegal transition, `Crash` the death
of the process. A payment, the event that records it and the checkpoint are
three writes, and a run may fail or die between any two of them: `Drop` marks
the image of a run that ends with a payment in hand as lost.
The endpoints that write checkpoints beside a run (while its lock is free)
are `Annotate`, `HumanTuneBest`, `Abandon`, `AddRounds`, `ForkAfter` and
`Rerun` (with `_rewind_stage` field by field in `Cleared`); `Submit` and
`Retry` start a run; `Mark` names the checkpoint a later branch starts from.
`images` are the images paid for in the whole project: the key each was asked
for under, the keys the event log has it under (`found`, what the lookups
`Bought` reads) and whether it was lost. `judged` are the inspections. A batch
of candidates is one image. A human's edit has no key and is paid for each
time it is asked for. The ghosts are `granted` (task
revisions a human approved), `accepted`, `delivered` and `wanted` (plans a
human asked for).

### RuntimeSettings and RuntimeRevisions
`RuntimeSettings` defines what a configuration is: the editable settings, the
merge of overrides and patches, the digests (the form of the bytes, as
supplied or canonical, together with their content, so that two digests differ
exactly where the bytes do), the revision that is built and what its manifest
must satisfy, the runtime a revision stands for, and the binding a branch
keeps of it. Of the ten editable fields the two round limits are kept, whose
values depend on each other, and one library release stands for the rest.

In `RuntimeRevisions` the variables `branches`, `current` and `heads` are what
readers see; `pending` is the transaction, at the steps another actor can tell
apart: intent, manifest written, revision published, marked. `RawBranch` is
the branch of the raw manifest, which a crash can leave ahead of what readers
see and which `ensure_active_config_binding` reads. A settings or managed
apply is checked under the lock against key and base revision; a request may
be sent at any time, again and with an old base. `job` is a run that was
prepared without the lock under one binding and compares it when it has the
lock. The owner side is `pointer` and `Registry` (a config root) and `version`
(the supplied files, which may be replaced under a running deployment). Branches
are `Main`, `BranchName` (named by the code after revision and key) and
`Rebuilt` (named by a user). The ghosts are `asked`, the configuration the
members of a branch were promised, and `shown`, what they saw as a revision.

### Delivery
Only completed checkpoints are kept: those that freeze a delivery. `Ids` are
branch × attempt, since a checkpoint is named by its content, and an attempt
made again after a crash has other content. `run` is the last step of the
workflow: it exports note and envelope, recovers, and checkpoints with the
steps of the store at which a crash matters here (`Checkpoint`, `Save`,
`Swap`, `Commit`, `Recover`). `request` is a request that holds the lock and
writes the parts of a candidate in order, image, note, envelope, marker
(`WritePart`), announces it (`Announce`) and, for the active branch, replaces
`finalized.json` and appends the event (`Publish`, `AppendEvent`). `retry`
writes the exported files again without a lock. `Fork`, `Rerun` and `Switch`
move the project in between. `exported`, `bundles`, `announced`, `finalized`
and `event` are what is on disk.

## 3. Runs

| Run | Instance | Shows |
|---|---|---|
| `store_history` | 2 branches of 2 checkpoints, 2 configurations, 2 keys | history well formed, head newest, log and history agree, committed data stays, keys take effect once, publication precedes visibility, no foreign policy, refinement of `ProjectHistory` |
| `store_liveness` | small, fair; writes of a rollback may fail | an intent is resolved unless crashes never stop: no project stays blocked |
| `jobs_safety` | 2 projects, 2 keys, 2 jobs, 2 workers, failing writes | one execution per project, a key runs once, true statuses that stay, refinement of `WorkOrders` |
| `jobs_liveness` | 2 projects, 2 jobs, 1 worker, callbacks that fail, fair | jobs in flight are backed by the pool, the timeline neither repeats nor continues after the end, every job ends |
| `gateway_safety` | 1 call made 4 times, 2 lost answers, 2 humans | charges are in the log, no blind retry |
| `batch` | 2 slots, 2 threads, each called 3 times, 1 lost answer each, fair | no second payment without a reason, no partial success taken for complete, every batch ends |
| `workflow_human` | every form of every page, 2 task books, 2 images, 4 rounds, one policy | nothing is delivered that was not judged or accepted, one decision releases one round |
| `workflow_branches` | forks and reruns from the newest and from an older batch, 2 policies with the category gate, 3 images, 3 rounds | what is paid for was released, an image is paid for again only if it was lost before it was recorded |
| `workflow_resume` | no gate but the task book's | finding: a batch is planned and paid for twice |
| `settings` | 2 members or the owner, 2 patches, 3 contents of the supplied files, 1 rebuilt branch | accepted settings are kept, a run uses its branch's configuration, revision numbers are new, settings branches load |
| `settings_branch` | a standalone project with one rebuilt branch | finding: a branch no request can load |
| `delivery` | 2 branches, 2 attempts, an intact and a damaged image, fair | a candidate that is found is whole and announced once, an interrupted one can be completed, completed checkpoints that last are announced in the end |

**Bounds.** `MaxSeq` (2) lets a branch have a first and a later checkpoint,
the two cases that `NextSeq` and the rollback distinguish. Two configurations
and two keys make a repeated and a competing apply. Two jobs per project are
enough for a pairwise property, and with one worker the second waits in the
queue. One job cannot be submitted twice (`Jobs` bounds the submissions).
Crashes are not bounded in any module. Calls of different keys share nothing,
so one key is enough for the gateway; `MaxCalls` and `MaxLost` leave room for
a lost call, a lost retry and one more. Two candidates are enough for one that
fails next to one that succeeds.

In the workflow, `Docs` (2) and `MaxRevisions` (2) make an approved revision
that is edited and one that is put back to earlier content; `MaxImages` (2)
is a candidate and one rework or edit, or two candidates, the pairs that the
properties of `workflow_human` and `workflow_resume` speak of; `MaxRounds` (4)
exceeds the limit of the policy (3), so that a round is added at the limit;
`MaxVersions` bounds repeated matching of category and plans. A decision is
taken against two consecutive inspections, so two rounds suffice for
`OneDecisionOneRound`. `Budget` bounds the questions.

`workflow_branches` has three images and three rounds: a candidate and two
reworks, one after the other, so that a rework has a rework as its source; or a
candidate, its lost rework and the same rework again; or a lost candidate, its
replacement and a rework. `BranchPhases` names the checkpoint from which it
forks: the batch, from which `Rerun` leads back before the plans and
`ForkAfter` on to the reworks. Both policies have the category gate. They
differ in the style gate, so that plans made under one are stale under the
other, and a branch may skip or gain a release by the policy it is bound to. It
has one revision of the task book and one version of the plans: the clause of
`PaidWasReleased` about later revisions rests on `PaidAlwaysReleased`.

For the settings, each of the two patches is valid on its own and both
together are not, so that a lost check of the base revision shows. Of the
three contents of the supplied files the second differs from the first in an
editable default alone, the third from the second in a private field alone.
`MaxId` (3) leaves a number above the two that applies publish; `MaxStage` (2)
gives an unfinished and a completed project. For the delivery, a second
attempt is a checkpoint made again after an undone one; `MaxPrepared` (2)
bounds all attempts together, so both two attempts of a branch and one on each
of two branches occur.

**Deadlock** is not checked where the system may stop: a project that is over
or waits at a bound (`gateway_safety`, `batch`, the workflow and the settings
runs).

**Fairness.** `IntentResolved`: a writer that holds the lock goes on
(`WF(Write)`, `WF(Undo)`) and another writer comes (`WF(Recover)`): every
entry point recovers first, and the lock is released by the operating system
when a process dies. `JobsEnd`: pool threads run and `execute()` returns or
raises, since every model call it makes has a timeout (`WF(Work)`), and a dead
process is restarted (`WF(Recovery)`). `BatchEnds`: the same pool and timeouts
(`WF(Work)`), and its premise says that the bound on calls is not met.
`CandidatesDelivered`: a thread that holds the lock goes on to the end of its
handler (`WF(Transaction)`, `WF(Export)`, `WF(Answer)`), and an owner who asks
for the candidates again and again gets the lock in the end
(`SF(FinalizeAll)`: the lock is free again and again, and the requests that
hold it in between are the owner's too). Its premise excludes a checkpoint
that precedes or is a damaged image, for which the code fails the request. All
hold on condition that crashes stop; no fairness is assumed of other requests,
expiry or cancellation.

## 4. Proofs

Every theorem is for all values of the constants, under the named assumptions
of the modules that declare them.

`ProjectStoreProofs` assumes in addition `RollbackMayFail = FALSE` (no write of
a rollback fails; section 5 says what the code does otherwise) and proves

* `TypeCorrect`: the type invariant;
* `ReadersAlwaysSeeDurableHead`.

The inductive invariant `IInv` adds to `TypeOK` what each `pc` knows of the
intent: which documents already show its effect, and that the documents saved
in it (`prevManifest`, `prevBranches`) were themselves a consistent state
whose head is outside the part a rollback deletes. Without the last conjunct
an undo step could remove the checkpoint that readers are shown.

`StoreHistoryProofs`, under the same assumption, proves the other safety
properties of `store_history`: `HistoryStaysWellFormed`, `HeadStaysNewest`,
`LogTellsTheHistory`, `KeysTakeEffectOnce`, `PolicyFileIsBound`,
`CommittedStays`, `PublishedFirst`, and with `CommitsAreAtomic` the refinement
of `ProjectHistory`. Most of them speak of the time between transactions and
say nothing while an intent is there, so none is inductive. `HInv` says what
takes their place. Without an intent the project is whole, heard of in the
log, and nothing else is announced (`Settled`). With one, the project *saved
in the intent* is whole (`WholeBefore`), the intent fits it (`Fits`: its place
is the next one of its branch, its key is unused), and each document is either
as it was saved or as the intent wants it (`Documents`). `Place` adds, for
each `pc`, which of the two it is; a crash forgets `Place` and keeps the rest,
which is all that recovery has to go on. An intent is dropped only when
everything is restored (`Restored`) or everything is written and announced
(`Said`), and two lemmas show that either way the project is whole again. For
the refinement, `View` shows that readers see the project or the one saved in
the intent, `StepOfView` that only `switch_branch` and the unlink change what
they see, and `EndIsAtomic` that the unlink of a complete intent is a commit,
a fork or a configuration of `ProjectHistory`.

`JobRegistryProofs` proves `JobTypeCorrect`, `AlwaysOneJobPerProject`,
`AlwaysOneExecution`, `KeyAlwaysRunsOnce` and `OutcomeAlwaysTrue`. `JInv` says
what a worker's place implies about its job's record (a job past `start` is
running or cancelling), that no two workers and no two places of the queue
hold one job, and that only jobs in the hands of a worker past `check` have
entered `execute()` without being over. One execution per project then follows
from one job in flight per project.

The same module proves `FinalAlwaysStays` and `RegistryKeepsItsPromise`, the
refinement of `WorkOrders`. Its lemma `StepOfRecords` sorts the steps of the
registry by what they do to the records: nothing (`Unmoved`), jobs in flight
become final (`Ends`), a queued or running job changes status without ending
(`Turns`), a job enters `execute()` (`Enters`), or a new one is submitted and
expires the overdue ones of its project (`Submits`). No one of these touches a
final record. `OrderOfJob` says that an order is as far as its only job, so
that each kind is an end, a stutter, a beginning or an acceptance of
`WorkOrders`.

`TimelineAlwaysEndsOnce` is about callbacks that may be lost while records go
on. A timeline is therefore compared not with the record but with what the
record went through (`Reached`): it holds nothing else (`TimelineOfRecord`),
and every step either leaves it alone (`Quiet`) or appends a status that the
record had not reached, while nothing final was reached (`Tells`). It holds
also when writes fail.

`InFlightAlwaysBacked` assumes `WriteMayFail = FALSE`: when the write at the
start of a job fails, the code drops a queued job that stays queued on disk
until the next restart. `QueueHolds` (`JobsHaveOneHolder`, proved without that
assumption) says that the jobs in the queue and with the workers are different
and that a worker before `check` has a job nobody else can end. `Backed` adds
to the property what a recovering process still has to scan, without which a
crash in the middle of `_interrupt_orphans` would lose a job.

`ModelGatewayProofs` proves `GatewayTypeCorrect`, `ChargesAlwaysAudited` and
`NeverBlindRetry`. The log alone is not inductive for the charges: `GInv` adds
that a call in flight has a start of its own that no charge has used yet.

`CandidateBatchProofs` proves `BatchTypeCorrect`, `CompleteAlwaysHasAll`,
`StoredAlwaysPaidOnce` and `AlwaysPaidAgainForAReason`, for any number of
slots, threads, calls and lost answers. `BInv` says that a slot is waiting,
held by a thread or stored, never two of these, and that a running batch has
lost none. `PInv` keeps the accounts: beyond its excuses a slot is charged at
most once, and only if it is stored, its answer is in memory, or its outcome
is outstanding, in which case the gateway refuses to start it.
`BatchUsesTheGateway` is the refinement of `ModelGateway`, whose theorems it
carries over to a batch: `BatchChargesAreAudited` and
`BatchNeverRetriesBlindly`.

`WorkflowProofs` proves `WorkflowTypeCorrect`, `PaidAlwaysReleased`,
`DeliveredAlwaysJudged`, `OneDecisionAlwaysOneRound` and
`PaidAgainAlwaysAfterALoss`, for any task books, policies, forms, pages that
may be branched from and bounds. None of the properties is inductive: a branch, a
rerun, a retry and a request with a stale snapshot may go on from any snapshot
that is kept somewhere. `WInv` therefore states what is true of **every** kept
snapshot, the newest checkpoint, the marked one and the run's own (`Sound`):
its approval was given by a human, stands wherever the stage is past the
drafting of the task book, its plans are released where the render boundary
says so, and what it calls satisfied passed an inspection of that image
against that revision, or was accepted. `Kept` adds what a checkpoint's node
says of its data, `Sure` what the run's place says of its snapshot (a run that
decides has its inspection recorded), `Single` that a run's decision is either
still unused or has released one round. `Sound` is stated over the sets of
approvals, acceptances and inspections, so that one lemma shows that snapshots
stay sound when these grow. The proof has a lemma per gate, per stage and per
endpoint.

`PaidAgainAlwaysAfterALoss` rests on a second invariant, `PInv`: every image
that has a key is recorded under that very key, was lost, or is the last one
and in the hand of the run; and the key the run will record it under, computed
from its snapshot when the answer is there, is the one it was asked for under.
A lookup that finds nothing thus says that every earlier image of its key was
lost. The argument fails if anything the key is made of changes between the
call and the record.

`DeliveryProofs` proves `DeliveryTypeCorrect`, `CandidateAlwaysWhole` and
`BundleNeverInConflict`. `DInv` adds to the type invariant that every part on
disk, also of a candidate without a marker, was made from the frozen
checkpoint (`PartsAreFrozen`). A crash leaves any prefix of the parts, and the
next request compares what is there: without that conjunct nothing says that
what it finds is what it would write.

`RuntimeRevisionsProofs` proves `RevisionsTypeCorrect`, `NumbersAlwaysNew`,
`AlwaysRunsUnderItsBranch`, `AcceptedSettingsAlwaysKept` and
`SettingsBranchesAlwaysLoad`, for any settings, models, members, changes,
registry, supplied files and bounds. A configuration is described several
times, and the properties need that the descriptions agree: the binding of a
branch, the revision it names, the ghost of what its members were promised and
the ghost of what was shown as that revision. `RInv` adds to `TypeOK` and
`NumbersAreNew`

* `HistoryHolds`: each binding has the settings and models that were promised
  (`Kept`); a branch the settings made has the digests of its revision
  (`Describes`); in a standalone project every revision is the first one with
  its own overrides on top (`Derived`) and was shown as exactly that
  (`PromiseFor`). The last two are what makes a change accepted on top of
  another one keep both.
* `PendingHolds`: the same of the transaction, so that a recovery may commit
  it; and a revision whose transaction can still be undone has a number nobody
  was ever shown, so that nobody can base a change on it.
* `JobHolds`: a prepared run has what its binding says, and one that works has
  the binding of the raw manifest, which a crash can leave ahead of what
  readers see.
* `Stages`: what is there before a project is ready. A project whose creation
  was interrupted has a branch that cannot be loaded (`UnfinishedNeverLoads`),
  and nothing can happen to it.

`NextIsFree` needs a highest number among those published, which the induction
theorems of the library cannot give here; `HighestIsHighest` takes it from the
order of the finite set of numbers above a given one. The assumptions on the
constants are those of `RevisionsAssumption`: the registry holds intact
revisions with a first one, each version of the supplied files is consistent,
and the placeholder `None` is none of the values.

`SettingsBranchesLoad` speaks of branches that share with the supplied files
what is not editable. Two more theorems say when that is so.
`SettingsBranchesOutliveDefaults`: always, when the owner changes nothing but
editable defaults and models. `ActiveAlwaysLoadsUnlessRebuilt`: in addition,
when no branch is named by a user and a managed deployment has a config root,
whatever is active loads, so the violation that `settings_branch` finds has no
other source. Both rest on `ComeFrom`, which says where each binding comes
from.

Every safety property that a passing run checks is proved. Checked by TLC only
are the four liveness properties (`IntentResolved`, `JobsEnd`, `BatchEnds`,
`CandidatesDelivered`): they depend on fairness, of which the prover has
no rules for `ENABLED`.

## 5. What the code does that its text does not say

Two runs state what a document or a comment promises and TLC finds it
violated:

* `workflow_resume`. The guide says that continuing a task does not repeat
  confirmed paid steps. The boundary before the paid render is checkpointed
  with the state the run came with; with the style gate automatic that is
  still `confirmation_build`, so after a failure or crash in the render the
  next advance drafts and approves the task book again, prepares version 2 of
  the plans, under which nothing is stored, and pays for the batch again.
* `settings_branch`. A standalone project that reopens its history by
  `POST /branches` binds the new branch to the base runtime, with the digests
  of the supplied files; the local revision of that number was published with
  those of the canonical text, and no request can load the branch.

Observations that no run states.

Store and jobs:

* `_rollback_transaction` unlinks the intent in a `finally`, also when one of
  its own writes failed (`project_store.py:872`). The manifest can then name a
  checkpoint that is gone. The safety properties of the store are stated
  without such failures.
* When the record of a success cannot be written, the handler records a
  failure (`jobs.py:221`).
* `switch_branch` writes the manifest and then `runtime_policy.json` without an
  intent (`project_store.py:1558-1561`). After a crash between the two the file
  holds the policy of the branch that was left, until the next switch or
  configuration. `PolicyFileOfSomeBranch` allows it.
* `resume()` projects the manifest before it looks at a complete intent
  (`project_store.py:948`): a job can repeat a final step that was committed.

Gateway:

* A key whose retry is lost as well stays refused, and no action is offered
  for it, since a key that was ever resolved is dropped from the list
  (`gateway.py:16-29`, `41-42`, `67-70`).
* A crash during a call leaves a start without an outcome, and the next run
  pays again without asking (`gateway.py:67`).
* Two requests can both resolve one unknown outcome, perhaps with opposite
  actions, as check and append are not one step; `ModelExecutor.classify`
  calls nothing retryable, so `max_render_retries` has no effect; `abandon` has
  the effect of `retry_after_confirmation`, as `call` looks only at whether a
  decision came last.

Workflow:

* A run reads its snapshot before the lock, so it can overwrite a checkpoint
  written in between (a lost update); approvals and payments hold all the same,
  which is what `PaidAlwaysReleased` and its neighbours say.
* A branch bound to another configuration keeps the frozen policy hash, and
  plans made after it never pass the provenance check
  (`workflow_runner.py:1290`, `1308-1313`): the branch cannot be finished.
* `round_checkpointed` stores the same round number after a rework, and a
  crash between two rounds leads the next request to `human_prompt_iteration`.
* A project at `terminated_without_delivery` is brought back by
  `accept_current`.
* Under automatic release a decision may be applied to an inspection that the
  human has not seen yet.
* The command line's `add_rounds` does not store the new policy, and the API's
  `add_rounds` after a crash stores one that lacks fields.
* "Regenerate" of a task book keeps the existing specification; plans are built
  from the specification, not from the approved text of the task book.
* A stale run that fails after a rerun branch was made records its
  `failed_step` on the new head (`project_store.py:952`).
* The best image at the round limit is taken from the inspections of the whole
  project, also of other branches (`calibration_loop.py:64`). The model takes
  any inspected image there.
* A fork to a policy of fewer rounds ends in "质检循环意外退出".

Configuration:

* A crash between `store.create` and the publication of the first revision
  leaves a project that never loads.
* On a managed deployment a rebuilt branch has a boundary of its own, and
  `ensure_active_config_binding` refuses every later apply on it.
* A run looks at the raw manifest before it recovers: after a crash in a
  branch transaction jobs fail until a settings, branch or switch request
  recovers.
* `config_revision_applied` is lost by a crash after the intent is unlinked;
  the branch in the audit entry of a run is read before the lock
  (`workflow_runner.py:153`).
* A change of a supplied file outside the editable fields strands existing
  branches; `SettingsBranchesLoad` is stated for files that keep them.
* A managed deployment without a config root has no revision at all, and its
  projects are bound to the digests of the supplied files as they are: after
  any change of those, also of an editable default, they no longer load
  (`main_front.py:417-443`). `SettingsBranchesLoad` excludes it.

Delivery:

* A crash after the index but before the manifest of a last checkpoint lets
  `/delivery/candidates/finalize` announce a checkpoint that recovery undoes
  (`main_front.py:1376`).
* `delivery_finalized` is lost by a crash between `finalized.json` and the
  event, as the next request finds the file unchanged (`main_front.py:1353-1362`).
* The retry of the note holds no lock: note and envelope can come from two
  writers, and a note written by the model is replaced by the template's.
* The docstring at `delivery.py:162` and the marker that raises at line 218
  when it cannot be read disagree; one damaged image fails a whole
  request for all candidates.

## 6. Not modelled, and the plan

Left out for good: prompts, the wording of task books and cards, rendering,
HTTP clients, skills and style data, CSS and page layout, the text of the
configuration files. Heartbeats change a timestamp only.

Hazards of the code that no property covers, besides those listed with a note
in `PROJECT.json`: the branch is part of a call's key, so a retry on a new
branch does not see the same call on the old (`gateway.py:63`); the aggregate
of several failures carries the category of one (`batch.py:16`); a branch view
read before an invalidation enters the cache after it (`main_front.py:1457`);
a reader sees `pending.json` exist and a writer removes it before the read
(`project_store.py:612`); and the three of section 5 at `jobs.py:221`,
`project_store.py:948` and `calibration_loop.py:64`.

Where a module is coarser than the code, and why no property depends on it:

* `ProjectStore`: `ReadManifest` and `Listed*` read intent and manifest in one
  step (`project_store.py:604-633` takes two).
* `JobRegistry.Execute`: the work itself raises no `InterruptedError`, which no
  code in it does; the one of the check before it (`jobs.py:205`) is modelled.
  `CandidateBatch.Pending` has no mismatch of provenance (`batch.py:66-72`),
  since the scope of one batch is fixed.
* `WorkflowGates.NextState` leaves out the phase `waiting_reinspection`, which
  is read (`workflow_runner.py:180`) and which nothing writes.
* `Workflow.Inspect` writes the inspection and the boundary of a held round in
  one step (`calibration_loop.py:74`, `86`), and `Annotate` the edit and its
  checkpoint. A crash between them leaves an inspection that the next request
  finds again, or a paid edit that nothing refers to. An inspection is kept per
  revision of the task book, in the code per text of the specification.
* `RuntimeRevisions.BeginManaged` compares the base revision only, not also
  `expected_project_config_hash` (`runtime_apply_api.py:124`): it accepts more.
  `Mark` merges the mark with the policy and branches that follow it
  (`project_store.py:1310-1324`); a crash between them is undone in both.
* `Delivery.Switch` goes to completed checkpoints only. `Final` reads the
  snapshot with the lock, the code before it (`main_front.py:1116`); what that
  adds, two completed checkpoints of a branch, a crash brings about as well.
  `Fails` stands for every way in which a candidate cannot be made: a damaged
  image, one that cannot be opened or whose suffix is refused
  (`delivery.py:193`, `212`).

Plan, in order of importance:

1. `StoreRace`: `/retry`, which forks without the project lock
   (`main_front.py:1409`), next to a runner; and readers that read the intent
   and the manifest in two steps.
2. `RunnerOverStore`: the runner over the store's writes instead of atomic
   checkpoints.
3. `JobClient`: the front end's key policy and operation generations over an
   unreliable network, composed with `JobRegistry`.
4. The gateway over branches; `BranchViewCache`; `check_health`,
   `progress_snapshots` and the read lock.
5. Proofs: the store with failing writes of a rollback, for which a weaker
   history invariant has to be found; the same theorems for the modules above
   as they are written.
