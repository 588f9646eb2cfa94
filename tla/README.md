# Verification of the litigation tracker and of its agent tooling

This directory holds TLA+ models of two programs that live in one repository.

* The Worker behind the prediction-market litigation tracker (`src/src`): a
  Cloudflare Workers program that, once a day, starts a *Run*, packages what its
  sources changed, has language models draft and review updates, and holds the
  Drafts at an approval gate before they enter the public record.
* The agent skills the repository is built with (`src/.agents/skills`,
  `src/_bmad`, `src/.bmad-loop`): Python commands that drive coding agents in
  terminal sessions, keep story and sprint files, pin policies, render skills and
  run evaluations, with nothing but files between them.

Every module is translated from that code; the comment of each definition names
what it stands for and `PROJECT.json` gives its lines. TLC checks every property
on small instances; TLAPS proves the ones listed below for every value of the
constants.

## The system

All durable state of the Worker is one D1 (SQLite) database. `db.batch([...])` is a
transaction, and a statement made by `assertStmt` aborts the whole batch when
its condition is false; every other database call stands alone. Between two
awaits anything may run: other requests, both crons, Workflow instances of the
engine, and code whose caller has already timed out. That is where the
difficulty lies, and it decides the granularity of the models: **one batch or
one stretch between two awaits is one action.**

| Component | State | Operations | Interacts with | Hard because | Correct when |
|---|---|---|---|---|---|
| Run admission (`runAdmissionRepo.ts`, migration 0023) | `run_admissions`, `run_retirements` | admit, record, claimSubmission, enter, finish, resolve, attachLegacy, fences | dispatch, Workflow, accounting (settled), gate (status) | several entry points decide on reads made earlier; old instances replay | one owner per date; no work beside an admitted Run; what lost its date stays untouched; the date comes free |
| Run dispatch (`dailyRun.ts`) | locals across awaits, Workflow instances | startRun, recoverRunDispatch, kickDailyRun, `DailyRunWorkflow.run` | admission, Workflow service | lost, late and duplicate creates; receipts in any order; eviction | one create per Run; "started" only for a real instance |
| Daily steps (`dailyRunSteps.ts`) | Run status, Drafts | ensureRun, packageDailyRun, afterPackaging, reviewDailyRun | connectors, agents, gate | step bodies replay, or outlive their step | a Run moves once from running; replays write nothing after a fence |
| Run lifecycle (`runsRepo.ts`) | `runs` | conditional status updates, budget edits, read models | everything | unfenced updates from timed-out code | transitions only from the expected status |
| LLM accounting (`llmAccountingRepo.ts`, migration 0021) | `llm_operations`, run and period totals | reserve, claimDispatch, markUncertain, retain, release, settle, reconcile | gateway, admission | answers lost after money was spent; concurrent owners of one logical call | one dispatch per operation; liability never lost; budgets never exceeded |
| Model gateway (`gateway.ts`, `costPolicy.ts`, `timeouts.ts`) | attempt in progress | complete, invokeTool, fallback, budget stop | accounting, providers | timeout against a late answer, retries | at most one paid attempt at a time; stop means stop |
| Approval gate (`approval.ts`, `f1Apply.ts`, `draftsRepo.ts`) | `drafts` chains, Run status, public record rows | decide, edit (insertRevision), reject Run | evidence, record, yolo | decisions and edits race; the last decision closes the Run | one decision per Draft; only chain heads are decided; record written iff approved |
| Yolo approval (`yoloPolicy.ts`, `modeRepo.ts`) | mode row, decisions | autoApproveRun, set mode | gate | a replayed pass; mode changed by two operators | never approves what a human must see |
| Draft and review (`draftAndReview.ts`, `actionPolicy.ts`) | Draft reviews, revisions | draftAndReview, guardrails | gateway, gate | resumed in the middle | no Draft reaches the gate without its checks |
| Source packages (`connector.ts`, `courtListener.ts`, `runPackagesRepo.ts`) | package rows, fingerprints | observe, runConnector, first fetch | evidence, Drafts | replay of a partly written package | every observed change is drafted once |
| Evidence (`evidence.ts`, `evidenceRepo.ts`) | append-only receipts, `seq` | append | all writers | sequence taken under concurrency | a receipt iff its change |
| Steering (`submitTurn.ts`, `StewardAgent.ts`) | turns, receipts | submit, execute, recover | configuration, guidance, budgets | crash between effect and completion | an effect is applied once and answered truthfully |
| Versioned configuration, guidance (`pipelineConfigRepo.ts`, `standingGuidanceRepo.ts`) | version rows, items | append, revert, record, revoke, edit | steering, Run start | version and cap computed from a read | a linear history; the cap holds; revoked stays revoked |
| Public API, access, calendar, user interfaces | none or read-only | queries, one vote | | | not modelled: no multi-step state |

The agent tooling has no database and hardly any lock. A command reads a few
files, computes, and replaces files with a rename or a plain write; another
command, a session's runner script, an agent or a person does the same beside it.
**One read or one replacement of a file is one action**, and what a command
remembers between the two is state of the model.

| Component | State | Operations | Interacts with | Hard because | Correct when |
|---|---|---|---|---|---|
| Story automator sessions (`core/tmux_runtime.py`) | a session's JSON state file, its tmux pane, its processes | spawn, runner script, poll, kill, collect | monitor, agent | five writers read, then replace one file without a lock | success was earned; a live session is not called dead |
| Story keys and look-ups (`story_keys.py`, `sprint.py`, `success_verifiers.py`) | sprint-status rows, story files | normalise, look up, verify-step | every story command | an epic name may look like a story | one story is one story for all of them |
| Epic files and commands (`epic_parser.py`, `orchestrator_epic_agents.py`) | a range of stories, retros | parse, range, last story, blocking, epic-complete | sprint status | rows appear while a range is followed | no story is skipped; an epic that is complete is done |
| Policy snapshots (`runtime_policy.py`) | bundled, override, snapshots, state document | pin, load, hash | every command | people edit all of it meanwhile | a run keeps the policy it started with |
| Agent selection (`agent_config.py`) | configuration, presets, state document | resolve, plan | spawning | two resolvers, three copies | the agent that was stated is the agent that runs |
| Stop hook (`stop_hooks.py`) | `config.toml`, `hooks.json` | ensure-stop-hook | the agent's own settings | runs overlap or die between two files; text is patched by pattern | others' settings are kept; what is reported is so |
| Layout and roots (`runtime_layout.py`, `resolve_customization.py`) | what is installed where | resolve | all | resolved anew by every process | all look in the same place |
| Monitor, commits, marker (`commands/tmux.py`, `commands/basic.py`) | marker, commits, state documents | monitor-session, commit-story, stop-hook | sessions, git | the session changes between look and use | completed means verified; a commit holds the work |
| Story loop (`steps-c/`) | step, attempts, cycles | one story from creation to commit | all of the above | crash and resume beside a live session | finished means committed and done |
| Sprint files (`sprint_plan.py`, `sprint_status.py`) | `sprint-status.yaml` | generate, update, restore | developers, agents | write, read back, restore, no lock | all or nothing; readers accept it |
| Module setup (`merge-config.py`, ...) | `config.yaml`, help rows, old directories | merge, clean up | the user | dies between two writes | nothing is deleted before it was migrated |
| Memory logs (`memlog.py`) | a log | init, append, set, complete | skills | truncation and rename | acknowledged entries stay |
| Evaluations (`run_evals.py`, `run_triggers.py`) | pools, directories, summaries | run | agents | workers hang, raise, share a directory | every job is counted |
| Skill rendering (`render_skill.py`) | snapshots | render, publish | editors | two publish; a staging directory is left | a published snapshot never changes |
| Event relay (`bmad_loop_hook.py`) | event files | emit, consume | orchestrator | short writes, links, temporaries | a consumed event is whole |
| Rosters, catalogs (`resolve_party.py`, `resolve_personas.py`, `pick_methods.py`, `brain.py`) | members, methods | resolve, draw | overrides | aliases collide | names mean one member; draws are diverse |

## Modules

| Module | Models |
|---|---|
| `RunAdmission.tla` | run admission, dispatch, the Workflow and the Run's life as seen from admission |
| `DateLock.tla` | what admission promises: an abstract lock per date |
| `LlmAccounting.tla` | paid model calls: `complete()` over the accounting batches and views |
| `PaidWork.tla` | what admission relies on about paid calls: a Run has money in flight or not |
| `ApprovalGate.tla` | decisions, revisions, the autonomous pass, rejection of a Run, the write of the record |
| `Publication.tla` | what the gate promises the reader of the public record |
| `SessionRuntime.tla` | one tmux session of the story automator |
| `StoryStatus.tla`, `EpicRun.tla` | story keys, sprint status and verifiers; epic files, ranges and epic commands over them |
| `PolicySnapshot.tla` | policy layers, snapshots, hash, state document and marker |
| `AgentConfig.tla` | both agent resolvers, presets, the state document's block, the agents plan |
| `StopHooks.tla` | ensure-stop-hook over `config.toml` and `hooks.json` |
| `RuntimeLayout.tla`, `ProjectRoot.tla` | skills root, provider, marker, artifacts; the project a customization is read from |
| `Orchestration.tla` | monitor-session, the marker and the stop hook, commit-story, state documents |
| `StoryLoop.tla` | one story, step by step, with crash and resume |
| `SprintFile.tla` | `sprint-status.yaml` under its two writers |
| `SkillInstall.tla` | merge-config, merge-help-csv, cleanup-legacy |
| `MemoryLog.tla` | memory logs, by inodes |
| `EvalRuns.tla` | the pools of the evaluation runner |
| `SkillRender.tla` | concurrent renderers and immutable snapshots |
| `HookRelay.tla` | event files, temporary names, anchored platforms |
| `Roster.tla`, `Catalog.tla` | who is in the room; draws of methods and techniques |
| `MCRunAdmission.tla`, `MCLlmAccounting.tla`, `MCApprovalGate.tla`, `MCTooling.tla` | constants for TLC; `MCTooling` composes the tooling's parts |
| `RunAdmission_proofs.tla`, `LlmAccounting_proofs.tla`, `ApprovalGate_proofs.tla`, `SessionRuntime_proofs.tla` | theorems of the pipeline and of a session (the first also of `DateLock`) |
| `SkillScripts_proofs.tla`, `ProjectScripts_proofs.tla`, `Tooling_proofs.tla` | theorems of the tooling: scripts of the skills, files of a project, the composition |
| `SequenceFolds.tla` | a fold over a sequence, step by step, instantiated by the proofs |

`RunAdmission` takes "paid work opens and ends" as steps of its environment
(`Reserve`, `EndOperation`, `BudgetStop`); `LlmAccounting` takes "the Run moves
on, or loses its date" as steps of its own. `PaidWork` is the contract between
the two.

### RunAdmission

`status`, `meta`, `drafts` are the columns of `runs` and `drafts` that admission
reads; `adm` and `retired` the two tables of migration 0023; `op` whether the
Run has an unsettled paid operation (`settled()` is false); `inst` the Workflow
instances; `creates` the create calls sent for a Run; `hs` the request handlers,
each with the locals it keeps across awaits. A handler's or an instance's `pc`
names the await it is suspended at.

* Batches: `Admit`, `Record`, `ClaimSubmission`, `Enter`, `Finish`,
  `ResolveDispatch`, `AttachLegacy`; each guard is the conjunction of the
  batch's asserts and of the unique indexes, named one by one (`NothingLive`,
  `ClaimsReleased`, `IsPredecessor`, ...).
* Handlers: `TriggerOperator`, `TriggerScheduled`, `ListRuns`, `AdmitRun` or
  `AdmitAborts` and `Raced`, then `Recover`: `ClaimSubmission`, `SendCreate`,
  `Inspect`, `RecordReceipt`, `Reread`. `Check` is the recovery endpoint.
  `Evict` drops a handler anywhere.
* Workflow: `AttachLegacyRun`/`AttachLegacyAdmits`, `ClaimLegacy`, `Enter`,
  `Package`, `MonitorDraft`/`MonitorDone`, `ZeroFinish`, `Route`, `ReviewDone`,
  `Finish`. `Throw` is a fence or an assert that refuses; `GiveUp`, `BodyEnds`,
  `Replay` and `Restart` are the engine and the operator.
* The rest of the system: `Reserve`/`EndOperation`, `BudgetStop`, `Decide`.

Abstractions, each chosen because nothing here tells the values apart:
rejected, empty and failed Runs are `closed`; errored and terminated instances
are `errored`; every status of an instance that has not ended is `running`;
`started_at` is a reading of the clock, which a trigger takes awaits before the batch
(`hs[h].at`) and which may be older than one admitted already; a
create that is lost is one that is never accepted; a paid operation that
became uncertain stays `open`; the suffix space is a constant; a Workflow that
was admitted with a pinned Run starts at `enter`, because what it does before
only reads and is checked again there. The binding without `get` that unit
tests stub is not modelled. A step's retries are represented by `Replay` and
by the step body being entered again.

### DateLock

`owner`, `known`, `live`, `sealed`, and four actions: a new Run is granted a date
on which nothing is live (and overtakes all older ones), an old Run is adopted
alone, a Run's work ends, the operator releases a date.
`RunAdmission!ImplementsDateLock` maps the tables to it: the holder is the
unreleased claim, live is running, awaiting or unsettled, sealed is released or
retired.

### LlmAccounting

`ops` holds the rows of `llm_operations` (with their `llm_operation_periods`),
`ledger` those of `llm_calls`, by the operation they settle; `spend` is the
cached `runs.spend_cents`, `provisioned` the rows of `llm_periods`, `runStatus`,
`fenced` and `stopReceipt` what the accounting reads and writes of the Run. A
call is one execution of `complete()`; its identity stands for the `owner` it
draws, and `calls[c]` keeps the locals that survive an await. `charge` and
`invocations` are what the provider did, which the program can only learn of
through an answer; `seen` is the row an operator has on the screen.

* `complete()`: `Begin` (replay, or go on), `ReadRun`, `ReadAccounting`,
  `Refuse`, `StopRun`; then the batches `Reserve` and `ClaimDispatch`, the
  adapter call `Invoke`, and what is learned of it: `Responds`, `RefusesUnpaid`,
  `Fails` (failure or deadline), `LateResponse`.
* Outcome batches: `Release` (both releases), `MarkUncertain`, `Retain`,
  `SettleRead`, `Settle`, `SettleFails`, `RetainFailed`.
* Operator and environment: `Look`, `Reconcile`, `Provision`, `RunMovesOn`,
  `LoseDate`, `Abandon`.

The two views are `RunTotal` and `PeriodTotal`, sums over the rows as the SQL
writes them (`Sum` counts the cents of all amounts; TLC compares it with a fold
over the rows, `SumIsTheSum`), and `Sync` recomputes the cached total in the batch that changes
it. Abstractions: an answer without an issue books the cost its provider reports or,
from an adapter that reports none (`workersai` and `deepinfra`, always), any token
estimate within the bound, whatever was charged; one with an issue (usage or cost missing,
invalid, over the bound) books at least the bound; a cost that is
reported is taken to be what was charged, since nothing else tells the program; fingerprints are payload values; a failed batch re-reads the operation,
which is what `Refuse` does. The shortcut of `settle()` for a batch that
committed and lost its answer has the effect of the commit and is not a step of its own.

Not modelled: the operations migration 0021 makes of legacy ledger rows with an
issue, edits of budgets and the default budget, replay of a reconciliation
request id, the retries inside an adapter (they run under one reservation),
preflight and price policy.

### PaidWork

`status`, `sealed`, `open`: money goes in flight only for a live Run that kept
its date, and a Run loses its date only without money in flight.
`LlmAccounting!ImplementsPaidWork` maps rows to `open`.

### ApprovalGate and Publication

`draft` holds the rows of `drafts`, named by their root and revision; a chain is
the Drafts of one root and its head the last revision there is. `status` is the
Run's, `receipts` the Evidence rows that readiness and decisions depend on,
`validated` the one receipt the pass can write per Draft, `record` the public
record by cells. `ds`, `ps`, `vs` are executions of `decide()`, of
`autoApproveRun` and of a steering turn's `reviseDraft`, each with what it read
before its last await.

* Before the gate (`ReviewStep`): evaluation (`Persist`, `Review`), guardrails
  (`Enforce`), the end of packaging and the budget stop.
* `decide()`: `ReadDraft` and `Commit`, one batch whose asserts are the guard: the
  Draft is an undecided ready head, the Run awaits, every cell still holds what
  the diff expects (`PriorHolds`). The batch writes Draft, record, receipt and,
  with the last decision, the Run.
* `autoApproveRun`: `ListDrafts`, `Escalate`, one decision after another
  (`Approve`, `AppendApproval`), `Heal`; `reviseDraft`: `InsertRevision`,
  `EvaluateRevision`, `EnforceRevision`. Every one of them may be evicted between two awaits.
* `rejectAwaitingRun` (`RejectRun`) decides all heads of the Run at once.

Abstractions: texts are not modelled, so an edit is an approval; confidence and
threshold are the sets of Drafts that pass at a moment (`Confident`); reads that
only refuse what the batch asserts again are part of `ReadDraft`.

`Publication` has a verdict and an offer per chain and the record: offers are made
and taken back while the chain is open, and the record changes only with an
acceptance, from what the offer expected to what it carries.
`ApprovalGate!ImplementsPublication` maps the open head of a chain to its offer.

### The tooling

`SessionRuntime`: `file` is the state file; the spawner, the runner, the child, the
killer and the poller each keep the copy they read (`spawnCopy`, ...) until they
replace the file with it. A process id is whether the file holds it and whether
its process lives. A session has one fault (its process dies, tmux loses the
pane, somebody kills it), kills come after the spawn ended, and the day that makes
files stale passes only over idle sessions; PID reuse, the heartbeat check and
the export of output are not modelled, nor failures of the state file's write.

`StopHooks` keeps `config.toml` as a sequence of lines, since the code patches
lines that its patterns match and never the parsed document. `StoryStatus` keeps a
story key as its segments. `PolicySnapshot` reduces a file to the version of its
content, which is also its hash. `MemoryLog` distinguishes the inode a name stands for.
`StoryLoop` follows the step files, which are instructions to an agent: its guards
are the answers of the commands those files tell it to obey. The head comment of each module says what it
abstracts.

## Runs

| Run | Checks | Bounds |
|---|---|---|
| `admission_dispatch` | `AtMostOneCreate`, `StartedIsReal`, `SealedStaysSealed` | 1 Run, 2 handlers (symmetric), eviction, give-up, replay, paid work, one restart |
| `admission_legacy` | `TypeOK`, `AdmissionInv`, `OneScheduledRun`, `ReleasedIsQuiescent`, `PublishedChain`, `ImplementsDateLock` | 2 suffixes, 1 handler and the legacy instance as its second actor, give-up, clock readings 1 and 2 in any order; the legacy Run is absent, running or published, started at reading 2 |
| `admission_liveness` | `DateComesFree` | 1 Run, give-up, paid work, `FairSpec` |
| `restart_reconciliation` | `ReconcilesActualStatus` (violated) | 1 Run, one restart |
| `llm_call` | `TypeOK`, `OneInvocation`, `ChargeIsCounted`, `SettledIsTrue`, `AnswersAgree`, `ReconciledIsFinal`, `DecidesOnWhatIsSeen` | 1 key, 3 calls (symmetric), 2 payloads, bound 2, charges 0, 1, 3, estimates 1, 3 |
| `llm_money` | `RunWithinBudget`, `PeriodWithinCap`, `FencedIsSettled`, `ImplementsPaidWork` | 2 keys, 2 calls (symmetric), budget 5 with 1 spent, cap 3, bounds 2, 3, charge 3 |
| `llm_liveness` | `OperationsEnd` | 2 keys, 2 calls, calls may be abandoned, `LiveSpec` |
| `llm_stop` | `StopReceiptIsReal` (violated) | 1 key, 2 calls, bounds 2 and 5 over budget 4 |
| `gate` | `GateTypeOK`, `GateIsConsistent`, `PublishesWhatWasShown`, `ImplementsPublication` | 1 Run, 2 roots that want the same cell, 1 revision, 3 Drafts; 1 handler, 1 pass, 1 reviser |
| `gate_receipts` | `AgentApprovalIsReceipted` (violated) | the same, no operator; the threshold moves |
| `session_runtime` | `SessionTypeOK`, `SuccessIsEarned`, `SessionIsReal`, `PollSettles` | exit codes 0 and 1, modes legacy and auto, `FairSessionSpec` |
| `tooling` | `ToolsTypeOK`, `StoriesAreKnown`, `EpicsAreAgreed`, `HookIsInstalled`, `ConfigurationIsPinned`, `SprintFileIsKept`, `OutputsAreWhatHappened`, `CommandsAreTruthful`, `FilesAreKept`, `StepsAreGrounded` | the sixteen parts of `MCTooling`, one at a time |

One date is enough for `RunAdmission`: no statement reads a row of another date
(the key of `run_admissions_active_date` and of every assert is the date), and
the proofs hold for any number. Two suffixes give a Run and its successor, with
the wrap-around of `nextFreeRunId`, and its exhaustion; two handlers give every
pairwise race of requests, and a handler may be reused any number of times.
`MaxRestarts` bounds operator restarts; `Events` selects the failures of a run so
that each stays small while between the runs all occur. A Run and its successor show both
orders of two clock readings (`MaxClock`); what three Runs do, where the chain forks, is in
`PublishedChainHolds`.

For `LlmAccounting` three calls on one key give a reservation, a twin that lost
the race and a third that finds whatever became of it; a charge of 3 over the
bound 2 is a violated bound, 0 an unpaid refusal. Two calls on two keys are the
smallest race for a ceiling; budget and cap are such that each of the two is the
stricter one in some state. One period and one time suffice there: an operation
outside the window of a period is one of a period that is not provisioned.
`Environment` selects what happens around the calls, and every member occurs in
some run. The runs of `LlmAccounting` switch the deadlock check off: each call is made
once, and the system is done when they all are.

For `ApprovalGate` two roots that want one cell are the smallest conflict over the
record, one revision the smallest chain with a choice of heads, and one handler,
one pass and one reviser give every pair of deciders: a handler is reused. Deadlock is not checked:
a Run that is decided is done.

For `SessionRuntime` the two exit codes are success and failure; the setting
`runner` spawns as `auto` does, and a legacy session is polled once before it is
given up (ten times in the code).

The properties of `tooling` are conjunctions with one part each:

| Property | Says, of the part |
|---|---|
| `StoriesAreKnown` | stories: a completed key is of the story asked for, its status is its own, the review reads the story |
| `EpicsAreAgreed` | stories, of rows and headings that read in one way: a row has one epic and is counted, a complete epic is done; a range stays resolvable, has one last story which is reached, and dependencies block |
| `HookIsInstalled` | hooks: a rewritten configuration is right, an error writes nothing, other handlers are kept, "ok" means installed, later runs change nothing |
| `ConfigurationIsPinned` | policy: what is loaded is what was pinned, or the bundled policy if the document was cut short; agents: stated agents are given, both resolvers agree, the model that is answered runs, and so does a runtime, what is stated is valid; roster: both scripts agree where nobody goes by another's code or name, the room is the installed, who alone goes by a code keeps its members, new faces shadow nobody; catalog: a row is found by a number of its own |
| `SprintFileIsKept` | sprint: a command is all or nothing, readers accept what they recognize of a generated file |
| `OutputsAreWhatHappened` | log: acknowledged entries stay; evals: the summary counts every job, a directory says what became of a job of its case, and firing was observed; render: a halt has a cause, review layers that nothing flattens are kept; relay: what is consumed is whole and of this run; catalog: draws are diverse, nothing is offered twice |
| `CommandsAreTruthful` | commands: completed is verified, a commit holds the work, a held stop has a run; loop: created once, finished is committed; layout: the marker is shared, the own install is used, paths are portable; roots: the working project wins |
| `FilesAreKept` | log, render, install, relay: append-only log, immutable snapshots, nothing deleted before it was migrated, other modules' settings and published events stay |
| `StepsAreGrounded` | commands, sprint, render, loop: the active run is followed, a retrospective closes a finished epic, what is announced is what was read, an unreadable policy stops |

Its bounds (`Tooling.cfg`) are the smallest that make each conflict possible: two
installers, renderers, hooks and modules; three jobs and three trigger runs on a
pool of two, two of the jobs with one directory; two rows, one story file and two epic
files (`MaxEpicFiles`: the ambiguity of a longer epic needs the second) over epics `w`, `w-1`
and `1`; two attempts and two cycles; two edits of a customization, one of a hook file;
custom instructions with and without the frontmatter's delimiter. Memory logs have one writer, as the skills prescribe. Deadlock
is not checked: each part has an end. Where a part starts from a choice that
another part would only multiply, the resting parts take one of its initial states.

Fairness of `LlmAccounting` (`LiveSpec`): an execution of `complete()` goes on
or is abandoned (every await has a deadline or a database behind it), and the
operator attends what is open: looks at it and reconciles it. Note that the admin
page offers its form only for operations with an issue
(`LoopControls.tsx:174`); one whose owner died in `reserved` or `dispatched`
has none, and is reconciled only through the endpoint (`server.ts:631`).

Fairness of `RunAdmission` (`FairSpec`): the Workflow engine drives each instance (it retries from
its checkpoints until it gives up, which stays possible), a Worker finishes the
request it serves, a paid operation is settled or reconciled, the operator
decides Drafts, and keeps checking and resolving the Runs the admin page lists
as active. A lookup of an instance may fail any number of times, but not for
ever: strong fairness of an `Inspect` that answers. Nothing is assumed of creates:
they may be lost.

Fairness of `SessionRuntime` (`FairSessionSpec`): the operating system runs the
spawner, the runner, a poller that is called again, the cleanup of a kill, and
time. Nothing is assumed of the agent, which may work for ever.

With restarts `ReleasedIsQuiescent` does not hold, no run claims it, and its theorem
assumes `MaxRestarts = 0`: an
observation of the ended instance that is recorded after its restart entered
sets `finished`, and the claim may be resolved or released under it. The fences still
protect the data (`admission_dispatch`).

## Theorems

`TypeCorrect` is proved one action at a time over three parts of the type
invariant: database, service, handlers.

`AdmissionInvariant` proves `AdmissionInv`, the conjunction of `OneOwnerPerDate`,
`AdmittedWorkIsAlone`, `FencedIsSettled` and `RowsExist`. The first three are
not inductive alone: `admit` looks only at Runs that exist, so an admission or
an open operation of a missing row could break exclusion; `RowsExist` excludes
it. The argument: a step that changes no admission's existence or release, no
retirement, no Run's existence, and makes no Run live, keeps the invariant
(`WorkOnlyEnds`); handlers, receipts, the Workflow, the gate and accounting
are such steps. Three batches are not: `AdmitKeepsLock` (nothing on the date is
live and every claim of it is released, so the new Run is alone),
`AttachKeepsLock` (the legacy fence says no other claim and no other work) and
`ResolveKeepsLock` (it only gives up). `AdmissionIsExclusive` and
`FencedStaysSettled` follow. The assumptions are those of the module: suffixes exist,
legacy Runs are Runs, `None` is not a Run or a request.

The other properties of admission rest on one classification of its steps: `RowSteps`
says what any of them may do to the rows of one date (`RowStep`: admit, adopt, record,
resolve, open or end an operation, decide a Draft, or only end work), and `RowsStay` what therefore never changes.
With it,

* `SealedStaysSealedHolds`: whatever moves a row asks for a Run that still owns its
  date;
* `AtMostOneCreateHolds` (`CreateInv`): a handler that may send a create has just won
  the claim, and a claim that was submitted is never open to submission again;
* `StartedIsRealHolds` (`StartedInv`): what a handler observed of an instance stays true
  enough, since instances never return to "none";
* `OneScheduledRunHolds` (`ScheduledInv`): twins of one noon share a request id, take
  suffix 0 if it is free, and another one only past an operator's Run;
* `ReleasedIsQuiescentHolds` (`QuietInv`, with `PinnedInv`: a legacy claim is never
  pending, so an instance belongs to one Run), under `MaxRestarts = 0`;
* `PublishedChainHolds` (`ChainInv`), for clock readings in any order: a Run with work left is
  the only one of its date, so one Run is published at a time, and the predecessor it
  recorded is still the first of the list by `started_at`; of two that superseded the same
  Run, the second found it first in the list although the other was published by then, so
  the other brought an older reading;
* `ImplementsDateLockHolds`: admit maps to a grant, attach to an adoption, resolve and
  release to a release, the end of a status or of an open operation to the end of
  work, and everything else to a stutter.

The assumption on legacy Runs (`LegacyAssumption`) is what the old cron did: one Run
per date, with the scheduled suffix.

`LockSafe` proves the invariant of the abstract lock.

`PaidCallHolds` proves `PaidCallInv`, from which `OneInvocationHolds`,
`ChargeIsCountedHolds`, `SettledIsTrueHolds` and `AnswersAgreeHolds` follow.
None of the four is inductive: that `Invoke` happens once needs to know that a
call before it has an operation nobody invoked yet (`NothingPaidYet`), which needs to
know that the call still owns the row (`OwnersAgree`: only the owner leaves
`dispatched`, or an operator); what a settlement books is right because of what
the call learned (`ReportsAgree`), and what a row holds in each state (`RowMoney`)
says that the charge is covered by the liability, then by the ledger. The proof
goes action by action with the type invariant, one lemma per group of conjuncts;
rows of other operations and other calls are disposed of by lemmas on `EXCEPT`.

Its second part builds on that: `ReconciledIsFinalHolds` (a call that may still
write needs `dispatched` or `uncertain`, and no step leaves `reconciled`),
`DecidesOnWhatIsSeenHolds` (versions never decrease, and a row seen at the
current version is the current row), `FencedIsSettledHolds`,
`SpendIsTotalHolds`, `RunWithinBudgetHolds`, `PeriodWithinCapHolds`, and the refinement `ImplementsPaidWorkHolds` with
`SealedIsOverHolds`, which carries the contract over to the detailed model.
Assumptions: amounts are natural numbers, bounds are positive, `None` is no
call, payload or time, tables have finitely many rows.

The ceilings are sums, and a theorem about a sum would usually need an induction over
the rows. Here a sum is the number of cents counted, so `SumGrows` and `SumAdds`
follow from the library's facts on finite sets: the cents of smaller amounts are a
subset, and one more row adds at most the cents of its bound. The rest is
`WithinStep` (only a reservation makes a row count for more: a held row already
counts for its bound, `RowMoney`) and `CreatedBy` (a reservation passed both
ceilings in its own batch, so its bound is added to a total that has room for it).
For periods `Attributed` says that a row names only periods provisioned when it was
created, so that a period provisioned later starts from nothing.

`ApprovalGate_proofs`. `GateTypes` proves `GateTypeOK` with what types alone do not
say: who is at work has a Draft at hand (`TypeInv`). The inductive invariant is
`GateInv`: rows (`RowsInv`: one decision per chain, a Run closes with its last
decision, decisions have receipts, a decided Draft was ready), actors (`ActorsInv`:
what a decider was shown is still what the Draft says; what a pass approves it may
approve), and that approvals are the agent's own and within its bounds. `GateMoves`
classifies every step of every actor as one of five moves on the rows (rest, evaluate,
insert, decide, reject), so that each group of conjuncts is proved once per move
instead of once per action. The facts that carry it: `RowsStay` (an evaluated diff
and a decided row never change), `HeadIsLast` and `OpenChain` (a chain has one head,
and nothing of it is decided while the head is open). `GateStaysConsistent` and
`PublishesWhatWasShownHolds` follow; the second needs that the Draft a decider commits
still carries the diff it was shown, which a revision cannot change since it writes
another row, and that the cells still hold the prior values, which the batch
asserts. `ImplementsPublicationHolds` maps the moves to `Offer`, `Accept` and
`Reject` of `Publication`. Assumptions: the constants' shapes and that `None` is no
Draft, Run or proposal.

`SessionRuntime_proofs`. `SuccessIsEarned` and `SessionIsReal` speak of the state file, and any of
five writers may put an old copy back. `EarnedInvariant` therefore says that every
copy in flight is as true as the file, for facts that, once true, stay so;
`RealInvariant` does the same for the sessions nobody has killed or faulted, where
the copies may lag but not contradict the processes. `SessionTypes`,
`SuccessEarned` and `SessionReal` follow, for any exit codes and number of polls.

`SkillScripts_proofs` holds what the scripts of the skills keep for themselves.

* Relay: `RelayInvariant` has one part per hook and one per directory, and one lemma on
  how a directory may change (`DirChanges`); `RelayTypes`, `ConsumedWhole`,
  `NotRedirected` and `PublishedStays` follow for any number of hooks and any size of
  event.
* Loop: `LoopInvariant` says that a session exists exactly while it is watched, that
  attempts are left when one is started, and that nothing is uncommitted after the
  commit; `LoopTypes`, `Finished` and `UnreadableStops` follow for every policy.
  `CreatedOnceHolds` has a hypothesis: the gate verifies, or every policy expects one
  file. The counting gate starts from no file and never retries when one file is
  expected.
* Logs: `LogInv` says that a command's file continues the log it is to replace, `AckInv`
  that entries are numbered as their commands start, that what was answered is in the log,
  and that an entry still to be answered is the newest.
* Evaluations: `EvalInv` says that the results are those of the jobs gathered, that the
  directory of a job that ended is that job's (`CaseInv`), and that a query said to have
  triggered has a transcript that shows it (`QueriesInv`).
* Draws: in some round N every category has given N rows or N + 1, one that is not
  exhausted at least N, and N + 1 once its turn is over (`RoundInv`); no row is drawn
  twice since the buckets hold only what was not drawn (`RowsInv`).
* Rendering: `RenderInv` says that an untampered snapshot was published by a renderer that
  is done and holds what that renderer read (`PublishedInv`), and that a renderer that
  halted had a cause when it did. `OutputsAgree` carries it: two readers with one identity, whose layers agree,
  render the same outputs.

* Agents: `AgentInv` says that the state document's block is the rendered configuration, and the
  plan and every answer what the configuration resolves to. That the state document's
  resolver agrees with it is a lemma per field over the layers (defaults, retrospective,
  task, complexity).

Merging layers is a fold over layers, with a fold over keyed items inside
(`merge_layers`, `_merge_arrays`); so are the members put into a
roster and the rows of an overlay. An induction theorem that takes a predicate as an operator
cannot be used by the provers, a CONSTANT of a module can be instantiated:
`SequenceFolds` shows once, for an operator `Op`, that `FoldLeft` is reached step by step
(`FoldLeftIterates`: there is a function on `0..Len(seq)` that starts with the base and applies
`Op` to each element in turn), from the least counterexample. A proof about a fold
picks that function and shows by `UpTo`, the least-number principle on `0..n`, that each of
its values is good. The layers, the overlay's numbers and the members of a room all
go this way.

`ProjectScripts_proofs` is about the files of a project: sprint plans, module setup,
policies, orchestrator commands, roots, layout, rosters and the stop hook.

The stop hook's part has two halves. The first is about the patch of `config.toml`. It edits
one line of a text or inserts one, so its lemmas say what that does to the tables the
other lines are in (`InsertionInFeatures`) and that a patch writes what was asked
(`AppliedIsPatched`); `SetFeaturesIsRight` concludes that a patched text that parses has
the flag set and the other features it had. The second is the inductive invariant
`HookFilesInv`: `config.toml` is as it was or the patch of what it was, and the other
handlers of `hooks.json` are as they were until somebody edits them; what a run has
prepared keeps both, and where it has prepared nothing the file is right already; a right
file stays right, so that a run that answers "ok" leaves both right, whoever wrote them; and
where no run can start nothing is written. `InstalledHooksHold` follows.

`Tooling_proofs` puts them together. `MCTooling` moves one part at a time, so
`ToolingSpec` implies the specification of each part (`ToolingMovesSprint` and its
siblings), and what a part keeps, the run keeps. All properties of the `tooling` run but `EpicsAreAgreed` follow as a whole, `ToolsTypeOK` among them.

* `ToolsTypeOKHolds`. Most parts have a type invariant of their own that says more than
  `TypeOK` does (what a process holds while it runs: a log's inode, the rows a draw has
  left, the document an agents plan reads). It rests on what the constants are: `LogAssumption`,
  `LayoutAssumption`, `HookAssumption`, `QuestionsAssumption`, `CatalogAssumption` and
  their siblings, all evaluated by TLC.
* `ConfigurationIsPinnedHolds`. Its four parts are `LoadedIsPinnedHolds` below,
  `AgentsAreTheGiven`, `RoomsSeatTheInstalled` with `NewFacesTakeNothing`, and
  `OverlaysAreAddressable`. It has no hypotheses: what the code does with other inputs is a
  case of the properties.
  * Agents: a task whose configuration leaves its agents out or states them gets them from
    the state document; empty and null primaries, which the resolvers read differently, are
    outside `StatedAgentsAreGiven`, while the model that is answered runs and the
    document stays valid whatever is stated. The agent that is answered runs where the
    configuration states runtimes: `claude` is started for any other.
  * Rosters: a member takes an agent's place if that agent alone goes by its code. With
    agents `x` and `bmad-x` the scripts give the token `x` to the second, and the members
    written for `x` with it; the room is the installed agents nonetheless.
    `NewFacesTakeNothing`: casting a member as a new face takes no token from anybody.
  * Overlays: rows that bring numbers keep them, and two may have the same
    (`pick_methods.py`, `merge_extra`): a row is found by its number unless that number is
    stated twice. The shipped numbers are different from each other and from 0
    (`CatalogAssumption`), as in `assets/methods.csv`; `RosterAssumption` says likewise that
    the shipped members' codes differ.
* `HookIsInstalledHolds`, under `LegacyKeysArePlain`: no text quotes the deprecated key.
  `"codex_hooks"` in quotes is the same key to the parser and invisible to the patterns of
  `_set_features_hooks` (`stop_hooks.py:389`), so a patch leaves it there and every later
  run reports a change. The instances checked satisfy the hypothesis. `HookAssumption`
  says that a text is a sequence of lines and that headers have names.
* `SprintFileIsKeptHolds`. A command keeps a ghost, `quiet`: nobody else has replaced
  the file since it read it. `SprintInv` says, for a quiet command at every step, what
  the file is (its original, or its new document), that the new document keeps the
  progress and the action items of the original, and that what generate is about to
  write is legal for every key that `classify_key` recognizes, stories that only
  `STORY_RE` knows and stamps that nobody can read included; a command whose file another one replaces claims nothing
  more. The lemmas under it are about the operators: `MergeFacts` (a merged status is
  legal and never lower than a legal one), `GeneratedFacts`, `TransitionedFacts`,
  `AppendedFacts`, `UpdatedFacts`, `UsableFacts`. It is stated for every set of keys,
  epics and requests whose ids and texts are strings and whose statuses are those of
  an action item (`SprintAssumption`).
* `FilesAreKeptHolds`. `InstallInv` follows the old values of a setup: into the
  answers, from there into the new files, and only then are the old ones gone;
  `cleanup-legacy` starts when merge-config is done. `LogInv` says that a command's
  file continues the log it is to replace. Snapshots need no invariant, events that of
  the relay. The hypothesis `SingleWriter` is what the skills prescribe for a
  log; with two writers, which nothing in `memlog.py` excludes, an entry can be lost.
  `InstallAssumption` says that no module is called core and that the old
  configuration is given for every directory.

* `LoadedIsPinnedHolds`. `PolicyInv` says that a document somebody wrote for a pinned run
  records the snapshot and its hash, or has lost a part in a way that no loader takes for a
  document from before the snapshots (`DocInv`); that build-state-doc never writes
  anything else to a snapshot's file, wherever it is interrupted (`BuildInv`); and that
  a policy names its data files (`PolicyShape`). A document that a custom instruction cut
  short has lost the fields behind the delimiter, every one of them, so that its readers
  take it for a document from before the snapshots and load the bundled policy; that
  no layer is taken for it is part of the theorem.
* `StepsAreGroundedHolds` has four conjuncts. `ActiveRunIsFollowedHolds` needs only that an environment or a marker that is set names a
  document (`RunIsNamed`). `AnnouncedIsWhatWasReadHolds` needs no more than the types of the
  renderers: each one compares what it publishes, or what another published under its name. The
  policy the loop cannot read is `UnreadableStops`. That a retrospective closes a finished
  epic (`RetroIsLast` of `SkillScripts_proofs`) rests on `RangeInv`: the range consists of dotted ids, and those of the stories
  finished so far can be split. Then every id of the epic is listed, none is dropped for
  another (`DedupeKeeps`), and the row that `sprint-status get` takes for it is of the same
  story, whatever other rows there are (`BestMatchIs`, from `SplitRefIs` and
  `NormalizedForEpicIs`, which say what each way of splitting a key returns).
  `StatusAssumption` and `EpicRunAssumption` say that keys and headings have segments.
* `CommandsAreTruthfulHolds`. The commands' invariant has a group for the monitor (it
  answers only when it is done, and verifies only what it has seen completed), one for
  commits (what is staged is what was there when the commit was asked for, or later, and
  a commit that is reported contains it), one for the marker (a heartbeat runs inside an
  orchestrator, which it never outlives). The loop's conjuncts are those of
  the story loop, hence the hypothesis `OneFileExpected` (every policy expects
  one file, as the bundled one does). For layout the lemmas say that a search depends on
  the roots only (`MarkersAgree`, `InstallIsOwn`, `PathsAgree`); for roots
  `FirstInFacts` says that a walk finds the nearest marked directory, from the minimum
  of a set of indices (`LeastFacts`). `ProjectRootAssumption` says what a directory tree
  is: the path up from a directory starts there and continues as the path of its parent.

* `OutputsAreWhatHappenedHolds` combines `AckInv`, `EvalInv`, `RenderInv`, the relay's
  theorems and the draws' `DrawInv`, with `SingleWriter` as its only hypothesis. Jobs of
  cases that share an id share a directory (`run_evals.py:569`): the theorem says that the
  directory holds what became of one of them. A layer that puts a plain value or a table
  where another has a list drops that list, since `structural_merge` takes the override
  (`config_utils.py:88`): review layers are kept where no layer does (`Flattened`), and
  such a layer is a cause for a halt (`FlattensAList`). TLC confirms that neither property
  holds without these conditions.
* `StoriesAreKnownHolds` rests on `StoriesAreNamed` of `SkillScripts_proofs`: whichever
  candidates a prefix has among the rows and files, the one that is completed, looked up or
  reviewed continues the story's epic and number (`StatusNames`, `ReviewNames`). The code sorts
  candidates and takes the first. That a finite set of names has a first one is shown
  from the order itself (`Precedes`, `FirstNameIs`), and that a best row exists
  from its rank (`OneIsBest`).

Only model-checked, with the reason:

* Liveness (`DateComesFree`, `OperationsEnd`, `PollSettles`): fairness and `ENABLED` are
  out of the prover's reach.
* `EpicsAreAgreed`: a property of what parser, ranges and look-ups compute of a whole file
  of headings, filter by filter; the theorem `StepsAreGroundedHolds` has what a retrospective
  needs of it.

`AdmissionIsExclusive`, `FencedStaysSettled`, `LockSafe`, `SpendIsTotalHolds` and
`SealedIsOverHolds` are theorems without a run of their own.

## Findings

`restart_reconciliation`: `record()` (`runAdmissionRepo.ts:141`) refuses to
replace a terminal instance status. After an operator restarts an instance (the
repository's native tests do), checking its Run never reconciles the claim with
the instance's actual state, though the story's table
(`spec-3-33-make-run-admission-and-dispatch-failures-explicit.md:45`) asks for
it. If the restarted execution enters and errors, the claim keeps `entered=1,
finished=0`, resolve is refused and the date stays locked.

`llm_stop`: `refuseBudget` (`gateway.ts:289`) decides on the Run row that
`complete()` read several awaits earlier. The status update in its batch is
conditional, the `run.stopped` receipt beside it is not: a Run that was
packaged, decided or resolved in between gets the receipt of a budget stop that
never happened, against the comment above it (lines 296-298: only when the Run
is still running, a terminal Run is not re-evidenced).

`gate_receipts`: the pass appends its escalation and its approval of a Draft under
one Evidence id (`yoloPolicy.ts:180` and `:139`), and the insert is OR IGNORE
(`evidenceRepo.ts:100`). A pass that escalated and was evicted, or is replayed after the threshold
was lowered, approves the Draft later; the approve receipt is ignored, and so is its
healing (`yoloPolicy.ts:240-251`), against `spec-3-13` (line 42).

## What else the models show

Behaviours met while modelling that no document of the repository contradicts in so
many words, and that the properties are stated around:

* Gate: a reviser that dies leaves a child revision without evaluation as head; its Run
  stays awaiting until somebody rejects it, and `rejectRun` refuses when a sibling was
  accepted. Drafts of a stopped Run stay decidable, and the Run stays stopped.
* Admission: an older `now` that is admitted later is listed below the Run it follows
  (`runsRepo.ts:231-244`, `dailyRun.ts:270-285`); the next Run then supersedes the same
  predecessor as it did, and the chain forks. The predecessor is always a published Run,
  and without such a reading there is no fork.
* Accounting: what `workersai` (`gateway.ts:792-799`) and `deepinfra` (`:1730-1744`) cost is always a
  token estimate (`costPolicy.ts:103-123`), settled without an issue: a ceiling holds for what
  is booked, and nothing compares that with the provider's invoice.
* Sources: an entry whose Draft was never evaluated because its Run was resolved
  stays "seen" (`courtListener.ts:527-547`).
* Versions: two operators who append to a configuration together may record a stale
  `prior` (`pipelineConfigRepo.ts:128-165`).
* Story automator: a heartbeat resurrects the marker of a run (`orchestrator.py:211-216`); a
  monitor may report a timeout of a session that completed (`tmux.py:405`);
  commit-story answers with whatever HEAD is (`basic.py:201`); a stale marker still blocks a stop
  (`basic.py:143-165`); story-file-status takes the first file (`orchestrator.py:428`);
  escalate's limit is written into the code (`orchestrator.py:361`); sprint-compare
  looks for the bare story id as a row (`commands/state.py:196-199`).
* Story keys that read in two ways: with `epic-w-1.md` the row `w-1-2` is counted for `w` and
  for `w-1`, with `w-1-x` known `w-1-x-2-x` for both; with `epic-1-2.md` the row `1-2-3-x` is counted for `1-2` and
  no longer for `1`; of `w-1` open and `w-1-2` done epic `w` shows the second only. A range id
  that came from a heading `### Story w-1-2-x` under `## Epic w` is `w.1`; once `w-1` has a
  file or a second row the parser reads the heading as `w-1.2` (`story_keys.py:170-178`,
  `epic_parser.py:159-164`) and `parse-story w.1` finds nothing. Two rows, two epic files and such a
  heading are in the instance, and the properties of `EpicsAreAgreed` are about keys that
  read in one way.
* Agents: an empty or null primary is the runtime to one reader, the inherited agent to
  another and an agent named null to the third; `claude` is started for every other runtime;
  a state document cut by a delimiter in a custom instruction follows the bundled policy;
  an agent `bmad-x` beside `x` takes the token `x` and the members written with it; numbered
  overlay rows may take a shipped number.
* Sprint files: `### Story 2.6A: X` (`STORY_RE` ignores case, `sprint_plan.py:45-47`) becomes a key that
  `STORY_KEY_RE` (`:57`) rejects: validate then refuses what generate wrote, status leaves the
  story out and may say that all is done, `--set` of it fails (`:366`). A `generated` stamp that nobody
  can read is kept (`:402-404`) and fails validate (`:622-625`).
* Sessions: a spawner that stays between its last read and its replacement of the state
  file (`tmux_runtime.py:164`) until the agent's turn is over, at least a minute later, can put
  "running" back between the poll's save of a reconciled state (`:667-676`) and its
  re-load (`:691-692`, `:707`, `:568-570`): the poll would answer "crashed" for an agent at its prompt. The
  model takes save and re-load for one step (`PollSave`), so `SessionIsReal` excludes this case.
* Story loop: the code-review loop's step file kills the session on some outcomes only, though
  `monitoring-pattern.md:46-52` and its rule 7 say always; the model kills before every gate
  (`KillStep`), and `CommandsAreTruthful` fails without (its mutant).
* Skills: cases with one id share a directory (`run_evals.py:569`); a query all of
  whose runs raised passes as "should not fire" (`run_triggers.py:430-433`); an
  existing configuration loses to the legacy one (`merge-config.py:141-161`); a nested
  `_bmad` hides the overrides of the outer one; a crashed renderer leaves its
  staging directory (`render_skill.py:310`); a renderer that reads `customize.toml` on both
  sides of an upgrade may publish its snapshot under the name another rendering has,
  when the one adds an empty list of review layers: what is a review layer comes from
  the default, which the identity leaves out (`render_skill.py:188-199`, `:237`), and
  later renderers halt at a collision (`:352-357`); party mode lets a custom name take
  another member's token where the forge guards it (`resolve_party.py:126-127`,
  `resolve_personas.py:169-172`).

## Not modelled, and the plan

Not modelled, with the reason: the public API, access control, the calendar and the
user interfaces (no multi-step state); cost arithmetic (amounts are given); legacy
ledger rows of migration 0021, budget edits and replayed reconciliation requests;
texts, prompts and payloads; single-pass scripts of the skills, which read, print and end;
story documents.

Smaller than the code, and stated here because a property comes near it:

* `cleanup-legacy --also-remove` (`cleanup-legacy.py:235`): setup passes `_config`, a directory
  without skills that is removed without a check, and none of the directories modelled.
* `config.yaml` and `config.user.yaml` are written in place (`merge-config.py:332`, `:415`). A death inside
  either write leaves an empty file (`TornConfig`, `TornUserConfig`), where a real one may
  hold a part of it; what an earlier setup has migrated into it is lost, which
  `MigratedBeforeDeleted` does not deny.
* The write of a job's `timing.json` is one step with its result, and an empty table of a
  TOML layer has no path.
* `PeriodWithinCap` counts the operations that are attributed to a period, which are those
  reserved after it was provisioned.

Still to come, in this order:

1. `SourcePackages`: observation, first fetch, resume of a package after a replay
   (`connector.ts:217`).
2. `Steering` (crash between an effect and its completion, `submitTurn.ts:902`) with
   `VersionedConfig`: the mode row, standing guidance and its cap
   (`pipelineConfigRepo.ts:128`, `modeRepo.ts:127`, `submitTurn.ts:637`).
