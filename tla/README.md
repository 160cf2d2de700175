# PEBRA in TLA+

PEBRA tells a coding agent, before an edit, whether the candidate may be
written: it explores, assesses, decides, gates the edit, applies an approved
candidate, verifies what came of it and learns from the outcome. This
directory holds TLA+ modules of its stateful core, TLC configurations that
check them on small instances, and proofs that TLAPS checks for every value of
the constants.

    tlc -config FileWrites.cfg MCFileWrites
    tlapm FileProofs.tla

`PROJECT.json` lists, for every definition that models code, the lines it
stands for; every run; a mutant of the code that each property catches; the
hazards the properties are for; and the theorems.

## The system

`src/pebra` is hexagonal: `core/` is pure, `app/` holds the controllers,
`adapters/` does the I/O behind `ports/`, and `cli/`, `mcp_server/`,
`dashboard/` and `tui/` are front ends. Nothing runs as a daemon. Every command
is a process of its own, and the processes share

- the SQLite ledger `.pebra/pebra.db`, where each transaction is atomic and a
  controller does several of them,
- the replay cache `.pebra/candidates/*.json` and the import graph
  `.pebra/import_graph.json`, files renamed, replaced and unlinked with no common lock,
- the apply lock, an `flock`, taken by the application of a candidate only,
- the index of the graph engine, `.codegraph`, and its `codegraph.json`, which
  the engine, the user and every process that syncs it change,
- git's HEAD and the worktree, which editors and git change without asking.

So what is hard is what happens *between* the reads of one command: another
command, an editor, a commit, an interrupt or a crash.

### Inventory

| Component | State it keeps | Operations | Interacts with | Hard behaviour | What makes it correct | Module |
|---|---|---|---|---|---|---|
| file replacement (`adapters/candidate_application.py`) | temporary files beside the targets, the list of changed files | stage, replace, roll back, clean up | worktree, editors | any system call fails with or without its effect; Ctrl-C; death | all or nothing, or an error that names the damage | `ReplaceTransaction`, `AtomicReplace` |
| candidate application (`app/candidate_apply_controller.py`) | none | load, lock, gate, consume, write, clean | ledger, cache, lock, worktree | the worktree moves after the gate; partial failure | the bytes written are the bytes assessed; one writer; lock given back | `CandidateLifecycle` |
| replay cache (`adapters/candidate_replay_cache.py`) | `<digest>.json` | store, load, consume, delete, reap, expire | assess, apply, approve | renames that race | one application for each storing | `CandidateLifecycle` |
| human approval (`app/human_approval_controller.py`) | none | select, confirm, sanction, reassess, apply, revoke | all of the above | the world moves while the human reads; failure after the sanction exists | an approval lifts only the gate shown; a failed one leaves no permission | `CandidateLifecycle`, `ReviewLoop` |
| sanctions (`adapters/sanction_store.py`) | `sanction_events` | insert, claim, invalidate | assess, approve, verify | two claims race; two bindings in one assessment | a sanction reaches one row, for its own bytes; drift withdraws it | `CandidateLifecycle`, `LearningLoop` |
| assessment (`app/assess_controller.py`) | none | bind, meter, claim, decide, refine, store replay, persist | ledger, cache, git, graph | a dozen reads with no snapshot; several candidates ranked twice | the row speaks of the bytes it was bound to; a second look takes away only what was proved | `CandidateLifecycle`, `RevisionMeter`, `DecisionGates`, `Refinement` |
| binding (`adapters/candidate_binding.py`, `patch_materializer.py`) | none | materialize a patch, digest it; digest the baseline | worktree, git | files read one after another | equal digests, equal bytes | by what it distinguishes |
| decision engine (`core/decision_engine.py`) | none (pure) | sixteen gates, controlling gate, conversion | assess, approve | order: each gate hides the next | policy is final, obligations stand, a sensitive stage asks, an offered override finishes | `DecisionGates`, `ReviewLoop` |
| revision meter (`adapters/store/db.py`) | the `revise_safer` rows | count attempts, find the origin, add a row | assess | read, decide and write apart; a meter that cannot be read | a search ends at each file; a lineage is one search | `RevisionMeter` |
| ledger (`adapters/store/db.py`) | hash-chained tables | open and migrate, insert, validate, query | everything | writers of several processes, migrations, edits from outside | it is an append-only log, and an audit tells damage from everything else | `HashChain`, `LedgerOps`, `AppendOnlyLog`, `Ledger` |
| pre-edit gate (`adapters/gate_check_adapter.py`) | none | probe impact, read HEAD, restriction, rows, worktree, answer | ledger, git, host | rows and HEAD move while it reads; window of 200 rows | what it lets through was assessed; a hold stands | `GateCheck` |
| gate contract (`core/gate_contract.py`) | none | refuse pairs outside the matrices | gate, hook | – | answers stay inside | `GateCheck!TypeOK` |
| gate hook (`cli/gate_hook.py`) | none | translate an answer for the host | host | swallowed exceptions | – | no: stateless translation |
| verification (`app/verify_controller.py`, `core/post_assessment_guardrails.py`) | guardrail rows | verify, invalidate on drift, halt | ledger, git | picks a sanction other than the one used | drift withdraws what it found live | `PostEditVerify`, `LearningLoop` |
| outcomes (`app/record_outcome_controller.py`, `finalize_outcome_controller.py`) | outcomes, lessons | record, materialize, finalize | verify, learning | crash between two transactions, retries | each thing once; a finalization that returns has closed | `LearningLoop` |
| learning and promotion (`app/learning_controller.py`, `promotion_controller.py`) | measurements, facts, snapshots | measure, promote | outcomes, assess | read and write in separate transactions | learned from verified edits, once | `LearningLoop` |
| promotion statistics, learned facts (`core/promotion_evaluator.py`, `apply_snapshot.py`, `snapshot_reconciler.py`) | none | gate a fact, match and apply it, reconcile | promotion, assess | scopes overlap; leave-one-out against the applied value | no more harm passes; no drift at birth | `LearnedFacts` |
| exploration and recall (`app/explore_controller.py`, `adapters/codegraph_explorer.py`) | none | prepare, query, revalidate | graph | the graph moves between prepare and use | answers are of the snapshot named | `GraphFence`, `Exploration` |
| observatory flights (`tui/exploration.py`) | generation, busy, shutdown | start, deliver, cancel, stop | UI and worker threads | a late delivery; an engine that hangs | nothing of a cancelled flight is delivered; the observatory is free again | `Exploration` |
| bounded subprocesses (`adapters/bounded_process.py`) | pipes, deadline | run, drain, cancel, kill | every external tool | end, deadline and cancellation race | it ends, output complete or refused | `BoundedProcess` |
| graph impact (`adapters/codegraph_adapter.py`) | none | resolve owners, measure the reach, rank it | index | recursive SQL against a walk in Python; ambiguous owners | the two agree; owners cover the impact | `OwnerResolution`, `GraphImpact` |
| continuity (`adapters/codegraph_candidate_refinement.py`, `continuity_witness.py`, `codegraph_temp_index.py`) | a cache of answers, the engine's version | index two trees, compare, cache | engine, assess | the engine is upgraded under way; a shared cache | claimed only when proved here, and then users run the same | `Continuity`, `Refinement` |
| graph views (`adapters/codegraph_graph_reader.py`) | none | neighbourhood, god map, full graph, overviews | index, dashboard | every query capped; syncs in between | everything, or it owns to leaving some out | `GraphViews` |
| import graph cache (`adapters/import_graph_cache.py`) | one JSON file | build, rebuild incrementally, save | assess | two savers share a temporary name; files change while hashed and parsed | incremental equals full; the cycles are the cycles | `ImportGraphCache`, `ImportCycles` |
| graph set-up (`cli/setup_graph.py`, `cli/engine_status.py`) | the managed engine | find, install, judge, repair, report | engine, user | killed half-way; the engine writes the user's file | the configuration stays the user's; ready is ready | `GraphSetup` |
| static evidence (`adapters/*_adapter.py`) | none | read files, run analysers | assess | – | – | no: no state of its own |
| scores (`core/score_math.py`, `benefit_model.py`, ...) | none | floating-point formulas | assess | numerical | – | `modify_risk_model` in `Refinement`; else no |
| terminal observatory, dashboard server, MCP server, command line, other installation, update check | none, or files written once | present, parse | controllers | – | – | no: front ends |
| experiments and benchmarks | – | – | – | – | – | no: outside the program |

## The plan, and what is left of it

The modules were written in order of what a mistake costs: the code that writes
files and the permissions for it (`ReplaceTransaction`, `CandidateLifecycle`),
the decision and its two loops (`DecisionGates`, `ReviewLoop`, `RevisionMeter`),
what the host is told (`GateCheck`), what follows an edit (`PostEditVerify`,
`LearningLoop`), the threads (`BoundedProcess`, `GraphFence`, `Exploration`),
the ledger under all of it (`HashChain`, `LedgerOps`, `AppendOnlyLog`,
`Ledger`), the sources of evidence (`OwnerResolution`, `GraphImpact`,
`ImportGraphCache`, `ImportCycles`, `Continuity`, `Refinement`, `LearnedFacts`,
`GraphViews`; `Orders` holds the rankings two of them use), and set-up
(`GraphSetup`).

Abstract specifications: `AtomicReplace`, which `ReplaceTransaction` implements
(checked and proved), and `AppendOnlyLog`, which `Ledger` implements (checked
and proved).
`CandidateLifecycle` takes a write as one step with the outcomes `AtomicReplace`
promises; `GateCheck`, `LearningLoop` and `RevisionMeter` take each operation
on the ledger as one step, which is what `AppendOnlyLog` promises.

Left: two set-up commands at once; and the front ends.

## The modules

### AtomicReplace and ReplaceTransaction

`AtomicReplace` is what the callers of `_replace_transaction` rely on: the
worktree goes from before to after in one step, or stays, or an error owns up
to what it left. `ReplaceTransaction` is the function, system call by system
call.

| Model | Code |
|---|---|
| `pc` "stage", "replace", "rollback", "cleanup", "done"; `i` | the three loops and the `finally` block, and the file they are at |
| `staged`, `strays` | the temporary files the function knows of, and those it does not (written before the name was recorded) |
| `changed` | `changed_paths`, appended *after* the replacement took effect |
| `StageFile`, `StageFails` | `_stage`: create, write, sync; a failure may leave a stray file |
| `ReplaceFile`, `ReplaceFails` | `os.replace` or `unlink`; a failure with or without its effect |
| `RestoreFile`, `RestoreFails`, `FinishRollback` | `_restore` in reverse order, the list of files it names |
| `Cleanup`, `CleanupFails` | the unlinks of `finally`, whose error replaces the result |
| `Interrupt`, `Die` | `KeyboardInterrupt`, which `except Exception` lets pass, and a killed process |
| `Edit(f)` | another program writes a target; such files are no longer judged |

`KeepsPromise` is the refinement: `tree` is the disk once the call is over and
the worktree before it, since every other application waits for the lock.

### CandidateLifecycle

A process is one command. `local` is what it remembers between steps, and every
step is one transaction, one rename or one system call that others can come
between.

| Action | Code |
|---|---|
| `Assess`, `Bind`, `Claim`, `Score`, `Persist` (`ScoreUnstored`) | `assess`: HEAD and binding, the second binding and `claim_sanction`, gates and replay storage (with the reaping of expired ones), `persist_assessment` |
| `ApplyCandidate`, `Load`, `Lock`, `Gate`, `Consume`, `Write`, `Clean` | `apply_candidate`: the loading of the replay, the `flock`, the exact-match gate, the rename that consumes, the materialization and write, the deletion after the lock is free |
| `WriteRefused`, `WriteFails`, `CleanFails` | refusals before the first write, a failing transaction (rolled back, or torn), a failing deletion |
| `Fails` | whatever raises before the write: the ledger is locked or full, git or the engine fails, the lock file or the replay cannot be opened; the lock is given back, and an approval goes on to its revocation |
| `Select`, `Cancel`, `Confirm`, `Undo`, `UndoFails` | `approve_and_apply`: selection and binding, the human, the sanction and the replayed obligations, revocation by assessment, which is a write to the ledger and may itself be refused |
| `AcceptRisk` | the file form of accept-risk: a sanction with no process behind it |
| `VerifyDrift` | `verify` withdrawing the newest live sanction of a row |
| `Die` | a killed process: its lock goes, nothing else does |
| `Edit`, `MoveHead`, `Expire` | editors, git, the age of a replay |

A worktree is named by its content as far as the candidates tell it apart: a
source a patch applies to, what a patch makes of a source, or `Torn`. Equal
names are equal digests and no more. A replay digest covers the request, hence
the patch, and neither HEAD nor worktree: the model keys the cache by patch.

`disturbed` and `skewed` are history: a process (a row) whose worktree or HEAD
moved in a window in which the code reads twice. They state exactly what the
properties leave to the world: the write materializes the patch again after the
exact-match gate, and compares no binding then, so a file saved in between
changes what is written.

### DecisionGates and ReviewLoop

`Provisional(e)` is the ladder of gates 1 to 8 and the proceed branches in the
order of `decide`; `Lifts` and `Resolve` the conversion by a sanction;
`RevisionTrace` and `ShouldRevise` gate 10 and the meter's cap; `Controlling`
and `Reviewable` what the human is offered. Evidence is a record of what the
gates compare: `policy`, `unmet` obligations, the `stage` and structure tier,
the revision state, the proofs, the number of missing proofs. A score enters as
the outcome of its comparison with its threshold. `ReviewLoop` is assess, show,
approve, reassess: the verdict shown is kept while `EvidenceMoves`, and `Grant`
makes a sanction for any set of gates, as the file form may.

### RevisionMeter

`Submit`, `Bind`, `Meter`, `ReadOrigin`, `Revise` are the reads and the one
write of an assessment that ends in `revise_safer`; `BindFails`, `MeterFails`
and `OriginFails` their failures; `Drift` and `MoveHead` the world. Only
`revise_safer` rows are kept. `Attempts` is `revise_safer_attempt_count` with
its free retry, `Origin` is `revision_origin_envelope`, `Key` the digest that
starts a lineage. When the counter raises, the attempt the caller claims stands
(`MeterFails`). `excused` counts the readings that failed and the revisions
gate 10 makes under a sanction: the code does not charge those.

### GateCheck

`Ask` and `AskUntargeted` enter with the probe of the graph decided freely;
`ReadHead`, `QueryPending`, `QueryRows`, `Decide` are the four reads of
`decide`, with their failures `HeadFails`, `StoreFails` and
`DecideUnmaterialized`; `Assess`, `BindCandidate`, `Persist` an assessment that
runs beside it. `Exact`, `Compare`, `Consults` and `Unconsulted` are the answer,
branch by branch. `TypeOK`, which is proved, holds the contract: the permission,
tier and risk-decision matrices of `gate_contract`, on which `GateDecision`
raises.

### PostEditVerify and LearningLoop

`PostEditVerify` is the post-edit check as a function of its evidence: `Tier`
and `Kind` what `git_change_verifier` makes of the changed files, `PreCommit`
the decision `evaluate` takes over its `Candidates` (the most severe wins), and
`Drift` what withdraws a sanction.

`LearningLoop` runs verify, record-outcome, learn, promote and finalize-outcome
as processes over the ledger. Each `LookUp...`, `Read...` and `Check...` action
is a read outside of a transaction; `Persist`, `Withdraw`, `WriteOutcome`,
`Materialize`, `Measure` and `WritePromotion` are the transactions, each
checking again what the store checks inside it. `view` is what a command carries
from read to write. `finalize` goes through record, match, materialize, measure
and the three families of promotion; a retry skips what it finds done. `Live` is
what a drifting verify withdraws: the sanctions of the assessment, or, when it
has none, those of the assessment it was approved through. `AcceptRisk` may give
any assessment a sanction at any time.

### BoundedProcess, GraphFence and Exploration

`BoundedProcess` is `run_bounded`: `CheckCancel`, `Launch`, `WaitForExit` and
`WaitForDrains` poll, `Killed` is the killing of the process group and
`JoinDrains` the grace period. A descendant that left the group may keep a pipe
open (`piped`), so drains may never end; the process exits, the pipes close and
the deadline passes by themselves (external).

`GraphFence` is `_prepare_default` and `revalidate_snapshot`, one reading per
action: HEAD, configuration, status, sync, status, HEAD, configuration, and the
one retry when they differ (`CompareFences`). The moments at which HEAD, the
configuration or the contents change are numbered, and `seen` says which commit
and which bytes each put in place: a new one, or any there was before. The code
compares those only (`Commit`, `Digest`). `StatusAnswers` is what the engine may
say of the index as it is while it works, between launch and exit.

`Exploration` puts the observatory around it: the coordinator (`Start`,
`Cancel`, `CancelExplorer`, `WaitForProvider`, `Close`), its worker threads
(`MakeExplorer`, `Publish`, the queries, `Finally`, `Post`, `PostFails`,
`ReleaseIfCurrent`) and the UI thread (`DeliverIfCurrent`, `CallbackEnds`).
Every lock section is one action. `generation`, `busy`, `providerDone` are the
fields of those names.

### HashChain, LedgerOps, AppendOnlyLog and Ledger

`HashChain` is one table's chain: a hash is the pair of what it is taken over,
and `Canonical` leaves out of an older row's rendering the columns added since.
`LedgerOps` says of each operation of the store which tables it writes
(`Writes`), when it is accepted (`Accepts`) and with what content.
`AppendOnlyLog` performs operations in one step on plain logs.

`Ledger` is the file: `Open`, `SeeColumn` and `AddColumn` are the migration,
which looks and adds in two statements and fails when somebody else has added
the column; `Begin`, `Check`, `Insert` (table by table), `Commit` a write;
`Audit`, `AuditTable`, `AuditSources` are `validate_chain`, one statement per
table and outside of any transaction; `Busy`, `Fail` and `Die` the faults, and
`Damage` an edit of a row with another program. `KeepsLog` is the refinement of
`AppendOnlyLog`: the contents of the committed rows are the log.

### OwnerResolution and GraphImpact

`ParsedLines` and `Ranges` are the old-side lines of a diff, `OwnersAt` the
tightest owners of a range, `NamedOwners` and `FallbackOwners` what the agent's
names add. `GraphImpact` has both measures of a change: `Reached` and
`ReachedFrom` are the recursive SQL, `WalkContainers`, `WalkReach` and `EndWalk`
the breadth-first walk of one root, queue and all; `Evidence` what `fanin`
reports.

### ImportGraphCache and ImportCycles

A process loads the cache (`Load`), lists the files, hashes them one by one,
decides which to parse, parses them one by one, assembles the graph and saves it:
`OpenTemp` truncates the shared temporary file, `WriteTemp` writes it, and
`ReplaceCache` renames whatever it then is. Inodes are modelled, since a writer
keeps the file it opened after somebody renamed it. `raced` is history: files
edited between their hashing and their parsing, whose edges were recorded under
the wrong hash. `ImportCycles` is `_cycle_files`, one turn of its loop a step.
`FindsTheCycles` compares what it finds with the files that reach themselves
(`Reaches`), whatever the components are.

### Continuity and Refinement

`Continuity` is one `analyze` after another: read the context, materialize two
trees, measure the engine's version (once per process), identify it, look in the
disk cache, index both trees and check the status each answers with, compare.
`Continuous` is the comparison: owners stand, the forwarder only forwards, what
used the old name and may change follows, and external users are served. The
engine is upgraded at any moment (`Upgrade`), other processes share the version
(`OtherMeasures`), and a call may time out (`Overdue`).

`Refinement` is the loop of `assess` around it: score every candidate, rank the
eligible ones (`ByRank`, the order of tuples in `Orders`), analyse up to the
budget, stop once one analysed proceeds, and recommend. `GraphEvents` is
`events_for_modify_risk`, `Merge` `_merge_event_max`, and `Adjusted` what a fact
takes off the one event it is about. `PriorLayers` is `_apply_prior_layers`,
over every input and again over a refined one: the shipped rate of success
(`Warmed`), which a proof may bring to bear for the first time, and over it the
rates learned here (`Learned`), which make an event with consequences likelier
but never less likely. `RefinedAsProved` compares the events at the end with
those both layers leave before any proof. What a proof lowers is a share of
that probability, a learned rate included: the code's floors are 0.05 and what
others said of the event (candidate_refinement.py:75-98), and a learned rate is
neither. `Doubts` are what review cost and uncertainty, which both layers may
change too, take off the utility of a refined candidate.

### LearnedFacts

`Record` adds a calibration row, `Promote` tries a fact for every scope the
features of the rows support: `Passes` is the gate over the rows of the scope,
each scored by the rate of the others. `Applied` lets the facts that match an
assessment override its prediction; `Drifted` compares a snapshot with rows.
Numbers are tenths and fractions, compared exactly. `LearnedSafely` holds only
where the clamp of an applied rate to 0.99 lets no harmful edit by
(`ClampLetsNoneBy`); the ledgers of the run are such, which `MCEvidence` assumes.

### GraphViews

One reader at a time answers a request in several SELECTs: the neighbourhood
(`ResolveName`, `SearchLevel`, `FetchNodes`, `FetchEdges`), the god map
(`ReadHotFiles` to `DrawEdges`), the full graph by symbol or by file
(`CountAll` to `ReadAllPairs`) and two lists; `Sync` replaces the index between
any two. An `ORDER BY ... LIMIT` is `Leading` of `Orders`: those with fewer
than so many before them. `Owned` is how a view says that it is not whole. `starved` is history:
a level of a neighbourhood whose rows were limited before symbols already there
were left out.

### GraphSetup

`Begin` to `DecideSetup` or `DecideDoctor` are `ensure_graph_ready` and
`run_doctor`: the capture of the configuration, the version, the installation in
its steps, the readings around the status, the decision. `PrepareBegin`,
`PrepareSync`, `PrepareEnd` are the fence of `GraphFence` with its steps merged;
`InitializeIndex`, `RestoreConfig`, `RereadConfig`, `JudgePrepared` the rebuild.

### MCEvidence and MCFileWrites

The sources of evidence share no state, so one run checks them side by side: a
behaviour is that of its `subject` while the others rest. It extends their
modules, so that TLC evaluates their assumptions and the proofs are about the
same definitions. `MCFileWrites` does the same with the two places that write
files of the user, `ReplaceTransaction` and `GraphSetup`.

## The runs

| Run | Instance | States | What it shows |
|---|---|---|---|
| `file_writes` | application: 3 files (created, rewritten, deleted), two of them contested; set-up: 2 commands in a row, any of them killed, 1 edit of the user's, syncs by others | 3,082,111 | every failure of every call at every file: whole, restored, or named; refines `AtomicReplace`; the configuration stays the user's; ready is ready |
| `lifecycle` | 2 processes, 1 candidate, 2 commits, 2 sources, 3 rows, 2 sanctions, 1 interference | 3,614,032 | one writer; written as assessed; controlled rows rest on a sanction; a replay is spent once; one sanction, one row; a failed approval is revoked |
| `lifecycle_liveness` | 2 processes, 2 candidates (one with obligations), 2 rows, 1 sanction, 1 interference, no symmetry | 209,974 | commands end, or are overtaken at a lock that is given back |
| `review_loop` | every evidence, evidence moves once | 8,317,984 | what no approval lifts; an approval lifts what it was shown, if reviewable; an offered override finishes |
| `revision_meter` | 2 agents, 2 overlapping candidates, 2 commits, 2 baselines, 5 rows, 1 fault or move, cap 2 | 5,252,340 | what a lineage holds about one file is bounded; a lineage is one search |
| `gate_check` | three kinds of row, 2 candidates sharing a file, window 2, 3 rows, 1 move | 14,946,272 | authorized as assessed; the newest exact word decides; restrictions close |
| `learning_loop` | 2 commands, 2 assessments, one approved through the other, 3 kinds of edit, 2 verifies, 1 sanction, 4 snapshots | 6,642,928 | each thing once; learned from verified edits; a finalization has closed; drift withdraws |
| `exploration` | 2 commands in a row, 1 change of the repository, syncs by others | 713,616 | one flight; nothing left after the wait; the observatory free again |
| `graph_fence` | 1 command, 2 changes of the repository (away and back, too), syncs by others | 4,354,823 | answers of the snapshot |
| `evidence` | impact: 4 nodes, up to 3 uses, 7 edits; imports: 2 processes, 2 files, 2 edits, 3 calls; cycles: every graph of 4 files; continuity: 3 versions, 2 analyses; learning: 4 rows of 7 kinds; views: every subset of 9 edges, 2 syncs; refinement: 3 candidates of 26 kinds (the third of 2), budgets 0 to 2, 2 degrees of doubt | 5,746,067 | the ten properties of the sources of evidence |
| `ledger` | 2 processes, new or old file, 3 calls, 1 edit from outside | 360,122 | an append-only log; audits tell damage from everything else |
| `approval_without_obligations` | as `lifecycle_liveness` | 480, to the violation | see Findings |

**Bounds.** Every hazard needs two actors and one surprise: two processes (or
agents, or flights) give every pair of steps every order, and one interference
puts an edit, a commit or a fault in every window. Three files give the
transaction a first, a middle and a last one, and the three kinds of change.
Three rows and two sanctions in `lifecycle` let a plain assessment, the row
approved and the reassessment meet two sanctions. In `revision_meter` five rows
exceed what a lineage may hold about a file (cap 2, two agents, nothing excused:
four), so the bound could be broken. In `gate_check` three rows exceed a window of two, so
a hold can fall out of it; the 200 rows of the code differ in nothing else. Its
kinds of row are a clean proceed, one a human may still confirm, and a question
no human can answer; the other kinds differ in the answer they give, and the
proof of `TypeOK` covers them all. In `learning_loop` two measured assessments
suffice for a promotion (`MinSamples` 2 for the code's 100), and four snapshots
hold a shadow row and three families. In `ledger` three calls reach a lesson on
the old file, which has an assessment, its verification and its outcome already,
and leave a call to an audit or a withdrawal. In the set-up of `file_writes` a
second command meets what a killed first one left; with two edits (21 million
states) the properties hold too. In `graph_fence` two changes are the least that
can take a commit away and bring it back; a second command would add nothing,
since the first has ended before it starts. Four files are the least with two components, and a
component with a chord. Three calls of the import graph let a third read what
the race of two left. Four calibration rows are two more than a fact needs. A
mutant of the code shows for each property that it can fail within these bounds.
Symmetry is used on processes, candidates, commits and sources in `lifecycle`,
on agents, baselines and commits in `revision_meter`, on commits in the gate's,
on commands in `learning_loop`, on processes in `ledger`, and nowhere a liveness
property is checked.

**Deadlock** is not checked where the system may stop: calls, searches and
checks end, and the bounds on rows and events are reached.

**Fairness.** `CandidateLifecycle`: `WF_vars(Step(p))` for
each process, a running command takes its next step. People, editors, git,
faults and crashes owe nothing: a prompt may stay unanswered. Taking the lock
is weakly fair only, `flock` promises no turn, so others may be served before a
command for ever; but then the lock is free, and taken by another, again and
again. `CommandEnds` excuses that and nothing else: a failure that kept the
lock would break it, and the mutant is one. `Exploration`: worker threads are
scheduled and git returns (`head_commit` has no timeout, git_adapter.py:15), the
clock reaches a deadline, and the UI thread goes on with what it
began (a queued delivery, a callback, a cancellation). Nothing is assumed of
the engine, of other processes or of the user: an engine that hangs is stopped
by the deadline, a descendant that holds a pipe by the grace period.

## The proofs

Each holds for any number of files, processes, candidates, rows and events, from
the ASSUMEs of its module (TLC evaluates them in the runs): names are distinct,
bounds are naturals, `FilesOf` is nonempty, tables of constants have their
types. Of the evidence: a graph has finitely many nodes, the ends of its uses are
among them, and the depths are positive; there are more inodes than processes;
an import graph has no edge from a file to itself (`_parse_file` leaves them
out); engines are numbered in the order of their release; the uses of a candidate are
finitely many, each has a trust, and a patch that declares one thing declares its
forwarder; candidates are finitely many, probabilities and disutilities are not
negative, and a request does not itself call an event the graph's (`risk_source`);
an index the views are read from is finite and its edges join symbols of it, as
those of the engine do, and limits are naturals; predictions and actuals are not
negative, and of an event there is only whether it occurred.

| Module | Theorems | Argument |
|---|---|---|
| `FileProofs` | `TypeCorrect`, `ReportsAreTrue`, `Refinement`, `StepsRunOut` | `IInv`: nothing is written while staging (`StageInv`); then the targets below `i` are as after, the others as before, and what is still staged is for those from `i` on (`ReplaceInv`); during the rollback a target above `i` is restored or named (`RollbackInv`); what each result says of the disk and of the temporary files (`EndInv`); a target nobody else wrote holds one of its two contents and was read as it was before (`QuietInv`). The results alone are not inductive: they say nothing of the loop in the middle. The refinement maps every step to a stutter but the last. The end: `StepsLeft` counts a failure as the loop it leaves and the rollback it enters, which has only what was changed to undo; each step lowers it, an edit from outside leaves it alone |
| `FileProofs` | `ConfigStaysTheUsers`, `ReadyMeansReady` | `SetupInv`: nothing is claimed of `codegraph.json` between `init`, which may write the engine's, and the restoration; from there a command goes on to prepare only after it has read back what it captured (`RestoredInv`), so that what is built is built for the user's configuration and no later sync can replace it by one for the engine's (`KeptInv`); and a command answers ready only for an index built for the commit it read (`ReadyInv`) |
| `CandidateLifecycleProofs` | `TypeCorrect`, `WritersExclude`, `ClaimedOnce`, `FailureRevokes`, `SpentOnce`, `WritesWhatWasAssessed`, `ControlledRests`, `CommandsRunOut` | a common base (`Control`, `Shared`, `Refs`: which fields a process holds where, what a row refers to), then one invariant for each property: a claimed sanction is no longer active and is held by one process or one row (`ClaimInv`); an approval, until it ends, knows the sanction to revoke, and the revocation takes it whoever claimed it since (`OwnInv`); a spent replay is not in the cache (`SpentInv`); an undisturbed process past the gate still has the row's bytes and HEAD before it (`CoveredInv`); a claimed sanction has the binding of its assessment, or the row is skewed (`BindInv`). `Footprint(p)` bounds what a step of p does to the others, so that interference is argued once. The end: the places of a command are in an order (`StepsFrom`) that each of its steps and faults descends, and that the steps of the others do not touch |
| `DecisionProofs` | `ReviewTypeCorrect`, `PolicyStands`, `ObligationsHold`, `SensitiveAsks`, `GatesHold`, `LiftsTheReviewable`, `ShownIsConverted`, `OverridesFinish`, `ReviseSpendsAttempts` | a lemma on the ladder (which verdict each gate gives, and which gates fired before it) for every evidence; then `ReviewInv`: the verdict is `Decide` of the present evidence, and an approval converts the controlling gate of a reviewable verdict |
| `DecisionProofs` | `TypeCorrect`, `OneSearch`, `SearchEnds` | `LineageInv` adds to the property what an agent holds between its reads (`OriginInv`): a lineage it has read is that of a row of its commit and baseline that its files overlap. `BoundInv`: for each lineage and file, the rows about the file and the agents that may still add one are together within the bound; an agent becomes one of them only while the meter it reads is below the cap, and the row it adds takes its place in the count |
| `GateCheckProofs` | `TypeCorrect`, `AuthorizedAsAssessed`, `NewestWordDecides`, `RestrictionsClose` | `LedgerInv` and `CheckInv` type the rows and the check, with the files each binding covers and how far the check has read; `AnswerInv`: what an answer of each tier rests on, branch by branch. Rows only grow, so what was authorized stays so. `WordInv` and `ReadingInv`: as long as nothing but the ledger moved since a check began, the HEAD and the bytes it has read are those of the question, the rows it has read are a prefix of the ledger no older than the question, and so is the pending restriction; the newest exact row of that prefix is what the answer rests on |
| `LearningLoopProofs` | `TypeCorrect`, `EverythingOnce`, `LearnsFromVerified`, `FinalizationCloses`, `DriftIsWithdrawn`, `DriftHalts` | `IInv`: rows are written once (`OneEach`, `TriggeredOnce`) and rest on rows already there (`RowsRest`), and what each command has read and not yet written still stands when it writes (`UnderWay`), which holds because rows are only added; `WInv`: what a withdrawing verify has come to is invalidated, and no sanction is revived |
| `LedgerProofs` | `RowsHold`, `AuditsAreTrue`, `TheLogIsKept` | `IInv`: where each process is and what it holds (`Control`); the columns it has seen are those of the file (`Sees`); every row hashes what it held when it was written, over the row before it, unless it is damaged (`Rows`, `Stored`); and what an audit has found so far of the tables behind it stands (`Audited`). An audit reads a table per statement while others append, so the argument is about prefixes: a row, once there, changes only by damage. The refinement maps the commit to the operation and every other step to a stutter |
| `ExplorationProofs` | `TypeCorrect`, `OneFlightAtATime`, `AnswersHoldTheSnapshot`, `QuietMeansQuiet`, `WorkRunsOut` | `FlightInv`: of all flights at most one holds an explorer or an undelivered result (`Holding`), it is that of the generation unless the app is shutting down, and `providerDone` says that none is ahead of its end; `AnswerInv`: moments only grow, so those of what the fence read before the sync bound every later index from below (`Within`); what is compared are commits and bytes, so that each reading found equal is a moment at which the snapshot's were in place: one between the start of the flight and the index (`Since`), and for an index an answer came from one after it as well, once the revalidation held (`Of`). The end: `WorkLeft` orders a flight by its place, then by the fence's attempt and place, then by that of its call; the worker lowers it at every step, the engine, the UI thread and the world outside never raise it |
| `EvidenceProofs` | `WalksFindTheSame`, `NothingReachedIsLost` | the levels of the recursive SQL, one added to the other, are balls that grow by one step each (`LevelsGrow`); the queue of the walk is a wave between two of them (`Wave`: the rest of one level, then what has been seen of the next), each turn keeps it a wave, and when the queue is empty the last ball is reached (`WaveTurns`, `WavePasses`, `WaveEnds`). That the loop visits nodes in an order SQL knows nothing of makes no difference to the balls. Level by level the owners' walks together are the walk of all of them (`LevelsTogether`), so the nearest depth among theirs is its depth (`NearestTogether`) |
| `EvidenceProofs` | `GraphAnswersAreTrue` | `CacheInv`: whatever is under the name of the cache, saved, half saved or saved over, either is refused or has the edges of every file it has the hash of (`Good`); what a call carries over from it is of files with those hashes among the same files (`CarriedHolds`); and what an untouched call has hashed is still there (`Current`) |
| `EvidenceProofs` | `CyclesAreWhatReachesItself` | `CyclesInv`, of files met, open, on the way (the recursion), left (open and off the way) and gone: what is gone leads nowhere else and its cycles are found (`GoneForGood`); who is on the way leads to what was opened after it; a link is the number of an open file that is led to, an earlier one for a file that was left (`LinksReach`, `LinksLeave`), above none of its neighbours that are open (`LinksBound`), and not below that of the file on the way it was left to (`LeftBelow`). So what is open from a root on leads to the root, by descent through the links, and only into itself and what is gone (`Rooted`): it is on a cycle just when it is several files. A file reaches what every set with its neighbours holds that no edge leaves, since balls that grow at every step have all files in the end (`LoopsAreReached`) |
| `EvidenceProofs` | `ContinuityIsEarned`, `UsersAreServed` | `VersionInv`: the engine only moves on, so an engine found to be of the version measured was of it all the time since, when the tree was indexed in between (`TreesInv`); then what the comparison asks is enough: equally many uses of each trust are equally many in all (`CountedAlike`), and whatever they are of runs what the owner ran (`RunAsBefore`) |
| `EvidenceProofs` | `SnapshotsStartRight` | `LearnInv`: a fact has the rate of the rows its scope matched when it was learned, and fading changes neither |
| `EvidenceProofs` | `NoMoreHarmPasses` | `LearnInv` further: a fact passes the gate over the rows it was learned from. The gate scores a row by the rate of the others, and what is applied to it later is the highest rate among the facts that match, clamped. For a row that was harmful the rate of the others is below that of them all (`OthersAreLower`), and the highest is no lower than that; so an edit that harmed and proceeds under what is applied proceeded when the row was held out, or the value is the 0.99 of the clamp (`ClampedIsNoLower`), which is the hypothesis `ClampLetsNoneBy`. Row by row, then, no more passes than the gate counted (`NoMoreMissed`), and a count over a part of the rows never exceeds one over all of them |
| `EvidenceProofs` | `NoMoreThanProved` | `RefinedInv`: every score is that of the candidate's own input under both layers of priors, unadjusted unless it was analysed and answered (`ScoreIsRight`); those analysed are a prefix of the ranking, within the budget (`RankingInv`); whoever is pending is still to come in it (`PendingInv`). Below it, that the tuples of the ranking are totally ordered, so every place is filled once (`PlacesAreFilled`); that merging keeps what others said as a floor (`MergeKeeps`); that the layers of priors over what they already made changes no event and lowers none with consequences (`LearnedKeeps`, `AgainIs`); that of a graph's one event a third remains at least (`RevisedBounds`, `AdjustedKeeps`), and no other changes |
| `EvidenceProofs` | `NoViewDeceives` | that a view owns to what it leaves out is said at its end only; `ViewsInv` says it at every stage, of a read of one index that is not truncated yet (`Entire`): the names resolved and those to come are all (`NamesInv`); the symbols found are the levels so far, and whatever leads to them was found or leads to the last of them (`SearchInv`), so that a search which finds nothing more has found every level (`LevelsStay`); the hubs drawn and the rows to come are all hot files, and every symbol of the hubs is drawn but those of the one in hand (`HubInv`, `SymbolsInv`). A list cut by its limit is smaller than the total counted before, and one that is not is all there is (`AllOfIt`). That views fit and that edges join does not depend on the index, but for a neighbourhood, whose edges are asked for between symbols found before: after one sync what is gone of them cannot be an end of an edge (`FetchedInv`) |

Only model-checked: the liveness properties `CommandEnds` and `BusyEnds`, which
with ENABLED are out of the prover's reach. Half of each is proved all the same:
there is an end to the steps of a command or a flight, for every value of the
constants and whatever the others do (`CommandsRunOut`, `WorkRunsOut`; for the
loops of one application, `StepsRunOut`). What TLC alone shows is that they are
taken: that a command or a worker thread that has not ended is not stuck, given
the fairness above.
Theorems with an operator for a parameter cannot be instantiated, so induction is
stated for a set of numbers, as the lemma `Induct`, which follows from the subset
order of finite sets being well-founded, and sums over a bag of rows by it.
`NoMoreHarmPasses` has a hypothesis since `LearnedSafely` does not hold of every
ledger: the gate tries a fact unclamped, and a rate of one that the clamp makes
0.99 lets an edit with a disutility of exactly 0.10 pass that a prediction above
0.99 had stopped. Of rows with no such prediction the hypothesis is true.
There is no RECURSIVE operator.

## Findings

| Run | What the code does | What is said |
|---|---|---|
| `approval_without_obligations` | without host obligations the replay carries empty ones (assess_controller.py:1315), which are refused: such a candidate can never be approved | README.md:275-276: "reassesses and applies" |

Seen while modelling; no run is made of them:

- an audit of a ledger nobody edited is `False` once a verification halts an
  assessment a lesson was learned from: `validate_chain` also asks that lessons
  still have their sources (db.py:3-6 speaks of mutated content only), which is
  why `AuditIsTrue` allows for it;
- the plan of the approval flow says of a reassessment that is not a controlled
  proceed: "Any other result invalidates the sanction and applies nothing"
  (docs/superpowers/plans/2026-07-20-observatory-identity-and-exploration.md:1207).
  The invalidation is a write to the ledger in the `except` that follows a
  failure, which may have been the ledger's: if it raises (a locked database, a
  full disk), the error of the ledger takes the place of the first, the sanction
  stays active, and the next plain assessment of the candidate claims it. Nor
  does `accept-risk` catch that error (accept_risk.py:45). `UndoFails` is this
  step, and `FailedApprovalRevoked` excuses it by name;
- likewise a drifting verify whose invalidation raises has persisted its
  guardrails and leaves the sanction (verify_controller.py:142, 154);
- the closing fence of an exploration compares HEAD, the bytes of the
  configuration and two versions: with a checkout of another commit, a sync,
  the query, the checkout back and another sync, the answer is the other
  commit's and is shown as the snapshot's (codegraph_adapter.py:557-568).
  docs/PEBRA_COMMAND_REFERENCE.md:678 claims no more than those comparisons;
  `AnswersAreOfTheSnapshot` says what is left: the commit was in place both
  before and after the index was built, within the flight;
- a proof lowers the probability the graph's event has after the learned rates,
  so a rate learned above the graph's is scaled down with it
  (assess_controller.py:1233-1238, candidate_refinement.py:75-98), where
  apply_snapshot.py:424-434 keeps learned rates from lowering such an event;
- a learned benefit adds its variance again when a refined input passes the
  layers a second time (`_combine_benefit_variance`, apply_snapshot.py:374),
  which only widens the doubt;
- a lineage as a whole is not bounded: a candidate that overlaps only the newest
  row of a lineage continues it, and is not charged for the rows about files it
  does not touch, so a chain of candidates can creep from file to file; what the
  meter bounds is the rows of a lineage about one file (`LineageBounded`);
- a controlled row authorizes an application although its sanction was
  invalidated meanwhile: neither gate nor application reads sanctions;
- setup-graph puts back the `codegraph.json` captured before the engine was
  installed, after `init` and under edits made meanwhile (setup_graph.py:719,
  892), which is why `ConfigIsTheUsers` asks that nobody edited; and a command
  killed between `init` and the restoration leaves the engine's file, which the
  next one takes for the user's;
- a removed line that begins with dashes is taken for a file header by
  `parse_old_side_ranges` (codegraph_adapter.py:107), and ends what is read of
  the hunk, of which at least its first line is then taken to be changed;
- `measure_learning` raises a ValueError of its own (learning_controller.py:61)
  that `finalize_outcome` does not catch, as it does the store's
  (finalize_outcome_controller.py:43);
- the import graph hashes a file and parses it later (import_graph_cache.py:225,
  237): an edit in between that is then undone leaves edges under a hash they are
  not of, for as long as the file does not change;
- the engine's version is measured once per process: after an upgrade a process
  that lives on gets "unavailable" only, and evidence may name no version;
- for the probability of an event the most probable of the matching facts is
  applied, where the documents say the most specific wins; every fact passes its
  gate by itself, so what several of them let pass together is bounded by no
  gate; rows a refinement moved are counted by the reconciler and left out by
  promotion; the graph scope asked for at promotion is not compared at
  application; and a fact that works lets its own promotion fail the next time,
  since the predictions it corrected leave nothing to improve;
- `hot_subgraph` limits the rows of a level before leaving out symbols already
  there (codegraph_graph_reader.py:194-214): a caller within reach can be missing
  while `truncated` is false and fewer than `max_nodes` are shown (history
  variable `starved`); a level that fills the limit exactly ends the search with
  `truncated` false; `god_node_map` with all of `max_edges` spent on spokes drops
  cross edges with `truncated` false, and only its total tells; a neighbourhood
  read across two syncs can hold an edge one end of which is not shown.

## What is not modelled

The components marked so in the inventory, and of the modelled ones:

- all candidates touch the same part of the worktree, so that each sees what
  another wrote; disjoint candidates interact less;
- in `CandidateLifecycle` an assessment has one candidate; several are ranked in
  `Refinement`;
- rows are well formed, and rows written by versions before candidate bindings or
  revision envelopes existed are absent;
- the integrity checks of a replay bundle are one condition;
- the binding of several files is read in one step (`GateCheck` and the write
  itself take the files apart);
- scores are the outcomes of their comparisons; the floating-point formulas are
  left to the unit tests;
- an attempt number given by the caller can only raise the meter's and is left out;
- in the gate, exact mode behaves as an impactful probe, a missing repository as
  an unreadable HEAD, and the probe itself is a free choice, how the files of an
  edit combine in it included; the git-show fallback for committed candidates is
  left out;
- how git's output becomes the changed files of a verify;
- the Windows job object of `run_bounded`;
- in the fence, contents of one commit mixing under foreign syncs; ranking and
  bounds of the lessons recalled;
- in the ledger, an audit opened read-only on an unmigrated file; outcomes other
  than completed ones; assessments without a packet; rows beyond one per table
  and operation;
- two set-up commands at once; the labels "installed" and "unchanged" are one,
  and a doctor's report reads everything at one instant;
- in `Continuity` the engine is only ever upgraded, the deadline is a flag, and
  the candidate does not change under the analysis; the materialized diff
  (`codegraph_materialized_diff.py`) is switched off in the program;
- in the import graph, percentiles, anchors and the reverse map, which are
  functions of the edges; the file is written by one system call;
- in `LearnedFacts`, variances and intervals: what a gate makes of them is left
  open;
- in `GraphViews`, labels, weights, depths and counts per node, and the single
  total of symbols; why a database does not open is one refusal; edges are
  distinct and paths have one spelling;
- in `Refinement`, how likely the graph says an edit is to break its users, what
  was learned and how much a candidate is worth are data; which facts match and
  win is `LearnedFacts`; of the shipped cells there is the one the program has;
  destructive operations and the sources of requested events are left out; the
  decision is reduced to policy, threshold, utility and verification, and breadth
  to one number.
