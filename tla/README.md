# A verification of levenshtein's execution core

levenshtein is a CLI that runs a plan of checks over a working tree and reports
one verdict. Most of what can go wrong in it without a test noticing is in how
checks run next to each other: several goroutines in one process, several
processes on one tree and one cache directory, commands that change the tree
while others read it, and any of them cancelled, timed out or killed. Around
that core, a check of each kind turns what a tool, a linter, a model or an engine
said into a verdict, and a command turns verdicts into an exit code and a
recorded baseline. These modules model both, check them with TLC on small
instances, and prove the central results with TLAPS.

## The system

| Part | Code | State it keeps | Operations | Interacts with |
| --- | --- | --- | --- | --- |
| Command line | `cmd/levenshtein/main.go`, `args.go` | the run's context | parse flags, plan, load baseline, open session and cache, execute, apply baseline, render, record; first signal cancels | everything below |
| Planner and configuration | `plan.go`, `config.go`, `validation.go`, `rulemodules.go`, `kinds.go` | none | select checks, targets, environments; refuse what cannot run | produces the plan |
| Scheduler | `run.go`, `report.go` | worker slots, one done channel per check, results | `Session.Execute`, `executeCheck`, `reportStatus` | calls an executor per check |
| Result cache | `cache.go`, `fingerprint.go` | `results/<key>.json`, `results/<key>.retry`, `locks/result-<key>` | `CachedExecutor.Execute` | result lock, workspace, session, executor |
| Session listing | `discovery.go`, `session.go` | memoized git listing per source and its epoch | `listing`, `relist` | every fingerprint; relisted by every execution |
| Workspace gate | `gate.go` | readers, writer, queued, wake channel | `gate.acquire`, leave | one per source, shared by all sessions of a process |
| Workspace hold and lock | `gate.go`, `lock.go` | holders, slot, the file lock | `fileHold.acquire`, release, `lockFile` | taken after the gate; shared by processes through the cache directory |
| Stat memo | `statcache.go` | stat entries, persisted shards | lookup, store, prepare, flush | every fingerprint |
| Native executor | `native.go`, `stages.go`, `command.go` | `Native.mu`, `stages/<key>.json` | stages, command, artifacts | inside the workspace |
| Dagger executor | `dagger.go`, `cachekey.go`, `goapidiff.go` | one session per run, opened lazily, with the clone's cache key | connect, query, classify the answer, close | shared by concurrent checks |
| Tools and releases | `gochecks.go`, `gotools.go`, `releases.go` | published executables, kept downloads, their locks | compile, publish, fetch, install, run | processes sharing a cache directory |
| Baseline | `baseline.go` | the recorded findings | apply, record | the finished report |
| Semantic check | `semantic.go`, `internal/semantic` | worker slots, answers and errors of one call | build requests, ask with retries, compose | an external model |
| Mutation testing | `mutation.go`, `runner/mutation.go` | the coefficient of one call | select files and lines, run gremlins, judge its report | Dagger executor, gremlins |
| Dagger module | `runner/checks.go`, `main.go`, `gocheck.go`, `secrets.go`, ... | the engine's cache volumes and kept answers | one container pipeline per kind of check | repositories sharing an engine |
| Linters | `runner/community.go`, `runner/community`, `runner/lint` | Staticcheck's package cache, Dagger's layers | build a linter for the pinned rules, lint each package with and without its tests, merge two reports | the Dagger module |
| Tool verdicts | `internal/checktool` | none | an exit code and a report become a pass, findings or an error | every check of a tool |

What is hard, and where it bites, is listed under `hazards` in `PROJECT.json`.
In short: abandoned waits in the gate, sharing one file lock among goroutines
without a release that waits behind another process, chains of preparations in
a bounded pool, verdicts recorded or served for inputs that changed between two
looks, a crash between any two writes of the cache, an engine or a linter that
replays what it kept for inputs that are not quite the same, a tool whose report
and exit code disagree, and a baseline that several checks of one run judge.

What makes each part correct:

- gate: writers alone, exact counters, no lost wake-up, no reader past a
  waiting writer, nobody starves;
- hold and lock: exclusion across processes, the lock held exactly while
  somebody uses it, releases that never wait behind another process;
- scheduler: the cap, plan order among checks that share a preparation, a
  report made of final results, cancellation, termination;
- cache: a record names what its execution read, no success survives a newer
  failure, an unpublished execution is followed by a rerun, one recorder per
  key, termination;
- semantic check: both budgets kept and spent, the worker bound, a report made
  of finished requests, an outcome that follows from what was answered;
- mutation testing: a pass hides no survivor of the change, findings are true,
  timeouts under a limit too short are no verdict, reruns end;
- Dagger executor: what checks share outlives each of them, a verdict is that of
  an answer that came in time;
- engine: a tool is built, and a step compiled, from what was downloaded, and
  advisories are as new as the call;
- go-lint: findings are those of the current source, configuration and rules, in
  the build that judges them, and the community never hides the core's;
- native tools: a verdict is what the tool of this checkout found, whoever
  publishes, dies or writes beside it;
- baseline and command line: a pass hides nothing, a recorded baseline makes the
  next run pass, recording keeps what the run did not judge, and what a plan
  accepts can be run.

## Modules

`TreeAccess` is the abstract promise about entering a working tree: who may be
in it together. `Gate` implements it for one process, `Workspace` for several;
`ResultCache` uses it, as a definition of who may enter, in place of both.

| Module | Models | Checked through |
| --- | --- | --- |
| `TreeAccess` | what `gate.go` promises: a writer excludes every check it is coordinated with | `MCGate`, `MCWorkspace` |
| `Gate` | `gate.acquire` and the leave it returns, `broadcast` | `MCGate` |
| `Workspace` | `workspaces.acquire`, `fileHold`, `lockFile`, process death | `MCWorkspace` |
| `Scheduler` | `Session.Execute`, `executeCheck`, `reportStatus` | `MCScheduler` |
| `ResultCache` | `CachedExecutor.Execute` and what it calls, `Session.listing`, `relist` | `MCResultCache` |
| `StatMemo` | `statStore` and the `fileEntry` that uses it | `MCStatMemo` |
| `Stages` | `Native.runCommand` and `Native.stage` | `MCStages` |
| `SemanticCheck` | `semanticLint`, `semantic.Run`, `askAll`, `Client.Ask` | `MCCheckKinds` |
| `MutationCheck` | `executeMutation`, `mutate`, `decideMutation` | `MCCheckKinds` |
| `DaggerExecutor` | `Dagger.Execute`, `executeApidiff`, `client`, `query`, the session and its key | `MCCheckKinds` |
| `GoLint` | `GoLint` of the module, `communityLint`, the linter's process and its caches | `MCCheckKinds`, `MCGoLint` |
| `ToolVerdicts` | how each tool's run is judged (`checktool`) | `MCCheckKinds` |
| `NativeTools` | `goCheckExecutor`, `helper`, `publish`, `installRelease`, `runTool` | `MCCheckKinds` |
| `EngineCaches` | `SharedCheck`, `GoGenerate`, `verifyModuleCache`, `goCaches` over an engine's volumes | `MCCheckKinds` |
| `CheckKinds` | the dispatch of one check to the machine of its kind | `MCCheckKinds` |
| `Planner` | `Plan`, validation, what executors refuse later | `MCCommandLine` |
| `Baseline` | `Apply`, `Record`, judged entries, annotations | `MCCommandLine` |
| `CommandLine` | one command, from its flags to its exit code and the baseline file | `MCCommandLine` |

`Baseline` extends `Planner` and `CommandLine` extends `Baseline`; `NativeTools`
extends `ToolVerdicts`. Each module `MC...` gives one instance its values. Proofs are in
`GateProofs`, `WorkspaceProofs`, `SchedulerProofs`, `CacheProofs`, `StatMemoProofs`,
`StagesProofs`, `CheckKindsProofs` (a section for each machine, and their
composition) and `CommandLineProofs`.

### Gate

Every action is one critical section of `g.mu`. The open wake channel is
represented by who waits on it: `parked` is in the select on the current
`g.wake`; closing it (`Broadcast`) makes every parked check `signalled`, and a
signalled check may be overtaken by any other before it looks again (`Retry`).
`ended` holds the checks whose context has ended; a check whose wait ended both
ways may take either branch of the select.

### Workspace

A check asks, passes its process's gate, and joins the hold: through the slot,
counting itself when a mate holds the lock already, otherwise keeping the slot
while it waits for the file lock. A release needs the slot too. The gate is
represented by its condition (what `Gate` is proved to implement), the rest is
modelled step by step. `Crash(p)` drops a process's memory and its flock. A
check outside `Locked` belongs to a session without a cache directory.

### Scheduler

A check's goroutine waits for every earlier check with the same preparation,
takes a slot, executes, stores its result, frees the slot and closes its done
channel; the two deferred calls are separate steps, in their order. Plans and
the jobs option are chosen by `Init`, so one run covers every plan of its size.

### ResultCache

The tree is one listed file's content and one further file that may be absent.
A key is a check's definition and a view of the tree: content, and the further
file as present, missing (listed but not on disk) or unlisted. So a fingerprint
made with a stale listing is a key of its own, as in the code. `ListGit`, where
git runs, and `TakeListing`, where its answer is memoized or not, are separate
steps: a relist may come between. Of the epoch counter only its comparison is
kept, as whether the answer is still current. `latest` and `saw` are ghosts:
the outcome of the newest execution under each key, and the tree it read.
`Disk` lets each cache write fail; `Restart` kills a process or starts its next
call. Restoring artifacts on a hit writes only declared outputs, which no
fingerprint covers, and is not modelled.

### StatMemo

A file is a content, a mode and a modification time. All contents have one size
and a file keeps its inode when it is recreated, so a rewrite within a tick of
the filesystem's clock leaves the stat as it was. A write at time t is stamped
with any of the last `Granularity` times; no write sets a time of its own
choosing. Taking the stat, taking the moment of the read, opening and storing
are separate steps, and a file may be rewritten during any of them; a read that
overlaps a write may give `Torn`. A memo is written as one record, or as two
when it exceeds `ShardLimit` entries. `read` and `since` are ghosts: what a file
held during a read, and since its walk.

### Stages

Command checks of several processes prepare, build and run in one tree, one at a
time: they are writers of `TreeAccess`, and `Native.mu` is taken inside. The
tree is a version of each stage's declared inputs, what the preparation generated
and what the build made. The build's key covers its own inputs and, as its
dependency, the preparation's; the comparison at the end of a stage looks at its own
only (`Unchanged`). A stage takes its key, compares the recorded outputs with what is
there, or runs its command, which is a start, a read and an end; the session's
listing is dropped after it and taken again by the snapshot that follows. A
listing may be older than the moment its check entered the tree. Whether git
ignores what the preparation generates is chosen by `Init`. Outsiders edit the
inputs of one stage or of both, remove outputs and kill processes at any moment; an edit never
restores an earlier version, because a command that reads something between two
equal snapshots is beyond what the code can see. `quiet` and `sound` are ghosts
that say whether an outsider changed the tree while a check was in it, or while
one was in it that recorded what this one reused.

### SemanticCheck

A request has a size, a least size it can be shortened to, and a number of
questions; an answer is how many of them were validly answered. `Load` is git,
the building of the requests and the budgets. The loop of `askAll` looks at the
context, then waits in a select for a slot or the context: two steps, and the
context may end in between. Each goroutine is posting, waiting before a retry or
back, and holds its slot throughout. The check's timeout and the run's context
end independently, at any moment. The composed report is a function of what the
requests returned (`Judged`, `Missing`); the switch of `semanticLint` is
`Verdict`. Each hunk's request is any of `Shapes`, whatever its position.

### MutationCheck

`truth` is what becomes of each mutant under a limit that is long enough. A
mutant that would be caught or survive may time out only under a limit the
runner does not trust: that is the code's own premise, the floor. Mutants that
are not covered and not viable are judged alike and are one fate. A file the
diff has no entry for, and every file in module scope, is a file all of whose
lines count. An accepted entry is the set of lines its text, function and
occurrence name. Gremlins may also skip every mutant or none, the known defects
of its diff mode. The host's contexts are read when the query has ended, which
is where `Conclude` chooses among the outcomes.

### DaggerExecutor

Two checks of one run share `d.session`, which the first of them opens under the
executor's mutex with the run's context, and the clone's key, which is looked up
outside the mutex and kept by whoever comes first if its own context was alive.
Selecting work on the host, connecting, finding the source and its key, and
asking are one action each. Dagger answers a query, refuses it or stays silent
(`Respond`, `Deadline`), and a check's deadline and the run's interrupt come at
any moment; `Settle` is the switch that turns what came into a status.
`answer`, kept beside the status, is what the engine really said.

### GoLint

One check is run again after edits of its source or its configuration, with or
without a nonce. The source is one package with at most one directive; `text` is
what the build without tests compiles, so sources that share it are the same to
Staticcheck's cache. Each run selects the core's rules, lints both builds,
guards, reports; then, with rule modules, builds the linter for the versions the
module graph resolves to and does the same. A step's process may die, be cut
short, print beside its report, or run no rule to its end: `troubles` bounds
these. `packageCache` is Staticcheck's cache by `PackageKey`: the linter,
the build, what that build compiles (in the build with tests the test files too), the
rules registered and how they are set. `layers` is what Dagger keeps by `LayerKey`:
for the core linter the source and the selected checks, for a community linter
the source, its pin, the modules' options and the community checks. What the rules find
in a source is part of the source, so that what is replayed can be compared with what is
true now (`FindingsAreCurrent`).

A source that does not compile runs no rule. Staticcheck then prints one diagnostic,
with a position or, as for dependencies without export data, without one (`placed`).
`LintFindings` refuses the one without a position, and one whose code is not selected
(`lint.go:130-131`), which makes the check an error, as the self-test of the module
requires of its broken fixture (`runner/main.go:191-201`). `BrokenIsRefused` states
what remains: such a source never passes, and fails only by a positioned diagnostic
under a selection that has its code, as "all" does.

The code of a rule module runs in the linter's process and can print any finding as if
it were Staticcheck's (`community.go:493-496`). `PrintsMore` prints one of `Printable`:
in the instance a rule's finding, whether selected or not, true or not, advisory or
not; one of a core rule; and the linter's own codes; on the line and elsewhere; and the exit
code counts it or does not. `process.added` remembers it for the properties.

### ToolVerdicts and NativeTools

A run of a tool is an exit code, a report and what else was printed;
`RunsOf(kind, fact)` are the runs in which a tool of that kind may tell that fact,
failures of its own included, and `VerdictOf(kind, run)` is the code's decision.
`go vet` alone exits and prints alike for what it finds and for a package that it cannot
type-check (`Indistinct`), so for it a failure may be told as findings, never as a pass.
In `NativeTools` checks are processes with a cache directory in common: they
compile and hash before they take a lock, look up what is published under the
digest, link their own file, or keep and install a pinned release. A check with
nothing to look at, or with a lint pattern that names no rule of the linter
(`gotools.go:314-332`), is refused. `cacheFiles`
says whose bytes are at a path. `Overwrite` is somebody who ignores the locks;
`ProcessDies` is a kill between any two steps. A file that was just handed to a
check is not overwritten before it runs: nothing in the code looks again.

### EngineCaches

A job is one call of the module for a repository's kind of check. A volume's
content is `sound`, what was downloaded, or names the repository whose code
changed it. Tests and generators may change the volume of their own repository
when they run. The engine keeps finished commands and answers a call without a
nonce from what it kept, the verification of the module cache and the step
itself separately. So a verification can be replayed for a step that is not,
after the volume changed: `exposed` names exactly the jobs to which that has
happened, and `StepsCompileTheirOwn` says that for all others, and for every tool
that is built, it cannot. The comment at `checks.go:152-155` promises no more than
that a verification and its step are kept together; an interrupted step, a
concurrent step of the same repository and a run with a nonce are its limits.

### CheckKinds

Checks of different kinds share nothing but the dispatch, so a behaviour runs
one of six machines (`SemanticCheck`, `MutationCheck`, `DaggerExecutor`,
`GoLint`, `NativeTools`, `EngineCaches`) and leaves the others idle: only the machine
of the check's kind steps. Their invariants are checked in one run without multiplying their states.

### Planner, Baseline, CommandLine

A configuration is a record of declarations; what a field must look like is one
fact about it, and everything that depends on several of them (executor and kind,
target and kind, stages, fresh variants, modules and their withdrawn rules) is
spelled out. `Plan` returns the plan, or nothing when the code refuses.
A finding is a code at a site, a result counts how often each occurs, a baseline
is a function from kind, directory, code and site to positive counts. `Apply` and
`Record` are those of `baseline.go`, entry by entry: what is covered, stale or
orphaned, which check judges it, and what a recording keeps. `CommandLine` adds
the order of a command's steps. The flag `astray` stands for a command without a shared
checkout, or whose cache directory lies in a checkout: it is refused, but after a dry
run or a render has ended. Rendering a report or writing the baseline may fail,
which ends the command with 2 and leaves the file (`Finish`). A reference's last slash
divides target from check, so a target whose name has a slash (`Slashed`) cannot be
named together with a check. `debt` is what the tools would find; between the
steps the source is edited, and the two files by hand while no command runs.
Community rules are renamed, selected under old names, advisory or left out by a
native executor.

## Runs

| Run | Instance | Shows |
| --- | --- | --- |
| `gate` | 3 readers, 2 writers, 2 arrivals each, with fairness | `CountsExact`, `NoLostWakeup`, `NoReaderOvertakes`, `ImplementsTreeAccess`; `NobodyStarves` |
| `workspace` | 2 processes; two readers, a reader without a cache directory and a writer in one, a writer in the other; one death; with fairness | `HoldExact`, `ReleaseNeverBehindLock`, `ImplementsTreeAccess`; `EveryWaitEnds` |
| `scheduler` | every plan of 3 checks over 2 preparations, jobs 0-2, one check without executor, a cancellation, with fairness | `WithinCap`, `SharersInPlanOrder`, `ReportFinal`; `EveryRunReports` |
| `cache_sound` | a native check and a second Go, Dagger or command check in one process, a command in another, 2 changes of the tree | `RecordNamesItsInputs` |
| `cache_fresh` | a Dagger or a command check in two processes, disk failures, an edit, a restart, with fairness | `NoSupersededSuccess`, `OneRecorderPerKey`, `UnpublishedIsRerun`; `EveryCheckEnds` |
| `cache_served` | a command check in two processes, a command in the second | violates `ServedIsCurrent`: see Findings |
| `stat` | two files in two shards, one of them rewritten, two goroutines of a session, failing writes, one restart | `TrustedIsCurrent`, `CountedShardsExist`, `ServedIsThere` |
| `stages` | three checks with two preparations in two processes, one without an environment identity, an edit of the inputs of either stage or of both, a removal or a death, failing writes | `RecordNamesItsInputs`, `ConsumesItsOwn` |
| `stages_edited` | the same | violates `ReusedBuildIsOfItsPreparation`: see Findings |
| `check_kinds` | changes of up to 4 requests of three shapes; 3 mutants on 3 lines of 2 files, 2 entries, 3 coverage times, 2 gremlins runs; pairs of Dagger checks; go-lint twice over 8 sources and 8 configurations; a native check of every kind, and pairs that share a tool; pairs of jobs of an engine, 2 calls each; with fairness | `CheckTypeOK`, `BudgetWellSpent`, `OutcomeIsHonest`, `PassMeansCaught`, `FindingsAreTrue`, `SharedOutlivesChecks`, `VerdictsAreAnswers`, `FindingsAreCurrent`, `CoreFindingsStand`, `ToolVerdictIsTrue`, `StepsCompileTheirOwn`, `RerunClearsFloor`; `CheckEnds` |
| `command_line` | 2 commands with every set of flags in `MCFlagSets` over 4 configurations and a declaration of every kind with every defect; 3 debts, 2 files written by hand, a malformed one | `PlanIsHonest`, `PassHidesNothing`, `RecordThenPass`, `RecordKeepsUnjudged` |
| `golint_stale` | two go-lint runs | violates `DirectiveJudged`: see Findings |

`ImplementsTreeAccess` is the refinement of `TreeAccess` (exclusion, `WriterAlone`, follows).

Type invariants: `CheckTypeOK` is checked in `check_kinds` and has a conjunct for
each of its machines. It is proved, and so are those of `Gate`, `Workspace`,
`Scheduler`, `ResultCache` and `Stages`.

Bounds. The counters `arrivals`, `turns`, `writes`, `restarts` and `crashes`
exist only in the models and are capped by `MaxArrivals`, `MaxTurns`,
`MaxWrites`, `MaxRestarts`, `MaxCrashes`, `MaxClock`, `MaxChanges`, `MaxRuns` (in
`StatMemo`), in `Stages` `MaxTurns`, in `GoLint` `MaxTurns` and `MaxTroubles`, in
`NativeTools` `MaxMishaps`, in `EngineCaches` `MaxRounds` and `MaxLosses`, and in
`CommandLine` `MaxInvoke`; `MaxHunks` bounds a change's requests. Two writers and two readers are
the fewest with which a writer waits behind a writer and a reader is held back
while another is inside. Two locked readers in one process are the fewest that
share a hold. Three checks give a chain of preparations with a check between.
Two tree changes are enough to change the inputs and to change them back, and,
with a relist, to use up the three lookups. For the memo one change is enough to make
an entry lie and a clock of
one more than the window is enough to let it settle. `CountedShardsExist` is checked without write
failures and with one flush at a time: a failed write of a shard, or another
process's smaller memo, does leave a count without its shard, which `prepare`
treats as a shard with nothing in it. Three turns
of three checks let one check reuse another's stages, replace them, or find them
replaced by a different preparation.

For the semantic check the shapes are one that fits, one that fits once it is
shortened and one that never does; four requests overrun either budget, and
with two workers the loop waits while both retry. `MaxAttempts` is 2 for the
code's 3: what matters is a first, a last and an unsuccessful one. For mutation
testing two lines share their text, so one entry can be ambiguous while another
names one of its lines; the coverage times include an unreported one (0), and a
rerun can be exactly twice as fast as the run before it.
`MaxRuns` is 2 for the code's 3, so that the last run can still be too short;
`Floor`, `Coefficient` and `MinTimeouts` are scaled down with the times.

Two go-lint runs are the fewest in which the second can replay what the first
left, in the package cache or in Dagger's layers; the sources differ in their
text, in their tests only, or in what their rules find. Two native checks beside
each other, of one checkout or of two, meet at every path and lock; two mishaps
let a file be overwritten and its process die. Two calls of two jobs are enough
for a verification and a step to be kept, replayed and overtaken by each other;
with three calls and two losses the machine was tried alone as well (542,705
states). Two commands are a recording and what follows it, with an edit, a hand
edit or another configuration between them; one terminal suffices, see below.

Symmetry is used in `stat` only, which checks nothing but safety: its
goroutines and contents are alike.

Fairness. Goroutines that can proceed do (the Go scheduler); a lock that stays
free is found by the 20 ms poll of `lockFile`; executors return because each
runs under its own timeout or the run's context. Nothing forces a request, an
edit, a cancellation, a failure or a crash. All of it is weak fairness on single
actions, on one goroutine's steps, or on all steps of one machine of `CheckKinds`
together: posts and delays of `Client.Ask`, gremlins and the native tools run
under timeouts, and a Dagger query ends by its deadline, an interrupt or an
answer. That connecting to Dagger ends is an assumption: it is bounded by an
interrupt only. `CommandLine`, `GoLint` and `EngineCaches` are checked for safety
alone: each of their steps is bounded, and a run ends when its step does.

## Proofs

`GateProofs` proves, for every finite set of readers and writers and any bound
on arrivals: type correctness, `CountsExact`, `WriterAlone`, `NoLostWakeup`,
`NoReaderOvertakes` and that `Gate` implements `TreeAccess`. The inductive
invariant is the conjunction of the type invariant, the exact counts and "no
check parked on the open channel would be admitted". The counts are what makes
it inductive: the code decides by counters, the properties speak of the checks
inside, and only the exact correspondence lets a step of one be read as a step
of the other. A few lemmas on the cardinality of a set with one element more or
less carry the arithmetic; each action is one step of the proof.

`WorkspaceProofs` proves, for any finite set of checks, any processes and any
bounds on turns and crashes: type correctness, `HoldExact`, `WriterAlone`,
`ReleaseNeverBehindLock` and that `Workspace` implements `TreeAccess` across
processes. It assumes `WorkspaceAssumption` only: a finite set of checks, each
with a process, and `Nobody` outside both. `HoldExact` is not inductive: a first
holder takes the lock some time after it saw that nobody holds it. The invariant
adds why that stays true: whoever is in `lockFile` has the slot of its process
(`SlotExact`), nobody of that process holds the lock meanwhile (`LockFirst`), and
only sessions with a cache directory get there (`OnlyLocked`). Exclusion inside
a process is what the gate lets through (`GateExact`); exclusion between
processes follows from the exact hold, since the lock would belong to both. That
a release never waits behind another process is `LockFirst` against the release's
own hold.

`SchedulerProofs` proves, for every finite plan, every jobs option and every number of
processors: type correctness, `WithinCap`, `SharersInPlanOrder` and `ReportFinal`.
`Cardinality(slots)` is bounded by the code's own wait; that it bounds the checks
at work is `SlotsExact`. Plan order follows from `WaitedFor`, every earlier sharer
of a check past its wait has closed its channel, and `DoneEnded`. A report
is the status of results that no longer change because all have ended.

`CacheProofs` proves, for any checks, definitions, processes, commands and any number of
edits, failing writes and deaths: type correctness, `OneRecorderPerKey`,
`NoSupersededSuccess` and `UnpublishedIsRerun`. The invariant `Keeps` says of
each check under its key's lock what the code relies on without looking again:
the record is gone from before it executes until it is saved, the marker is
there while it executes, and an attempt that finds a marker is a rerun.
`OneLockEach` makes it inductive, because a step of one check changes what is
stored under its own key only (`OnlyAbout`), so the others keep theirs
(`OthersKeep`), and a death leaves the store as it is. Nothing about the tree or
the listing is needed: these properties hold whatever a fingerprint says.
`RecordsNameInputs` is about the tree, and is proved for trees that nobody but checks and
commands changes (`~Editor`): a native check holds the tree from before it
confirms its key until it has compared, so what changes meanwhile is its own
doing at most; what it compares with is made with a listing taken after its
execution. It is stated for checks that read the tree. A cached command which
changes its own inputs and restores them before it ends may be recorded under
inputs it did not read: the code compares before and after, and cannot see
what was in between.

`StatMemoProofs` proves all three properties of the memo. `TrustedIsCurrent` holds
for every granularity within the window, any clock, files, sessions and deaths. The
argument is that of `statcache.go:62-73`: a write is stamped less than a window
before its time, so a file whose stamp is more than a window older than the start
of a read was not written since that read started. The invariant says it of every
entry in memory, in a flush or on disk (`EntriesTrue`) and of every read under way
(`ReadTrue`); it needs the stat to be taken before the moment that dates the read,
and that before the read. `ServedIsThere` adds what each goroutine has seen of its
file since its walk (`GhostKnows`); `CountedShardsExist` is proved for one session,
as two flushes at once do break it.

`CheckKindsProofs` has a section for each machine, and one for their composition.

The Dagger section proves type correctness, `SharedOutlivesChecks` and
`VerdictsAreAnswers` for any set of checks: only the run opens the session, a check
that calls under a key while its own context lives calls under the session's
key (`KeyKept`), and before it settles it has heard nothing.

The engine section proves `StepsCompileTheirOwn` for any jobs, calls, interrupts and
prunes. The tools' volume is never changed (`ToolsApart`), a keyed repository's by
its own code only (`OwnVolume`), and where a volume was changed, whoever is verified
and not yet replayed is exposed (`KeptVerified`, `RunVerified`). Working out this
invariant showed that a job's own verification outlives its step when the run
has a nonce or is interrupted, which needs a third call to matter: `exposed`
names those jobs too.

The mutation section proves `RerunClearsFloor`, `PassMeansCaught` and
`FindingsAreTrue` for every floor, coefficient, bound, coverage time, set of mutants
and entries. `RaisedFor` says that a rerun is about to use the coefficient
that the last coverage time asked for; the rest of the first is arithmetic
(`RoundedUp`, `HalfAsLongClears`). The verdict rests on `AllReported` (what is judged
is a report that shows each mutant truthfully or as timed out), on `HangsOnly` (past
the floor only a hang times out), and on what the pass or the findings say of it.
`MutationInv` adds the types: a raised coefficient is no lower than the one before, which
was too short, and at most twice the floor, as a coverage time is a millisecond at
least (`LongerIsBounded`).

The section on native tools proves `ToolVerdictIsTrue` for any checks, checkouts and
number of mishaps. A verdict is read off one run of the tool, so `ToolInv` is about
what is run: one check at a time holds a tool's lock (`OneHolder`), what it is about
to publish is its own checkout's and not there yet (`HeldIsOwn`, `PublishFree`), and
what runs is genuine (`RunGenuine`): a file that was overwritten meanwhile is found
out by its digest before it is handed to a check. That a report which contradicts its exit code is neither
a pass nor a finding is a fact about `VerdictOf`, kind by kind.

The semantic section proves `BudgetWellSpent` and `OutcomeIsHonest`, and with the
type invariant the worker bound, for any shapes, budgets, workers, attempts and
changes. What is kept within the budgets is computed by a recursive function, and
a function on an interval is what the prover can reason about step by step:
`KeepSpends` goes along the requests with the invariant that what is kept so far
fits, and that each one passed over does not fit beside it; what is kept only
grows, so it does not fit in the end either. `SemanticInv` places each request of
the queue by the loop's index: those after it are unsent, those before it are
under way, returned or have their reason.

The go-lint section proves `FindingsAreCurrent`, `CoreFindingsStand` and the type
invariant for any sources, configurations, rule modules, turns and troubles.
`FindingsAreCurrent` compares what was printed, cached and replayed with a second
definition of the truth, so `LintInv` follows a finding from the rule to the verdict:
what a cache keeps under a key is true of everything that has this key, and not only of
what was linted when it was kept (`PackagesTrue`, `LayersTrue`); what the current
process found is like what an analysis of its source finds (`FoundTrue`); what it prints
says what is true, beside what a module's code added (`SaidSound`); and the core's
findings are kept until the two reports are merged (`CoreHeld`). The verdict follows,
also for a source that does not compile, whose only line is one that the judge lets
through or refuses (`CompileAllowed`). "Like" leaves out one
thing, whether a directive for a rule that tests decide is used, in the build without
them: that is the answer which `golint_stale` shows to outlive its test file. A
run with a nonce takes nothing from a cache, so there complaints about directives are
those of the build that decides (`DirectiveJudged`). Nothing is assumed of the rules of
a module: they may say one thing with tests and another without, and their code may
print anything.

The last section composes them. `CheckInv` is the conjunction of the six machines'
invariants; a step of `CheckSpec` is for each machine a step of it or none
(`OneMachineSteps`), so every safety property of the run `check_kinds`, and
`CheckTypeOK` as a whole, holds of a check of whatever kind is dispatched
(`ChecksKeepTypes`, `ChecksAreSafe`, `ChecksStepHonestly`).

`StagesProofs` proves the type invariant of `Stages`, `RecordNamesItsInputs` and
`ConsumesItsOwn` for any checks, preparations, processes and sources, and for any
edits, removals and deaths between two steps, from one more assumption: that a
missing output is none that a preparation generates. `StagesInv` keeps one check
in the tree at a time (`Alone`) and orders what that check saw: the sources its key
names are no newer than those its dependency names, these no newer than those
the command read, and these no newer than the tree's, stage by stage (`Keyed`, `Depends`, `Took`).
No edit restores a version, so a final snapshot that equals the key closes the
gap for the stage's own inputs. It does not look at the preparation's inputs again, so
of these, and of what was generated, a build's record is right if nobody outside
changed the tree while its check was in it. While nobody outside interferes, what a stage made
is its own product (`Produced`), and so is what it left for the next one
(`Prepared`). What has been recorded stays true of itself (`True`).

`CommandLineProofs` proves all four properties of a command, for any
configurations, debts, kinds of rules, files and users. `ResultInv` is what makes
them provable: the plan of a command is that of its configuration and its flags, the
results are those its plan and the debt allow (`ResultsHeld`), and a baseline, loaded
or on disk, accepts positive counts of possible entries (`FileHeld`, `LoadedHeld`).
From there each property is a statement about `Apply` and `Record` alone. What covers,
judges or produces an entry in a recording does the same in the run that repeats
it; an entry a recording writes is as large as the findings of the check it was
written for, so nothing it accepts is stale. `RecordKeepsUnjudged` needs one
terminal, since a second one may write between the reading and the recording.

What the theorems assume beyond the named ASSUMEs stands in their statements:
`~Editor` for `RecordsNameInputs`, one session for `CountedShards`, one terminal for
`RecordsKeepUnjudged`. Of the ASSUMEs
six are about more than the shape of the
constants: `KindAssumption` (a definition is of one kind: the fingerprint covers kind
and executor), `FilesAssumption` (a baseline file accepts positive counts of entries
that can be written down), `AbsentAssumption` (a missing record is none),
`MutationAssumption` (among others, the initial coefficient is at most twice the floor
in milliseconds: 10 and 10000 in `mutation.go:30,45`; without it a raised limit could
leave the type's range), `GoLintAssumption` (sources of one text are the same to the build
without tests; what a core rule finds in one build and the other is as the build
that decides it says) and `NamesAssumption` (no rule is called `staticcheck` or `mixed`:
`runner/community/module.go:33-57` reserves the names).

Liveness under fairness stays with TLC: the prover has no rule for it. Those are
`NobodyStarves`, `EveryWaitEnds`, `EveryRunReports`, `EveryCheckEnds` and `CheckEnds`.
Every other property that a passing run checks is stated by a theorem.

## Findings

`cache_served`: the comment at `cache.go:243-245` says that what a lookup loads
is the verdict for the inputs as they are now. The confirming fingerprint uses
the session's memoized listing, which only this process's executions drop. When
another process's command creates a file while the check waits for the tree, the
key still matches and a verdict recorded without that file is served, with the
tree held. Recording is not affected (`cache_sound`), as executing relists
before the key is compared again.

`stages_edited`: `docs/architecture.md:133-135` says that a stage's key is derived
from its inputs, environment, and (for build) the preparation it depends on.
`stages.go:52-58` derives it from the preparation's definition and from its
inputs as they are when the build's key is taken, not from the preparation that
ran. When the sources are edited between the two and git ignores what the
preparation generates, the build made from the older generated files is
recorded under the edited sources, and reused later, after the preparation ran
again for them. Without such an edit the two agree (`ConsumesItsOwn`).

`golint_stale`: `builds.go:30-31` says that a directive that matches nothing in the
deciding build is still reported as unused. In the build without tests the linter
asks whether the directory has test files (`builds.go:81`), and Staticcheck keeps
that build's results for the files it compiles, which test files are not
(`excluded.go:25-28`). So the answer survives the test file it rests on, in both
directions, until the package changes otherwise or the run is fresh. Findings
other than those about directives do not depend on it (`FindingsAreCurrent`).

Observations that no run states, because nothing in the repository says
otherwise or because they are outside a model:

- `executeMutation` and `executeApidiff` end in an error, not as cancelled, when
  the run's context ends while they select work or prepare the source
  (`goapidiff.go:328-331`).
- Dagger is connected under the executor's mutex with the run's context and no
  timeout (`dagger.go:276-305`): an engine that does not start holds up every
  Dagger check, past its own limit, until the run is interrupted.
- The executable of a release is replaced under its lock and executed after the
  lock is freed; a change between the two is not noticed.
- Dagger keeps lint steps that failed (`ReturnTypeAny`), but not builds and
  downloads that did (`community.go:174-179`).
- A directive that names a rule judged with tests and one judged without is never
  reported as unused. A compile error with a position becomes a finding where the selection has
  its code, as the shipped "all" does, although `checktool/lint.go:44-46` says that a
  compile error makes the run an error; the broken fixture's has no position. `mergeFindings` drops the
  community linter's own reports of stale directives on a line that any
  community rule calls mixed.
- Two `--write-baseline` commands at once: the later one writes from the file it
  read before the earlier one wrote (`main.go:106-113`, `main.go:180-187`).
  `RecordKeepsUnjudged` is therefore checked with one terminal.

## Assumptions

Besides the named ASSUMEs of the modules: files that tools report are relative to the
repository; connecting to an engine ends; a tool is not
changed between the moment it is handed to a check and its run; a command that
passes produces what its inputs determine; no edit restores an earlier version of
the sources while a stage runs; no write sets a file's time by hand.

## Not modelled, and the plan

The order of work was: the gate, the workspace, the scheduler and the result
cache; the memo and the stages; then the machines of the kinds of checks, and
the command around a run. All of that is there. What could come next:

1. `GoLint` over two packages, one of which a directive's file is moved to;
2. an abstract store of verdicts that `ResultCache` implements.

Left out: the enumeration of inputs from a listing and the comparisons of texts
of git change detection, release guard and doc checks, which are pure functions
of one git call; rendering and hints; the parsing of a tool's output and the
rewriting of its paths; the analyses of a syntax tree and the generation of Go
source for a linter; process groups and output buffers; scripts, SDK and
templates. They keep no state between calls and their properties are about
text. Parts that are modelled in part say what is missing in `PROJECT.json`.
