# VEXViper in TLA+

VEXViper reads the open vulnerability findings of SBOMs from a BOMHort instance, gathers
deterministic evidence about each of them, lets a provider (a language model or a set of rules)
assess it, puts the verdicts into an OpenVEX document under guardrails, and uploads the document
or publishes it for review. This directory holds TLA+ modules of its core, TLC configurations that
check them on small instances, and proofs that TLAPS checks for all instances. Paths of the form
`watch.go:83` are below `src/internal/`.

Contents: [inventory](#inventory), [plan](#plan), [modules](#modules),
[runs](#runs), [fairness](#fairness), [proofs](#proofs),
[disagreements](#where-code-and-documents-disagree), [not modelled](#what-is-not-modelled).

## Inventory

### Components, their state and operations

| Component | Source | State | Operations |
|---|---|---|---|
| watch loop | `pipeline/watch.go` | state file (SBOM → `vuln_count@ingested_at`), its copy in memory, queue of a pass | load state, list, select, feed, drain, save, sleep, stop |
| assess loop | `pipeline/pipeline.go` (`run`) | findings of a run, entries, deferral count | load, filter, look up, check budget, ask, store, build, deliver |
| spend budget | `llm/budget.go` | one meter per process | check, spend, reset |
| assessment cache | `assesscache/assesscache.go` | one file per question | get, put (temporary file and rename), expiry, pruning |
| providers | `llm/openai.go`, `copilot.go`, `mcptool.go`, `mock.go` | MCP session | assess, fall back to the rules |
| rules, normalisation, guardrails | `llm/heuristic.go`, `llm/llm.go`, `vexgen/vexgen.go` | none (functions); `vex.DefaultNamespace` under a lock | assess, normalise, validate, refuse, build |
| evidence | `evidence/evidence.go`, `ecosystem.go`, `rust.go` | none | collect: versions, depth, govulncheck, manifests, imports, symbols |
| lock graph | `evidence/lockgraph.go` | graph of a lockfile, queues of its searches | choose the lockfile, load, development-only verdict, paths |
| finding filter | `pipeline/pipeline.go` (`run`, `staleStatements`), `source/source.go` | findings and statements of an SBOM | load, merge duplicates and twins, drop answered and human ones, pick stale ones |
| git publisher | `gitops/gitops.go` | working copy, review branch, pull request | sync, branch, commit, push, ensure pull request |
| repository cache | `repo/repo.go` | checkouts per repository and commit, one lock per clone | clone, fetch, check out, stamp |
| upload verification | `pipeline/pipeline.go` (`Verify`, `WaitApplied`, `Wait`) | none | poll BOMHort against a deadline |
| metrics and health | `pipeline/metrics.go` | counters, time of the last pass | record, serve |
| MCP server | `mcpserver/server.go` | pipeline and budget shared by all requests | list, evidence, draft, generate, validate, upload |
| OSV client, SBOM parser, configuration, command line | `osv/`, `sbom/`, `config/`, `cmd/vexviper/` | cached records | fetch, parse, default, dispatch |
| BOMHort (external) | used through `bomhort-go` | SBOMs, findings, uploaded documents, statements | ingest, match, withdraw, accept an upload, apply it later |

### Interaction

A watch pass lists the SBOMs and hands those that changed, over an unbuffered channel, to a pool
of goroutines; each runs `Pipeline.Run`, one SBOM after the other. Runs share the budget, the
cache directory and the checkouts. They talk to BOMHort in separate requests: SBOM, findings,
statements, later the upload; BOMHort applies uploads in a job of its own. The pass waits for its
workers and then saves which version of which SBOM is done. Process, deployment and BOMHort may
each stop at any point; the state file, the cache files and BOMHort survive.

### What is hard, and what makes each part correct

* **Watch loop.** A mark "processed" is set after a run, for the version listed before it, while
  BOMHort goes on changing, and survives crashes; correct means that a mark is never set over an
  open finding (`ProcessedIsCovered`), that no two runs work on one SBOM (`OneRunPerSbom`), that a
  pass with an unbuffered channel and failing runs ends (`PassEnds`), that a cancelled one stops
  (`CancelStops`) and that small budgets and failures delay coverage but do not prevent it
  (`EventuallyCovered`).
* **Assess loop and budget.** The check of the meter and the charge are two statements with a
  remote call between them, in several goroutines: what the limit really limits (`SpendBounded`),
  that deferrals are justified (`DeferredOnlyWhenSpent`), and that a finding is not lost between
  cache, budget and provider (`NothingLost`).
* **Cache.** Nothing marks a question as being asked, writes may fail, entries may vanish; what is
  left of "not asked twice" (`AskedOncePerWorker`), and that a stored verdict is as good as a fresh
  one under changed options (`ReplayAgrees`).
* **Guardrails.** Nobody controls what a model answers. Every finding gets a valid statement
  (`EveryFindingStated`), none is taken off the list without a fact (`SuppressionIsBacked`), and
  the rules of one package satisfy the guardrails of the other (`HeuristicStands`).
* **Finding filter.** Rows of one vulnerability under several names merge, in an order nobody
  promises, and four options and two kinds of staleness choose among them: no verdict is lost
  (`VerdictsSurviveMerging`), twins are assessed once (`TwinsAssessedOnce`), a person's or a settled
  verdict is left alone (`SignedVerdictsLeftAlone`, `SettledVerdictsStay`), nothing due is left out
  (`DueRowsAreWorked`). A person may write a verdict while a run is under way: when the bot's may
  still win (`OverruledOnlyUnseen`).
* **Repository cache.** What says that a checkout is there is a directory git creates first; runs
  share checkouts, and a killed git leaves half of one. A run must read the version it asked for,
  whole, and file its answers under that commit (`CheckoutHolds`).
* **Git publisher.** One working copy for all products, a review branch rebuilt and pushed by force
  while people merge, close, amend and push. No run's leftovers go into another's review
  (`OwnFileOnly`), a document turned down stays out (`RejectedStaysOut`), a published document is
  under review until somebody acts on it (`ProposalStands`), what fails half way is completed later
  (`EveryRunDelivers`); the bot is not refused because of itself (`RefusedForReason`); and whatever happens in the working copy, those who look after the
  repository see documents come in one at a time, once, and nothing disappear (`ImplementsReview`).
* **Verification and health.** A status from before the upload is not proof of it
  (`ReportIsCurrent`); a watch that never finished a pass is reported as healthy
  (`metrics.go:173`), which nothing here depends on.
* **Lock graph.** The closure decides what is "strong": thirteen loaders, two searches with a
  cut-off, cycles, several roots, several lockfiles. A runtime dependency must not pass for a
  development one (`RuntimeIsNeverDevOnly`), nor the other way round (`DevOnlyIsFound`); the
  product's lockfile wins (`ShallowestWins`); paths are paths (`PathsAreShortest`), and a
  direct dependency that brings the package in is not left out of them (`NoRootIsPassedOver`).

`PROJECT.json` lists the hazards line by line, with the properties that cover them.

## Plan

| Step | Module | Models | Status |
|---|---|---|---|
| 1 | `Assess` | assess loop, budget, cache, providers' cost; N workers | done, proved |
| 2 | `AssessAudit` | `Assess` with histories: calls per question, unpaid calls | done, proved |
| 3 | `Watch` | watch loop, state file, pool, BOMHort; contains `Assess` | done, proved |
| 4 | `Evidence`, `Guardrails` | facts → items → verdict → statement, over runs | done, proved |
| 5 | `Collapse`, `Triage` | merging of rows, filter, stale statements, a person's verdict racing a run, wait and verification | done, proved |
| 6 | `LockGraph` | choice of the lockfile, what the loaders recover, development-only verdict, paths, against reachability by closed sets | done, proved but for `ScanEnds` (liveness; its safety half is) |
| 7 | `RepoCache` | checkouts shared by runs, failing and killed clones, the commit on record | done, proved |
| 8 | `Documents`, `GitOps`, `Delivery` | publish against a remote that people merge into, close, amend and push to; both ends of a run together, repeated and crashing | done, proved but for `EveryRunDelivers` (liveness; its safety half is) |
| 9 | `Coverage` | abstract specification of the watch; `Watch` refines it | done, proved |
| 10 | `Review` | abstract specification of publishing, as people see it; `Delivery` refines it | done, proved |
| 11 | | budget and provider identity of the MCP server and of stored fallback verdicts | open; see [not modelled](#what-is-not-modelled) |

No safety property of a passing run is without a theorem.

## Modules

### `Assess`

Workers run the loop of `Pipeline.run` side by side (`pipeline.go:388-430`). A *question* is an
`assesscache.Key`; two findings with equal keys are one question. One step per piece of the loop
that another worker can come in between: `Hit`/`Miss` (`Cache.Get`), `Defer`/`Ask`
(`Budget.Exceeded`), `Return` (`Provider.Assess` returns, `Budget.Spend`), `Keep` (`Cache.Put`,
entries), `Build`, and `Abort` for a context that is done. `spent` and `cache` are shared.
`Outcome` says what one `Assess` may cost and report, per provider: the OpenAI client makes up to
three attempts, the MCP tool reports no calls, an error of the primary turns into a free verdict
of the rules. Of the three limits `max_calls` is modelled; tokens and premium requests go through
the same two statements. The order in which a loop takes its findings is left open.

### `AssessAudit`

`Assess` with two history variables for questions the program's own state cannot answer: how often
a worker asked a question, and what an answer cost without being charged.

### `Watch`

`watch.go` around `Assess`. `main` is where `Watch` stands (`list`, `feed`, `drain`, `record`,
`sleep`, or `down`), `mem` and `disk` are `WatchState.Processed` in memory and in the file,
`todo` what the feed still has to hand over, `pool` and `job` the workers and the SBOM each runs.
`Take` is the rendezvous on the unbuffered channel. `Load`, `Deliver`, `DeliverFails`, `Mark` and
`Report` are the requests and the bookkeeping around the assess loop; an upload that fails may
have been accepted. `Cancel` is the signal context, `Crash` a kill; `Start` a start or restart.
`fingerprint` is a pair of a *count* and the ingestion time, as in the code. BOMHort is external:
`Match`, `Withdraw`, `Ingest`, and `Apply`, which makes an accepted document's statements visible.
Which SBOMs are due for another look (`reassess_after`) is left open whenever the switch is on;
clocks are not modelled.

### `Evidence`

Operators from facts to items, for `Collector.Collect` and `ecoScan.items`. A fact record is what
the scanners saw; how they see it (walking, parsing, matching) is not modelled. `npm`, `cargo` and
`composer` stand for ecosystems with reliable import names, `pypi` for those without, `other` for
packages without a scan. `osv_details` is left out, as no rule or guardrail reads it.

### `Guardrails`

One finding through any number of runs: `Ask` (provider or rules, normalised, stored), `Replay`
(from the store), `BuildStatement` (`vexgen.Build` for one entry: `Normalize`, `applyGuardrails`,
`Validate` and downgrade, `Statement.Validate`), `NextRun` under other options. Statuses and
justifications are canonical, misspelt or unknown, texts present or empty, confidences numbers in
percent. `ValidStatement` is go-vex's `Statement.Validate` (external). The loop's own handling of
a provider error is out of reach behind `WithFallback`, which every provider but the rules is
wrapped in.

### `Collapse`

The loop of `LoadSBOM` that turns the rows of a listing into findings (`source.go:127-190`), twice:
`LoadLoop` is the loop itself, over a sequence of rows and with the map `seen`; `Collapsed` is what
it may leave when the order of the rows is open: a largest set of rows without twins stays, every
other row goes to a twin of its, and a group takes its verdict from the row that stayed or, if that
has none, from one that has. `LoadRow` is one turn of the loop, `Loop` all of them as a recursive
function. That the first always ends in one of the second is proved for every listing (`LoopIsAllowed`) and
evaluated by the run `triage` for small ones (`LoopIsDescribed`); `Triage` uses the second.

### `Triage`

A run from `source.Load` to the report after `--wait`, for one SBOM, with any number of runners.
`said` is what BOMHort knows, `saw` what was in force when a runner loaded its `findings`, `work`
the ids that passed the filter, `doc` the document, `inbox` what BOMHort has accepted and not
ingested. `Load` and `Filter` are two steps, as the statements of an old gateway are a second
request (`pipeline.go:690-741`). What is answered and what the budget defers is any subset of
`work`; `Assess` and `Guardrails` say more. `Build` dates the document, `Upload` and `UploadFails`
deliver it, `SeeDocument` is the end of `Wait`, `Verify` one poll of `WaitApplied`, `Leave` any
end: no `--wait`, no upload, a deadline, a cancellation, an error. BOMHort is external: `InForce`
is the newest statement about an id or an alias, a gateway of the old kind lists one row per
statement without its time and author, `Say` is a statement by somebody else, `Ingest` takes in a
document as a whole. Time is counted in statements; two statements never share a moment unless
they are of one document.

### `LockGraph`

`scanEcosystem` over the lockfiles of one checkout, then `depGraph.devOnly` and `depGraph.pathsTo`. A
lockfile is a record of what the package manager resolved (`edges`, `flags` of every copy, `real` for
what is installed under an alias) and what the manifest declares (`runtime`, `dev`, `local` for what
the product's other packages need). `Resolved` is external: what package managers guarantee about such
a file (`Locked`) and which format has what (`Declared`). Each loader of `loadGraph` is an operator of
the same name from that record to the graph it comes back with: which roots it knows, whether they are
split, whether it has flags or edges. The scanning of text is left out; what it makes of a declaration
is not. Subsets of the needs say which ones

* it does not see: `tabled` and `tabledDev`, needs of either kind with a table of their own
  (`lockgraph.go:558`, 573, 687), as dotted keys, on the first line of an array that goes on
  (705-712), or of a gemspec, which the Gemfile does not name (909-932);
* it takes for the other kind: `spread`, run-time needs in what it takes for a development group (a
  group with `dev`, `test`, `lint` or `docs` somewhere in its name, `ecosystem.go:779-781`; any
  dependency group over several lines, where `isDev` is set anew on every line,
  `lockgraph.go:690-697`; what follows an array or a block whose end was not seen), and `strayed`,
  development needs under what it takes for a run-time heading (arrays and blocks again, 692-696,
  905-907; a gem's `group:` on a line of its own, 909-915);
* it lists more than once: `repeated`, needs in two groups or extras, which `pyRootFromManifest` keeps
  as often as they are declared (726-727);
* stand in a group of their own: `grouped`, which uv's loader takes for development as a whole
  (731-800), and Poetry's and Gradle's flags too;
* are not locked under their key: `hyphened` crates (see [below](#where-code-and-documents-disagree)).

`readRuntime`, `readDev` and `readDevOnly` are what is left for the readers of `Cargo.toml`,
`pyproject.toml` and the Gemfile. The other places are a workspace, a missing manifest, an unparsable
file, the flag of the last of several copies, and aliases in npm's, yarn's and pnpm's files. Names
that are no dependencies, which a reader may pick up from an array it did not see closed, are left
out. The closure that answers are judged by is that of the edges a lockfile lists between names:
versions of a package are one node, as in the code; peer dependencies are edges where the package
manager installs them and the code reads them, so not in yarn's files; optional ones of Poetry's are;
and build dependencies count as development's. `Read` is one turn of the loop over lockfiles,
`DevOnly` the three cases of `devOnly`, `Expand`, `Found` and `NotFound` the body of `reachableFrom`,
`PathsTo`, `NextStart`, `Walk`, `NoPath` those of `pathsTo` and `shortestPath`, with the order of Go
maps left open (`Orders`) and roots coming as often as they are listed (`Lists`). `Walk` records the
whole way to a package where the code keeps its last step; the limit of 20000 is compared before each
package, as in the code. The reference is `Reachable`, defined by closed sets instead of a search.

### `RepoCache`

`Cloner.Clone` as the runs of a process use it side by side, with the candidates of
`MaterializeRepo`. `tree` is what a checkout holds: nothing, something `torn`, the default branch,
or the version asked for. `Enter` takes the lock and looks at `.git`; `Cloned`, `Fetched`,
`CheckedOut` are commands that succeed, `OtherBranch`, `CloneFails`, `NotFetched`, `NotCheckedOut`
those that fail or are killed by their timeout, `DropClones` the end of the process or its context.
`stamp` is what `HeadCommit` reads. `marred` is a history variable.

### `Documents`, `GitOps`

`Documents` has the constants of what is published and where, and the documents and commits that
`GitOps` and `Review` speak of. In `GitOps`, `Publisher.Publish`, one command or request per action, under its mutex (`holder`). The remote has
a base, review branches and the state of the last pull request of each; the working copy has
`known` (how far `origin/base` reaches), the branch that is checked out, the index, and `jammed`, a
lock left by a git that was killed. `Sync` is fetch, reset, clean and the checkouts, which act on
the working copy alone and are undone by the next `Sync`; `SyncRefused` is a fetch that git refuses
(`Behind`) or a reset that meets the lock. `Push` rewrites the review branch, or appends to the
base if nothing has come in. `Find`, `Edit`, `Open` are the requests to GitHub. `PublishFails` ends
any step with an error, whether or not the remote carried it out. People are external: `Merge`,
`Close`, `Amend`, `Change`. `doc` is a document with its product and number, `handled` and
`rejected` are histories. Documents carry the time they were built (`vexgen.go:77-85`), so the
early return for equal content is never taken.

### `Delivery`

Composes `RepoCache` and `GitOps` as `Pipeline.run` does: checkout, (assessment), publishing,
upload; runs that fail begin again, as in the next pass; `Again` is another run for a product that
was delivered; `Crash` kills all of it. A run with `--git` off, or without statements, skips the
stages; their absence takes nothing from the others.

### `Coverage`

What the watch promises, without passes, workers, budget, cache or state file: findings come and
go, `Answer` adds statements, `Claim` counts versions of SBOMs as done, only ones that
have been seen and, if current, answered. `Watch` implements it with `claimed` as the versions in
memory and on disk (`ImplementsCoverage`, an `INSTANCE` at the end of `Watch`).

### `Review`

What publishing promises, without working copy, index, mutex, requests and crashes. The bot takes a
new document (`Draft`), makes it appear at once at the end of the base or alone on its branch
(`Publish`), asks for a review of what nobody has turned down (`Propose`), and reports as published
only what stands (`Report`, of which it may withdraw any at any time). People merge, close, amend
and change the base; their steps ask for less than those of `GitOps` do. `Delivery` implements it
(`ImplementsReview`, an `INSTANCE` at its end) with the commits of a review branch as `line`, the
numbers of documents as `drafts` and the documents of delivered runs as `claims`. `Review` has
properties of its own (`TurnedDownStaysOut`, `NothingTwice`, `BaseOnlyGrows`, `ReportsHold`), which
hold of everything that implements it.

### `MCAssess`, `MCWatch`, `MCGuardrails`, `MCTriage`, `MCLockGraph`, `MCDelivery`

Instances for TLC: symmetry sets, the finite sets of facts, answers, options, lockfiles and
candidates, the alias lists, and `LoopIsDescribed`.

## Runs

| Run | Instance | What it shows |
|---|---|---|
| `assess` | 2 workers, 2 questions, OpenAI-compatible provider, `max_calls` 2 | types; the overshoot is at most a full call per worker beyond the last one allowed; deferrals only on a spent budget; no finding lost; a worker asks a question once; runs end |
| `watch` | 2 workers, 2 SBOMs, 1 question, `max_calls` 1, re-assessment on, one change, one fault, cache entries failing and expiring at will | marks are never set over an open finding; one run per SBOM; every step is one of `Coverage` or a stutter |
| `watch_live` | 1 worker, 2 SBOMs, one of them losing findings, `skip_zero` on | passes end; a cancelled watch stops; what does not lose findings is covered |
| `guardrails` | 392 records of facts, 12 answers and failure, 4 settings | every finding stated; suppression backed by facts; rules stand; replay agrees |
| `triage` | 2 rows and a name of neither, 4 alias structures, 4 options, both gateways, 1 runner, 2 statements | no verdict lost in merging; twins once; a person's and settled verdicts left alone; nothing due left out; a report is about its upload; the bot wins over a person only by force or unseen |
| `lockgraph` | 4 packages: every graph for yarn, chain, diamond and cycle for all formats, switches and ways to misread a manifest, one alias, needs listed twice, pairs of lockfiles; limits of 3 and 4 packages, 2 paths | verdict against closure both ways; shallowest lockfile; paths, one from every root there is; the scan ends |
| `delivery` | 2 runs, checkouts by tag, by commit and without reference, shared in two ways; base commits and pull requests; 2 acts of people, 1 fault | checkouts whole and as asked for; one product per commit; rejected documents stay out; proposals stand; every step is one of `Review` or a stutter; every run delivers |
| `assess_paid`, `assess_twice`, `watch_covered`, `guardrails_reachable`, `triage_signed` | | the disagreements below, each as a counterexample |

**Bounds.** `MaxChanges` bounds changes of BOMHort, `MaxFaults` failed requests, failed saves,
cancellations and crashes; both cap counters in guards. Two workers and two SBOMs make every race
for the channel, the meter and a cache entry, and a second SBOM that shares a question with the
first; one change suffices for a finding that appears between listing and loading, or during a
run; one fault is enough for a crash or a failed upload between any two steps of the rest, and the
restart after it goes through a whole pass again. The proofs of the safety properties do not depend
on any of these bounds. The OpenAI-compatible provider is the instance of `assess` because it is
the only one where one call counts more than one attempt; `watch` takes Copilot, with one, to keep
its states few. In `guardrails` the facts vary one group of fields at a time (versions, govulncheck,
closure, import scan); the proof covers their product. The two safety runs of the loops
use symmetry; the liveness runs do not.

In `triage`, `MaxNow` bounds the statements: two are a verdict and the one that
replaces it, in either order of authors, and every interleaving of them with the steps of a run.
The alias lists are those that differ for two rows: none, mutual, one-sided, and through a third
name. `LoopIsDescribed` takes three ids, up to two aliases each, and listings of up to three rows
in every order.

The `watch_live` instance has `reassess_after` off: which SBOM is due is left to chance in the
model, and chance could choose the same findings for ever. It has one worker: fairness per worker
and the properties of a shared pool are safety questions, which `watch` answers.

In `lockgraph` four packages are a root, a way and a detour to the wanted package; they contain every
cycle of up to three. `Limit` is three, one below the number of packages, so that `reachableFrom` does
give up in some graphs. `PathLimit` is four and equals it: in the instance `shortestPath` is at the
boundary and never gives up, since what it comes to last is the wanted package (with a limit one
lower, `WalksLess`, it does, and loses paths); a limit of three would leave no room for a path that is
not the shortest. That no path is lost but by giving up, for any limit, is the theorem's
(`NoRootIsEverPassedOver`). `Repeats` is one further mention of a name. The package managers' switches
(workspace, manifest beside the file, flags, copies), aliases and what the readers misread are varied
for three graphs, as no loader looks at the shape of the graph. The proof is for any graph, limits and
number of repeats.

In `delivery`, `MaxPeople` is two, which is a close and what follows it, or a change of the base and
a merge; `MaxFaults` one fault in any place, or a second run for one product. `Depth` stands for 50
and is two, so that two acts of people put the working copy behind. The instance leaves out the
mode `branch` (a review branch without pull requests), which the proofs cover; it would be a third
of the states again for no new step.

Every property has at least one mutant in `PROJECT.json`: a change of one mapped definition, the
way a bug might make it, under which its run fails.

## Fairness

`AssessFairness` is weak fairness of each worker's loop: goroutines are scheduled, file operations
return, and every provider call has a timeout (the HTTP client's, `copilot.go` and `mcptool.go` by
context). Nothing is assumed of `Abort`, of beginning or of ending.

`WatchFairness` is weak fairness of the main goroutine's steps, of each worker's steps and of
`Apply` per SBOM. The first two are Go's scheduler and the request timeouts; the restart after a
crash or stop (`Start`) is the deployment's, which is a restart policy or a CronJob; `Apply` is
BOMHort working off its ingestion queue. No fairness is assumed of `Match`, `Withdraw`, `Ingest`,
`Expire`, `Cancel` and `Crash`, and none that lets a request succeed: that requests succeed again
comes from `MaxFaults`.

`DeliverySpec` has weak fairness of each run's steps: goroutines are scheduled, every git command of
a clone has a timeout (`repo.go:272-277`), those of the publisher end with the run's context, API
requests after 30 seconds (`gitops.go:316`), and the watch begins a failed run again in its next
pass. Nobody waits for ever at the mutex, since each
holder comes to its end (`NobodyHoldsAndWaits`, `RunsComeToAnEnd`). Nothing is assumed of
people. `Spec` of `LockGraph` has weak fairness of `Next`: it is one sequential computation.

## Proofs

All theorems are for every finite set of workers and questions, every limit and switch, and any
number of steps; they hold of the full specifications, unbounded or not.

* **`AssessProof`.** Types alone are not inductive: `Defer` puts the finding in hand into
  `deferred`, so `current` must be a question whenever the run is in `check`. `LoopInv` adds that
  the finding and the answer in hand agree with the phase. From it: `TypeCorrect`;
  `SpendIsBounded`, where the meter *plus a full call for each worker in a call* is the quantity
  that every step preserves (a worker that starts a call has seen the meter below the limit; one
  that returns charges no more than was set aside for it), with `Cardinality` lemmas for workers
  entering and leaving; `DeferralsAreJustified`, which rests on the meter being reset only when all
  workers are idle; `NothingIsLost`, a partition that every step keeps. `RunsWindDown` is the safety half of `RunsFinish`:
  for finitely many findings, the steps a run has ahead of it in its loop (`ToGo`) become fewer with
  each of its own and no more through anything else, an expired cache entry or a spent budget included.
* **`AuditProof`.** `NoWorkerAsksTwice`: with a cache that is on, read and never fails
  (`CacheWorks`), a question a worker has asked is in its hand or in the store. The assumption
  names what the property depends on. That entries do not expire is part of `AuditNext`.
* **`WatchProof`.** `WatchTypeCorrect` extends the loop's type argument to passes, crashes and
  restarts. `RunsAreExclusive` needs `PoolInv`: jobs and queue are disjoint, belong to workers of
  the pool, and there are none outside of `feed` and `drain`; the property is not inductive without
  the part about the queue. `ProcessedMeansCovered` needs `CoverInv`: for every version that a mark
  in memory, a mark on disk or a job under way stands for, either BOMHort has moved on, or the
  findings counted then are the ones there now; together with the run's partition this makes an
  undeferred run cover all of them. It assumes uploads on (`Upload`) and leaves out SBOMs that lose
  findings without a new ingestion (`Churn`), for which it is false; see below.
* **`GuardProof`.** What each stage does to an assessment (`NormalizeOnce`, `StatementValid`,
  `HeuristicVerdict`, `ReplyType`), what a strong item means in facts (`StrongIsExact`,
  `FixedMeansFixed`), and `GuardInv`, which says that the stored and the current assessment are
  what their answer gave, *before* guardrails. From these `GuardTypeCorrect`, `EveryFindingIsStated`,
  `SuppressionIsAlwaysBacked`, `HeuristicAlwaysStands` and `ReplayAlwaysAgrees`, for every
  confidence in the integers and every product of facts.

* **`TriageProof`.** `TriageInv` is types, no statement from the future, and a document for every
  runner that has built one; it gives `TriageTypeCorrect` and, with well-founded induction, that a
  newest statement exists. `CollapsedFindings` says what merging leaves, for every set of rows and
  every alias list. The choice is not inductive as it stands: `RunWell` says of a run that has
  *loaded* what its findings know of each row (`LoadedWell`), and `FilterIsWell` turns that into
  what the properties ask of a run that has *chosen* (`ChosenWell`). From it
  `VerdictsAreNotMergedAway`, `SignedVerdictsAreLeftAlone`, `SettledVerdictsAlwaysStay`,
  `TwinsAreAssessedOnce` and `DueRowsAreAlwaysWorked`. The two about signed and settled verdicts
  assume `Told`, a gateway that tells author and time, and twins that list the same names, the one
  about due rows the latter; without it a row may be answered by a twin that knows less.
  What happens after the choice rests on `MomentInv`: a moment belongs to one document or to one
  person, a document is ingested with all its statements at once, and an unforced document states
  nothing that its run saw signed. So a report that finds one statement of its document in BOMHort
  finds all of them or newer ones (`ReportIsAlwaysCurrent`), and a document that replaces a person's
  verdict is of a run that had loaded its findings before (`OverruledOnlyWhenUnseen`).
  `LoopIsAllowed` is about the code of the merging itself: for every listing, in every order of its
  rows and with any aliases, what the loop ends with is in `Collapsed`. `Described` says of the
  findings after some turns what `Collapsed` says of the rows they were made from, and
  `TurnKeepsDescription` that one turn keeps it, whether the row stands for itself (`RowStays`) or
  goes to a finding there is (`RowJoins`). There is no induction over sequences to be had from the
  library, as its theorems take an operator; so the theorem follows a set of numbers downwards: if
  some number of turns were not described, there were a least one (`LeastExists`), and the turn
  before it would break what one turn keeps.

* **How passes end**, in `WatchProof`. `PassesAdvance` is the safety half of `PassEnds`: the measure of
  a pass is whether it still feeds, how many SBOMs it has not handed out, and the number of steps
  ahead of the runs under way. The last counts a *set* of steps (`Steps`), so that one worker's step
  lowers it whatever the others do, and each run is ahead by at most four steps for every finding it
  has not reached (`Ahead`). Every step of the loop or of a run lowers the measure; BOMHort, the cache
  and a cancellation leave it as it is. It needs a listing to be finite (`SbomAssumption`).
  `FeedsAreTaken` adds what the unbuffered channel needs: as long as there are SBOMs to hand out,
  there is a worker of the pass to take them, as one that fails goes on with the next.

* **The refinement of `Coverage`**, at the end of `WatchProof`. `WatchCovers` maps every step of `WatchNext` to one of
  `Coverage` or a stutter: changes of BOMHort to themselves, an upload to `Answer`, marks, loads and
  saves of the state file to `Claim`, everything else to a stutter. `MayClaim` at a mark is where
  `CoverInv` is needed: the run's version is either not the present one or all its findings were
  sent. It assumes uploads on (`Upload`). `CoverageSuffices` derives `[]ProcessedIsCovered` from
  `ImplementsCoverage` alone, so the abstract specification says enough.
* **`LockGraphProof`.** Lemmas about `Reachable` (least closed set, monotone, distributes over union,
  indifferent to self-dependencies), one lemma per loader that puts what it recovers (`GraphOf`):
  flags that agree with the closure, or roots whose closure is it, or no claim. `SplitGraph` is what
  the loaders that answer by search have in common: a part `N` of the needs that is among the runtime
  roots and a part `U` of the development needs that is not known as such; what is behind `N` and not
  behind `U` is answered right, and `Misread` and `Unseen` are the rest. Nothing is assumed of which
  needs a reader misses, misjudges or repeats. The invariant `GraphInv` is that of a search:
  everything expanded has its dependencies expanded or queued, and everything seen or queued is
  reachable; when the queue is empty the seen set is closed, and otherwise it has `Limit` members.
  `DevOnlyIsSound`, `DevOnlyIsComplete`. `ShallowestAlwaysWins` needs only that every readable
  resolved lockfile gives a graph (`Readable`) and that what is left is the end of the checkout
  (`LeftInv`). `PathsAreAlwaysShortest` rests on `Ways`, the invariant of a breadth-first search: a
  way to whatever it has come to, a queue that goes from near to far and reaches at most one step
  beyond its head, and dependencies of everything done with within one step of it. `Near` concludes,
  by a least counterexample along a chain, that whatever is as near as the head has been come to;
  `WalkOn` is the step. The cap on packages looked at can lose a path, never lengthen one.
  `NoRootIsEverPassedOver` is the converse of a path being a path: `AskedInv` says that every root the
  walk is done with and from which the wanted package is reachable has given a path, unless its own
  search gave up; the walk over the roots stops early only when it has as many paths as were asked
  for. `EveryStepLeavesLess` gives a scan a measure: what is left to decide, and then what is left to
  search, where a search on a graph with cycles loses a package it has not come to, or an entry of its
  queue. The order on pairs of pairs of naturals is proved well-founded, so no scan has infinitely
  many steps. `TypeCorrect` adds the types.
* **`DeliveryProof`.** `GitInv` adds to the types that the index and the commits in hand are of one
  file (`TidyInv`: `Sync` empties the index, and between `Write` and the commit only the holder of
  the mutex writes to it) and that rejected documents are neither in the base nor on a branch nor in
  hand (`RejectInv`); the latter holds because branches restart from the base and numbers of
  documents are not used again. `CacheInv` says of a checkout that at most one run is in git there
  (`AloneInv`) and what its tree is between commands if nothing failed in it (`TreeInv`); `StageInv`
  ties runs to the mutex; `LookInv` says what is on the remote between push and pull request. From
  these `DeliveryTypeCorrect`, `CheckoutsHold`, `FilesStayApart`, `HistoryIsKept`, `RejectionHolds`,
  `ProposalsStand`, for any number of runs, products that share branches or files, any mode and any
  depth. `DeliveryImplementsReview` maps every step to one of `Review` or a stutter: the beginning of a
  publish to `Draft`, a push to `Publish`, also one whose answer is lost, opening to `Propose`, the
  end of a run to `Report`, local commands to stutters, a crash to whatever its last request did and
  the withdrawal of all reports not yet final. Beyond the invariants above it needs `ShapeInv`, that
  what is pushed is one commit with nothing but the latest document of the product. It is where
  `RejectInv` matters most: `Propose` may ask only for what is neither turned down nor merged, and
  the code pushes, looks up and opens in three requests with people in between.
  `RefusalsHaveReasons` says why a publish is refused: `ReasonInv` keeps, from the fetch to the push,
  that all commits beyond the one the copy was made from are people's, because the mutex is held
  for all of it, and, from the push to the pull request, that a branch that is gone is one people
  have dealt with. `RunsComeToAnEnd` is the safety half of `EveryRunDelivers`: the place of a run
  (stage, then candidates and commands left, or statements of Publish left) descends with each of
  its steps and is left alone by the steps of others; only a failure, a refusal, a crash or new
  findings take it back. `NobodyHoldsAndWaits`: who waits for a checkout or for the mutex waits for a
  run that waits for nothing, since the lock of a checkout is released before the mutex is sought.
* **`ReviewProof`.** `InOrder` is the invariant: nothing turned down in the base, what is open for
  review neither turned down nor merged, no document in two places, people's documents numbered. It
  is stated over the parts of a repository, so that one lemma per change (`OrderWithBranch`,
  `OrderAfterMerge`, `OrderAfterClose`, ...) serves bot and people alike. From it
  `NothingComesBack`, `NothingIsMergedTwice`, `BaseNeverShrinks` and `ReportsAreTrue`.
  `ReviewSuffices` (in `DeliveryProof`) takes these back through the refinement: what `Review` says
  is enough for `RejectedStaysOut`, `BaseKeepsHistory`, `ProposalStands` and for `NothingTwice`,
  which is nowhere stated of `GitOps` itself.

Constants' assumptions are named in the modules that declare them; TLC evaluates them in each run.
Only model-checked: the six liveness properties (`RunsFinish`, `PassEnds`, `EventuallyCovered`,
`CancelStops`, `ScanEnds`, `EveryRunDelivers`), since liveness under fairness and `ENABLED` are
beyond TLAPS. Of `RunsFinish`, `ScanEnds`, `PassEnds` and `EveryRunDelivers` the part that is safety is proved for every
instance: a measure that every step of the computation lowers (`RunsWindDown`, `EveryStepLeavesLess`,
`PassesAdvance`, `RunsComeToAnEnd`), so that what TLC adds is that some step is always there to be
taken, and that runs which fail come back. That no step is missing because of a lock or of the
channel is `NobodyHoldsAndWaits` and `FeedsAreTaken`.

## Where code and documents disagree

* **Attempts that fail are not counted** (`assess_paid`). `openai.go:114-115` says that every
  attempt counts. When the last attempt fails or cannot be parsed the usage is dropped with the
  assessment, the rules answer at cost zero, and a failing provider never exhausts the budget.
* **A question can be sent twice** (`assess_twice`). `assesscache.go:1-2` promises that identical
  questions are not; two workers that miss before either has stored both ask. Once per worker is
  what holds (`AskedOncePerWorker`).
* **An SBOM can stay uncovered** (`watch_covered`). `README.md:68` has the watcher keep every SBOM
  covered. The fingerprint counts findings: one withdrawn and one matched between two passes leave
  it as it was, and the new finding gets no statement until something else changes.
* **A call path is "strong"** (`guardrails_reachable`). `README.md:289-295` and
  `docs/INTEGRATION.md:239-250` list the items that support `not_affected`. The code accepts any
  strong item, and `govulncheck_reachable` is one: evidence that the vulnerable code *is* called
  lets a model's `not_affected` through. `SuppressionIsBacked` holds with this exception.

* **A person's verdict can be overruled** (`triage_signed`). `README.md:113-115` and the comment at
  `pipeline.go:342-343` say that a bot never overwrites it. The code looks at the author in the
  findings it has loaded; the document is dated when it is built, after all assessments
  (`vexgen.go:77-85`), so a verdict entered in between is the older one and gives way.
  `OverruledOnlyUnseen` holds: there is no other way but `--force`.

`SpendBounded` is worth knowing next to `README.md:164`, which says the budget *caps* a pass: it
can be overshot, by no more than the bound.

Without a run of their own, but visible in the modules as the exceptions their properties make:

* **The closure is not always exact** (`Misread`, `Unseen` and `GaveUp` in `LockGraph`).
  `lockgraph.go:26-28` and `README.md:325-328` call it exact. A run-time dependency can be said to be
  for development only (`Misread`):
  * *behind a crate with a hyphen* (or a capital). `parseCargoLock` keys packages by `crateKey`, with
    underscores, and leaves the names of the product's own needs as the file has them
    (`lockgraph.go:512`, 536), so `serde-json` in `Root` is no package of the graph: neither it nor
    what it brings in is found from there, and a development need that brings in the same makes it
    "dev".
  * *under an npm alias.* `parsePackageLock` takes names from paths and leaves `p.Name` alone (252,
    275-283), yarn's loader from the specifiers (349-352): a run-time copy under an alias does not
    count, and the plain copy of a development need speaks for the package. pnpm's roots and edges
    have aliases, its keys the packages' own names (429-447), so that what is needed under an alias
    has no edges; the same goes for packages from an address, whose keys `pnpmKeyName` does not take
    apart.
  * *in a group of its own.* uv's dependency groups, Poetry's flags without `"main"` and Gradle's
    configurations with `test` somewhere in their name (1131-1134) count as development's, whatever
    they are for. In `pyproject.toml` a group of another name is a run-time group on one line and a
    development group over several (690-697); a Gemfile's `group :attestation` is one for its name
    (`ecosystem.go:779-781`).
  * *in a table of its own* (`[dependencies.serde]`, `[tool.poetry.dependencies.x]`), which no reader
    of a manifest sees (558, 573, 687): one that is also a development dependency counts as one only,
    and Poetry's roots lack it altogether, as they lack the first item of an array that begins on the
    line of its key (705-712). Cargo's path dependencies outside a workspace become roots of the
    product, which its manifest does not name.
  * *of several copies* of a package Poetry's last one decides (605-653).

  A development dependency can be said to be needed at run time (`Unseen`): under an alias or behind a
  hyphen; in a table of its own (`[dev-dependencies.criterion]`,
  `[tool.poetry.group.dev.dependencies.x]`) or of a gemspec (868, 909-932), which leaves it among
  Cargo's and Bundler's run-time roots and out of Poetry's roots; in an array or a block after another
  whose end was not seen (692-696, 905-907). And a search gives up after 20000 packages and answers as
  if it had found nothing (154). The two properties except only packages behind such needs (in a pnpm
  file, any package once there is an alias), and TLC has an instance of each case: without any one of
  the exceptions the run fails. With several lockfiles the answer is the shallowest one's that has the
  package, whichever part of the product uses it.
* **A path may come twice.** `pathsTo` promises up to `max` paths from a direct dependency
  (`lockgraph.go:103`); a `pyproject.toml` that declares a package in two groups or extras has it in
  `Root` or `RootDev` twice (726-727), and the same path is given twice and counts twice towards the
  maximum. `PathsAreShortest` excepts such roots (`repeated`) and no others.
* **A working copy can be stuck for good** (`jammed`, `Behind` in `EveryRunDelivers`).
  `gitops.go:176` wants to "drop leftovers from an aborted run"; the lock file of a killed git is
  one that `reset` refuses to work with. And a shallow fetch without force is refused once the base
  has moved on by 50 commits since the last publish, in every later run, until somebody deletes the
  clone.
* **A checkout may not be what its name says** (`marred` in `CheckoutHolds`). Any failure of the
  clone of a tag, a network error too, is taken for a missing tag (`repo.go:249`), and the default
  branch stays in the tag's directory for good; a crash between clone and checkout of a commit does
  the same.
* **"Identical content produces no new commit"** (`docs/HOWTO-GITOPS.md:67`, 113). Every document
  carries the time it was built, so contents are never identical and each run commits.
* **A reviewer's commits are overwritten.** The branch is rebuilt and pushed by force; the code says
  so (`gitops.go:142-143`), and `RejectedStaysOut` rests on it. `ProposalStands` ends where people
  act on a branch (`handled`): a pull request closed between lookup and update is updated in its
  closed state, and one closed between push and lookup is opened again with the same document.

## What is not modelled

* **MCP server.** Its handlers call the modelled pipeline; its own state is the budget they share,
  which nothing resets: `Assess` without `NewPass` is that budget, and after it is spent everything
  is deferred.
* **Metrics and health.** Counters behind a lock, and `healthz` as a comparison of two times; its
  effect is a restart, which `Watch` allows at any moment. A first pass that never ends is reported
  as healthy.
* **Prompts, parsing of answers and SBOMs, file scans, the OSV client, configuration, command
  line.** Input, output and parsing without interleaving of their own; their results are inputs of
  the modules. The file limit of the import scan (`ecosystem.go:349`) belongs here: facts are what
  the scan saw.
* **Who answered a stored question.** A verdict of the rules after a failed call is stored under the
  provider's key (`pipeline.go:402-424`); `Assess` does not keep whose verdict an entry is.
* **Which id of a group `Only` may name** (`pipeline.go:358`) and **which of two verdicts is the
  newer when twins merge** (`source.go:181`): no document says; `Collapsed` allows each.
* Metadata, order and identifiers of a document, the names of files and branches (products whose
  names have one slug share a branch; the proofs allow for it), and the wording of commits. Clocks
  are abstracted to choice: expiry, timeouts and `reassess_after` may happen at any time the code
  allows.
