-------------------------------- MODULE Watch --------------------------------
(***************************************************************************)
(* The watch loop (internal/pipeline/watch.go) around the assess loop: a   *)
(* pass lists the SBOMs of BOMHort, hands every new or changed one to a    *)
(* pool of workers over an unbuffered channel, and remembers in a state    *)
(* file which version of which SBOM is done.  The process may be cancelled *)
(* or killed at any moment and is started again by its deployment.         *)
(*                                                                         *)
(* BOMHort is external: findings are matched and withdrawn, SBOMs are      *)
(* ingested again, and uploaded statements become visible later, all at    *)
(* any time, also between two requests of one run.                         *)
(***************************************************************************)
EXTENDS Assess

CONSTANTS
  Sbom,        \* SBOMs BOMHort may hold
  NoJob,       \* a worker waiting for the channel
  Upload,      \* WatchOptions.Upload
  SkipZero,    \* WatchOptions.SkipZero
  Reassess,    \* WatchOptions.ReassessAfter > 0
  Once,        \* WatchOptions.Once
  Churn,       \* SBOMs that may lose a finding without a new ingestion
  MaxChanges,  \* bound: changes on BOMHort's side
  MaxFaults    \* bound: failed requests, failed saves, cancellations, crashes

ASSUME QuestionAssumption == IsFiniteSet(Question)
ASSUME SbomAssumption == IsFiniteSet(Sbom)
ASSUME NoJobAssumption == NoJob \notin [sbom : Sbom, fp : [count : Nat, at : Nat]]
ASSUME BoundsAssumption == MaxChanges \in Nat /\ MaxFaults \in Nat
ASSUME SwitchAssumption ==
  {Upload, SkipZero, Reassess, Once} \subseteq BOOLEAN /\ Churn \subseteq Sbom

VARIABLES
  vulns,     \* findings BOMHort lists for each SBOM
  ingested,  \* ingested_at of each SBOM; 0 before it is there
  sent,      \* findings with a statement BOMHort has accepted
  vexed,     \* findings whose statement is visible as vex_status
  changes,   \* changes of BOMHort so far
  main,      \* where Watch stands
  mem,       \* WatchState.Processed in memory
  disk,      \* the state file
  todo,      \* SBOMs selected by the pass and not yet taken by a worker
  pool,      \* workers the pass has started
  job,       \* the listed SBOM each worker runs
  passErr,   \* some run of the pass failed
  cancelled, \* ctx is cancelled
  faults     \* faults so far

bomhortVars == <<vulns, ingested, sent, vexed, changes>>
loopVars    == <<main, mem, disk, todo, pool, job, passErr, cancelled>>
watchVars   == <<assessVars, bomhortVars, loopVars, faults>>

Stage == {"down", "list", "feed", "drain", "record", "sleep"}

Fp    == [count : Nat, at : Nat]
Never == [count |-> 0, at |-> 0]
Job   == [sbom : Sbom, fp : Fp]

\* Mutant: the open findings are counted instead of all.
fingerprintOpen(s) ==
  [count |-> Cardinality(vulns[s]) - Cardinality(vexed[s]), at |-> ingested[s]]

\* vuln_count@ingested_at, the only thing a pass sees of an SBOM's findings.
fingerprint(s) == [count |-> Cardinality(vulns[s]), at |-> ingested[s]]

WatchTypeOK ==
  /\ AssessTypeOK
  /\ vulns \in [Sbom -> SUBSET Question]
  /\ ingested \in [Sbom -> Nat]
  /\ sent \in [Sbom -> SUBSET Question]
  /\ vexed \in [Sbom -> SUBSET Question]
  /\ changes \in 0 .. MaxChanges
  /\ main \in Stage
  /\ mem \in [Sbom -> Fp] /\ disk \in [Sbom -> Fp]
  /\ todo \subseteq Job
  /\ pool \subseteq Worker
  /\ job \in [Worker -> Job \cup {NoJob}]
  /\ passErr \in BOOLEAN /\ cancelled \in BOOLEAN
  /\ faults \in 0 .. MaxFaults

WatchInit ==
  /\ AssessInit
  /\ vulns \in [Sbom -> SUBSET Question]
  /\ ingested \in [Sbom -> 0 .. 1]
  /\ \A s \in Sbom : ingested[s] = 0 => vulns[s] = {}
  /\ sent = [s \in Sbom |-> {}]
  /\ vexed = [s \in Sbom |-> {}]
  /\ changes = 0
  /\ main = "down"
  /\ mem = [s \in Sbom |-> Never] /\ disk = [s \in Sbom |-> Never]
  /\ todo = {} /\ pool = {}
  /\ job = [w \in Worker |-> NoJob]
  /\ passErr = FALSE /\ cancelled = FALSE
  /\ faults = 0

Fault == faults < MaxFaults /\ faults' = faults + 1

-----------------------------------------------------------------------------
(* BOMHort.                                                                *)

Change(s) ==
  /\ changes < MaxChanges
  /\ changes' = changes + 1
  /\ UNCHANGED <<sent, vexed, assessVars, loopVars, faults>>

\* Matching finds one more vulnerability in an SBOM.
Match(s) ==
  /\ ingested[s] > 0
  /\ \E q \in Question \ vulns[s] : vulns' = [vulns EXCEPT ![s] = @ \cup {q}]
  /\ UNCHANGED ingested
  /\ Change(s)

\* A finding is withdrawn (an advisory retracted, a range corrected).
Withdraw(s) ==
  /\ s \in Churn
  /\ \E q \in vulns[s] : vulns' = [vulns EXCEPT ![s] = @ \ {q}]
  /\ UNCHANGED ingested
  /\ Change(s)

\* The SBOM is ingested, for the first time or again.
Ingest(s) ==
  /\ \E qs \in SUBSET Question : vulns' = [vulns EXCEPT ![s] = qs]
  /\ ingested' = [ingested EXCEPT ![s] = @ + 1]
  /\ Change(s)

\* The ingestion job of an uploaded document applies its statements.
Apply(s) ==
  /\ sent[s] # vexed[s]
  /\ vexed' = [vexed EXCEPT ![s] = sent[s]]
  /\ UNCHANGED <<vulns, ingested, sent, changes, assessVars, loopVars, faults>>

-----------------------------------------------------------------------------
(* The pass: list, select, feed, drain.                                    *)

\* The state file is read when the process starts.
Start ==
  /\ main = "down"
  /\ main' = "list"
  /\ mem' = disk
  /\ cancelled' = FALSE
  /\ spent' = 0
  /\ UNCHANGED <<cache, runVars, bomhortVars, disk, todo, pool, job, passErr, faults>>

Listed == {s \in Sbom : ingested[s] > 0}

\* Selected for a run: unknown, changed, or due for another look; an SBOM
\* without findings is done without one.
Selected(due) == {s \in Listed : mem[s] # fingerprint(s) \/ s \in due}
Empty(s)      == SkipZero /\ vulns[s] = {}

Workers(n) == {P \in SUBSET Worker :
                 Cardinality(P) = IF n < Cardinality(Worker) THEN n ELSE Cardinality(Worker)}

\* Mutant: the budget is not reset.
ListUnfunded ==
  /\ main = "list" /\ ~cancelled
  /\ \E due \in SUBSET Listed :
       /\ ~Reassess => due = {}
       /\ mem' = [s \in Sbom |-> IF s \in Selected(due) /\ Empty(s) THEN fingerprint(s) ELSE mem[s]]
       /\ todo' = {[sbom |-> s, fp |-> fingerprint(s)] : s \in {t \in Selected(due) : ~Empty(t)}}
  /\ pool' \in Workers(Cardinality(todo'))
  /\ main' = "feed"
  /\ UNCHANGED <<assessVars, bomhortVars, disk, job, passErr, cancelled, faults>>

List ==
  /\ main = "list" /\ ~cancelled
  /\ \E due \in SUBSET Listed :
       /\ ~Reassess => due = {}
       /\ mem' = [s \in Sbom |-> IF s \in Selected(due) /\ Empty(s) THEN fingerprint(s) ELSE mem[s]]
       /\ todo' = {[sbom |-> s, fp |-> fingerprint(s)] : s \in {t \in Selected(due) : ~Empty(t)}}
  /\ pool' \in Workers(Cardinality(todo'))
  /\ main' = "feed"
  /\ spent' = 0
  /\ UNCHANGED <<cache, runVars, bomhortVars, disk, job, passErr, cancelled, faults>>

\* Listing fails before the budget is reset.
ListFails ==
  /\ main = "list"
  /\ \/ cancelled /\ UNCHANGED faults
     \/ Fault
  /\ main' = "record"
  /\ passErr' = TRUE
  /\ UNCHANGED <<assessVars, bomhortVars, mem, disk, todo, pool, job, cancelled>>

\* A worker that waits on the channel receives the next SBOM; a cancelled feed
\* may still hand one over, since select picks any ready case.
Take(w) ==
  /\ main = "feed" /\ w \in pool /\ job[w] = NoJob
  /\ \E t \in todo : job' = [job EXCEPT ![w] = t] /\ todo' = todo \ {t}
  /\ UNCHANGED <<assessVars, bomhortVars, main, mem, disk, pool, passErr, cancelled, faults>>

CloseQueue ==
  /\ main = "feed"
  /\ todo = {} \/ cancelled
  /\ main' = "drain"
  /\ todo' = {}
  /\ UNCHANGED <<assessVars, bomhortVars, mem, disk, pool, job, passErr, cancelled, faults>>

\* Mutant: the pass does not wait for its workers.
DrainedEarly ==
  /\ main = "drain"
  /\ main' = "record"
  /\ pool' = {}
  /\ passErr' = (passErr \/ cancelled)
  /\ UNCHANGED <<assessVars, bomhortVars, mem, disk, todo, job, cancelled, faults>>

\* wg.Wait returns: every worker has seen the closed channel.
Drained ==
  /\ main = "drain"
  /\ \A w \in pool : job[w] = NoJob
  /\ main' = "record"
  /\ pool' = {}
  /\ passErr' = (passErr \/ cancelled)
  /\ UNCHANGED <<assessVars, bomhortVars, mem, disk, todo, job, cancelled, faults>>

\* Mutant: a failed pass is tried again even when the watch is cancelled.
AfterPassRetrying ==
  /\ main = "record"
  /\ passErr' = FALSE
  /\ main' = IF Once THEN "down" ELSE "sleep"
  /\ disk' = mem
  /\ UNCHANGED <<assessVars, bomhortVars, mem, todo, pool, job, cancelled, faults>>

\* A failed pass of a cancelled watch returns at once, what it did since the
\* last save forgotten.  Otherwise the state is saved (temporary file, rename);
\* a failed save is logged.
AfterPass ==
  /\ main = "record"
  /\ passErr' = FALSE
  /\ IF passErr /\ cancelled
     THEN main' = "down" /\ UNCHANGED <<disk, faults>>
     ELSE /\ main' = IF Once THEN "down" ELSE "sleep"
          /\ \/ disk' = mem /\ UNCHANGED faults
             \/ Fault /\ UNCHANGED disk
  /\ UNCHANGED <<assessVars, bomhortVars, mem, todo, pool, job, cancelled>>

Wake ==
  /\ main = "sleep"
  /\ main' = "list"
  /\ UNCHANGED <<assessVars, bomhortVars, mem, disk, todo, pool, job, passErr, cancelled, faults>>

Stop ==
  /\ main = "sleep" /\ cancelled
  /\ main' = "down"
  /\ UNCHANGED <<assessVars, bomhortVars, mem, disk, todo, pool, job, passErr, cancelled, faults>>

-----------------------------------------------------------------------------
(* A worker: one Pipeline.Run after the other.                             *)

Running(w) == job[w] # NoJob

\* Findings without a visible statement, and those whose statement is stale.
Open(s, stale) == {q \in vulns[s] : q \notin vexed[s] \/ q \in stale}

Load(w) ==
  /\ Running(w) /\ ~cancelled
  /\ \E stale \in SUBSET Question :
       /\ ~Reassess => stale = {}
       /\ Begin(w, Open(job[w].sbom, stale))
  /\ UNCHANGED <<bomhortVars, loopVars, faults>>

LoadFails(w) ==
  /\ Running(w) /\ phase[w] = "idle"
  /\ \/ cancelled /\ UNCHANGED faults
     \/ Fault
  /\ phase' = [phase EXCEPT ![w] = "failed"]
  /\ UNCHANGED <<spent, cache, findings, left, current, answer, verdict, deferred,
                 bomhortVars, loopVars>>

RunLoop(w) ==
  /\ Running(w)
  /\ Loop(w)
  /\ UNCHANGED <<bomhortVars, loopVars, faults>>

\* The loop head sees ctx cancelled or the run's own timeout expired.
RunAborts(w) ==
  /\ Running(w)
  /\ Abort(w)
  /\ \/ cancelled /\ UNCHANGED faults
     \/ Fault
  /\ UNCHANGED <<bomhortVars, loopVars>>

Accept(w) == sent' = [sent EXCEPT ![job[w].sbom] = @ \cup Entries(w)]

\* The document is uploaded, unless uploads are off or it has no statements.
Deliver(w) ==
  /\ Running(w) /\ phase[w] = "built"
  /\ IF Upload /\ Entries(w) # {} THEN Accept(w) ELSE UNCHANGED sent
  /\ phase' = [phase EXCEPT ![w] = "delivered"]
  /\ UNCHANGED <<spent, cache, findings, left, current, answer, verdict, deferred,
                 vulns, ingested, vexed, changes, loopVars, faults>>

\* Writing, publishing or uploading fails; the upload may have arrived anyway.
DeliverFails(w) ==
  /\ Running(w) /\ phase[w] = "built"
  /\ \/ cancelled /\ UNCHANGED faults
     \/ Fault
  /\ UNCHANGED sent \/ (Upload /\ Accept(w))
  /\ phase' = [phase EXCEPT ![w] = "failed"]
  /\ UNCHANGED <<spent, cache, findings, left, current, answer, verdict, deferred,
                 vulns, ingested, vexed, changes, loopVars>>

Finish(w) ==
  /\ Leave(w)
  /\ job' = [job EXCEPT ![w] = NoJob]

\* Mutant: deferrals do not matter.
MarkAlways(w) ==
  /\ Running(w) /\ phase[w] = "delivered"
  /\ mem' = [mem EXCEPT ![job[w].sbom] = job[w].fp]
  /\ Finish(w)
  /\ UNCHANGED <<spent, cache, bomhortVars, main, disk, todo, pool, passErr, cancelled, faults>>

\* A run without deferrals marks the SBOM processed, in the version the pass
\* has listed it.
Mark(w) ==
  /\ Running(w) /\ phase[w] = "delivered"
  /\ mem' = IF deferred[w] = {}
            THEN [mem EXCEPT ![job[w].sbom] = job[w].fp]
            ELSE mem
  /\ Finish(w)
  /\ UNCHANGED <<spent, cache, bomhortVars, main, disk, todo, pool, passErr, cancelled, faults>>

\* Mutant: a worker whose run fails returns.
ReportExiting(w) ==
  /\ Running(w) /\ phase[w] = "failed"
  /\ passErr' = TRUE
  /\ Finish(w)
  /\ pool' = pool \ {w}
  /\ UNCHANGED <<spent, cache, bomhortVars, main, mem, disk, todo, cancelled, faults>>

\* A failed run leaves the SBOM as it was; the worker goes on.
Report(w) ==
  /\ Running(w) /\ phase[w] = "failed"
  /\ passErr' = TRUE
  /\ Finish(w)
  /\ UNCHANGED <<spent, cache, bomhortVars, main, mem, disk, todo, pool, cancelled, faults>>

-----------------------------------------------------------------------------
(* The process dies or is asked to stop.                                   *)

Cancel ==
  /\ main # "down" /\ ~cancelled
  /\ cancelled' = TRUE
  /\ Fault
  /\ UNCHANGED <<assessVars, bomhortVars, main, mem, disk, todo, pool, job, passErr>>

\* Memory is gone; the state file, the cache and BOMHort are not.
Crash ==
  /\ main # "down"
  /\ Fault
  /\ main' = "down"
  /\ phase' = [w \in Worker |-> "idle"]
  /\ findings' = [w \in Worker |-> {}] /\ left' = [w \in Worker |-> {}]
  /\ current' = [w \in Worker |-> None] /\ answer' = [w \in Worker |-> "absent"]
  /\ verdict' = [w \in Worker |-> NoVerdicts] /\ deferred' = [w \in Worker |-> {}]
  /\ job' = [w \in Worker |-> NoJob]
  /\ todo' = {} /\ pool' = {}
  /\ passErr' = FALSE
  /\ UNCHANGED <<spent, cache, bomhortVars, mem, disk, cancelled>>

-----------------------------------------------------------------------------
MainStep ==
  \/ Start \/ List \/ ListFails \/ CloseQueue \/ Drained \/ AfterPass \/ Wake \/ Stop

WorkerStep(w) ==
  \/ Take(w) \/ Load(w) \/ LoadFails(w) \/ RunLoop(w) \/ RunAborts(w)
  \/ Deliver(w) \/ DeliverFails(w) \/ Mark(w) \/ Report(w)

BomhortStep ==
  \E s \in Sbom : Match(s) \/ Withdraw(s) \/ Ingest(s) \/ Apply(s)

CacheStep == \E q \in Question : Expire(q) /\ UNCHANGED <<bomhortVars, loopVars, faults>>

WatchNext ==
  \/ MainStep
  \/ \E w \in Worker : WorkerStep(w)
  \/ BomhortStep
  \/ CacheStep
  \/ Cancel
  \/ Crash

\* The goroutines are scheduled, every request and provider call times out,
\* the deployment restarts the process, and BOMHort gets to its queue.
WatchFairness ==
  /\ WF_watchVars(MainStep)
  /\ \A w \in Worker : WF_watchVars(WorkerStep(w))
  /\ \A s \in Sbom : WF_watchVars(Apply(s))

WatchSpec == WatchInit /\ [][WatchNext]_watchVars /\ WatchFairness

-----------------------------------------------------------------------------
(* What the loop promises.                                                 *)

\* An SBOM that counts as processed in its present version, in memory or in
\* the state file, has no finding BOMHort was not sent a statement for: not
\* after a deferral, a failed upload, a crash, nor when findings appear while
\* the run is under way (watch.go:195-213, 83-85).  It takes a withdrawn
\* finding to bring a count back to what it was.
ProcessedIsCovered ==
  \A s \in Listed \ Churn :
    fingerprint(s) \in {mem[s], disk[s]} => vulns[s] \subseteq sent[s]

\* Two runs never work on one SBOM at once, in one pass or across passes: the
\* output file and the review branch of an SBOM have one writer
\* (watch.go:178-229).
OneRunPerSbom ==
  \A v, w \in Worker :
    Running(v) /\ Running(w) /\ job[v].sbom = job[w].sbom => v = w

\* Every pass ends: no worker is missing when the feed waits for one, and no
\* run waits for another (watch.go:178-229).
PassEnds == main = "feed" ~> main \in {"record", "down"}

\* Once BOMHort stops changing and requests stop failing, every finding of
\* every SBOM without withdrawn findings gets its statement, over however many
\* passes the budget takes, and whatever the other SBOMs claim of the budget
\* (watch.go:158-213, pipeline.go:388-430).
EventuallyCovered == \A s \in Sbom \ Churn : <>[](vulns[s] \subseteq vexed[s])

\* A cancelled watch stops, whatever its workers are doing (watch.go:126-145).
CancelStops == cancelled ~> main = "down"

\* Documented: the watcher "keep[s] every SBOM in BOMHort covered"
\* (README.md:68), those with withdrawn findings included.
EverySbomCovered == \A s \in Sbom : <>[](vulns[s] \subseteq vexed[s])

\* What all of this amounts to (Coverage): the watch answers findings, takes no
\* statement back, and counts a version of an SBOM as done, in memory or in the
\* state file, only if it has seen it and, should it be the present one, has
\* answered it; whatever it forgets in a crash (watch.go:83-85, 195-213).
C == INSTANCE Coverage WITH claimed <- [s \in Sbom |-> {mem[s], disk[s]}]

ImplementsCoverage == C!CoverageSpec
=============================================================================
