------------------------------ MODULE WatchProof ------------------------------
(***************************************************************************)
(* Proofs about the watch loop: for any number of SBOMs, workers and       *)
(* findings, of changes on BOMHort's side, and of failed requests and      *)
(* saves, cancellations and crashes.                                       *)
(***************************************************************************)
EXTENDS Watch, AssessProof, WellFoundedInduction

-----------------------------------------------------------------------------
(* Types, and the part of the invariant that comes from the assess loop.   *)

LoopPart == LoopInv /\ NothingLost

\* The steps of the watch loop that are steps of the assess loop, or leave it
\* alone.
LEMMA AssessPart ==
  ASSUME WatchTypeOK,
         \/ \E s \in Sbom : Match(s) \/ Withdraw(s) \/ Ingest(s) \/ Apply(s)
         \/ ListFails \/ CloseQueue \/ Drained \/ AfterPass \/ Wake \/ Stop
         \/ \E w \in Worker : Take(w) \/ Load(w) \/ RunLoop(w) \/ RunAborts(w)
         \/ CacheStep \/ Cancel \/ UNCHANGED watchVars
  PROVE  [AssessNext]_assessVars
<1>1. ASSUME NEW s \in Sbom, Match(s) \/ Withdraw(s) \/ Ingest(s) \/ Apply(s)
      PROVE  UNCHANGED assessVars
  BY <1>1 DEF Match, Withdraw, Ingest, Apply, Change
<1>2. ASSUME ListFails \/ CloseQueue \/ Drained \/ AfterPass \/ Wake \/ Stop
             \/ Cancel \/ UNCHANGED watchVars
      PROVE  UNCHANGED assessVars
  BY <1>2 DEF ListFails, CloseQueue, Drained, AfterPass, Wake, Stop, Cancel, watchVars
<1>3. ASSUME NEW w \in Worker, Take(w) PROVE UNCHANGED assessVars
  BY <1>3 DEF Take
<1>4. ASSUME NEW w \in Worker, Load(w) PROVE AssessNext
  <2>1. PICK stale \in SUBSET Question : Begin(w, Open(job[w].sbom, stale))
    BY <1>4 DEF Load
  <2>2. job[w].sbom \in Sbom
    BY <1>4, NoJobAssumption DEF Load, Running, WatchTypeOK, Job, Fp
  <2>3. Open(job[w].sbom, stale) \in SUBSET Question
    BY <2>2 DEF Open, WatchTypeOK
  <2> QED BY <2>1, <2>3 DEF AssessNext
<1>5. ASSUME NEW w \in Worker, RunLoop(w) \/ RunAborts(w) PROVE AssessNext
  BY <1>5 DEF RunLoop, RunAborts, AssessNext
<1>6. CacheStep => AssessNext
  BY DEF CacheStep, AssessNext
<1> QED BY <1>1, <1>2, <1>3, <1>4, <1>5, <1>6

\* The steps a run of the watch loop takes outside the assess loop.
LEMMA OutsidePart ==
  ASSUME LoopPart,
         \/ \E w \in Worker : LoadFails(w) \/ Deliver(w) \/ DeliverFails(w) \/ Mark(w) \/ Report(w)
         \/ Start \/ List \/ Crash
  PROVE  LoopPart'
<1> USE NoneAssumption
    DEF LoopPart, LoopInv, AssessTypeOK, RunsInOrder, NothingLost, Entries, InHand
<1>1. ASSUME NEW w \in Worker, LoadFails(w) \/ Deliver(w) \/ DeliverFails(w)
      PROVE  LoopPart'
  <2>1. /\ UNCHANGED <<spent, cache, findings, left, current, answer, verdict, deferred>>
        /\ phase[w] \in {"idle", "built"}
        /\ \E p \in {"failed", "delivered"} : phase' = [phase EXCEPT ![w] = p]
    BY <1>1 DEF LoadFails, Deliver, DeliverFails
  <2>2. PICK p \in {"failed", "delivered"} : phase' = [phase EXCEPT ![w] = p]
    BY <2>1
  <2>3. AssessTypeOK' /\ NothingLost'
    BY <2>1, <2>2 DEF Phase
  <2>4. \A v \in Worker \ {w} : phase'[v] = phase[v]
    BY <2>2
  <2>5. phase'[w] = p
    BY <2>2
  <2>6. RunsInOrder'
    BY <2>1, <2>4, <2>5
  <2> QED BY <2>3, <2>6
<1>2. ASSUME NEW w \in Worker, Mark(w) \/ Report(w) PROVE LoopPart'
  <2>1. Leave(w) /\ UNCHANGED <<spent, cache>> /\ phase[w] \in {"delivered", "failed"}
    BY <1>2 DEF Mark, Report, Finish
  <2>2. /\ findings[w]' = {} /\ left[w]' = {} /\ deferred[w]' = {} /\ current[w]' = None
        /\ verdict[w]' = NoVerdicts /\ phase[w]' = "idle" /\ answer[w]' = "absent"
    <3>1. current[w] = None /\ answer[w] = "absent"
      BY <2>1
    <3>2. UNCHANGED <<current, answer>>
      BY <2>1 DEF Leave
    <3> QED BY <2>1, <3>1, <3>2 DEF Leave
  <2>3. \A v \in Worker \ {w} :
          /\ findings[v]' = findings[v] /\ left[v]' = left[v] /\ deferred[v]' = deferred[v]
          /\ verdict[v]' = verdict[v] /\ phase[v]' = phase[v] /\ current[v]' = current[v]
          /\ answer[v]' = answer[v]
    BY <2>1 DEF Leave
  <2>4. NoVerdicts \in [Question -> Verdict]
    BY DEF NoVerdicts, Verdict
  <2>5. AssessTypeOK'
    BY <2>1, <2>4 DEF Leave, Phase
  <2>6. RunsInOrder'
    BY <2>2, <2>3
  <2>7. NothingLost'
    BY <2>2, <2>3 DEF NoVerdicts
  <2> QED BY <2>5, <2>6, <2>7
<1>3. CASE Start \/ List
  BY <1>3 DEF Start, List, runVars
<1>4. CASE Crash
  <2>1. NoVerdicts \in [Question -> Verdict]
    BY DEF NoVerdicts, Verdict
  <2>2. AssessTypeOK' /\ RunsInOrder'
    BY <1>4, <2>1 DEF Crash, Phase, Verdict
  <2>3. NothingLost'
    BY <1>4 DEF Crash, NoVerdicts
  <2> QED BY <2>2, <2>3
<1> QED BY <1>1, <1>2, <1>3, <1>4

\* The loop part holds on after every step of the watch loop.
LEMMA LoopPartStep ==
  ASSUME WatchTypeOK, LoopPart, [WatchNext]_watchVars
  PROVE  LoopPart'
<1>1. ASSUME [AssessNext]_assessVars PROVE LoopPart'
  BY <1>1, LoopInvStep, LossStep DEF LoopPart
<1>2. CASE UNCHANGED watchVars
  BY <1>1, <1>2, AssessPart
<1>3. CASE MainStep
  BY <1>1, <1>3, AssessPart, OutsidePart DEF MainStep
<1>4. ASSUME NEW w \in Worker, WorkerStep(w) PROVE LoopPart'
  BY <1>1, <1>4, AssessPart, OutsidePart DEF WorkerStep
<1>5. CASE BomhortStep
  BY <1>1, <1>5, AssessPart DEF BomhortStep
<1>6. CASE CacheStep \/ Cancel
  BY <1>1, <1>6, AssessPart
<1>7. CASE Crash
  BY <1>7, OutsidePart
<1> QED BY <1>2, <1>3, <1>4, <1>5, <1>6, <1>7 DEF WatchNext

-----------------------------------------------------------------------------
(* Types of the watch loop.                                                *)

BomhortType ==
  /\ vulns \in [Sbom -> SUBSET Question]
  /\ ingested \in [Sbom -> Nat]
  /\ sent \in [Sbom -> SUBSET Question]
  /\ vexed \in [Sbom -> SUBSET Question]
  /\ changes \in 0 .. MaxChanges

PassType ==
  /\ main \in Stage
  /\ mem \in [Sbom -> Fp] /\ disk \in [Sbom -> Fp]
  /\ todo \subseteq Job
  /\ pool \subseteq Worker
  /\ job \in [Worker -> Job \cup {NoJob}]
  /\ passErr \in BOOLEAN /\ cancelled \in BOOLEAN
  /\ faults \in 0 .. MaxFaults

LEMMA TypeParts == WatchTypeOK <=> AssessTypeOK /\ BomhortType /\ PassType
  BY DEF WatchTypeOK, BomhortType, PassType

LEMMA FingerprintType ==
  ASSUME BomhortType, NEW s \in Sbom
  PROVE  fingerprint(s) \in Fp /\ Cardinality(vulns[s]) \in Nat
  BY QuestionAssumption, FS_Subset, FS_CardinalityType DEF fingerprint, Fp, BomhortType

\* A worker that runs has a job, and its SBOM is one.
LEMMA RunningJob ==
  ASSUME PassType, NEW w \in Worker, Running(w)
  PROVE  job[w] \in Job /\ job[w].sbom \in Sbom /\ job[w].fp \in Fp
  BY DEF PassType, Running, Job

LEMMA EntriesType ==
  ASSUME AssessTypeOK, NEW w \in Worker
  PROVE  Entries(w) \subseteq Question /\ deferred[w] \subseteq Question
  BY DEF AssessTypeOK, Entries

LEMMA BomhortTypeStep ==
  ASSUME WatchTypeOK, [WatchNext]_watchVars
  PROVE  BomhortType'
<1> USE DEF BomhortType
<1>a. AssessTypeOK /\ BomhortType /\ PassType
  BY TypeParts
<1>b. MaxChanges \in Nat
  BY BoundsAssumption
<1>1. ASSUME UNCHANGED bomhortVars PROVE BomhortType'
  BY <1>1, <1>a DEF bomhortVars
<1>2. ASSUME NEW s \in Sbom, Match(s) \/ Withdraw(s) \/ Ingest(s) PROVE BomhortType'
  BY <1>2, <1>a, <1>b DEF Match, Withdraw, Ingest, Change
<1>3. ASSUME NEW s \in Sbom, Apply(s) PROVE BomhortType'
  BY <1>3, <1>a DEF Apply
<1>4. ASSUME NEW w \in Worker, Deliver(w) \/ DeliverFails(w) PROVE BomhortType'
  <2>1. job[w].sbom \in Sbom /\ Entries(w) \subseteq Question
    BY <1>4, <1>a, RunningJob, EntriesType DEF Deliver, DeliverFails
  <2> QED BY <1>4, <1>a, <2>1 DEF Deliver, DeliverFails, Accept
<1>5. CASE UNCHANGED watchVars
  BY <1>1, <1>5 DEF watchVars
<1>6. CASE MainStep
  BY <1>1, <1>6 DEF MainStep, Start, List, ListFails, CloseQueue, Drained, AfterPass, Wake, Stop
<1>7. ASSUME NEW w \in Worker, WorkerStep(w) PROVE BomhortType'
  BY <1>1, <1>4, <1>7 DEF WorkerStep, Take, Load, LoadFails, RunLoop, RunAborts, Mark, Report
<1>8. CASE CacheStep \/ Cancel \/ Crash
  BY <1>1, <1>8 DEF CacheStep, Cancel, Crash
<1> QED BY <1>2, <1>3, <1>5, <1>6, <1>7, <1>8 DEF WatchNext, BomhortStep

LEMMA PassTypeStep ==
  ASSUME WatchTypeOK, [WatchNext]_watchVars
  PROVE  PassType'
<1> USE DEF PassType
<1>a. AssessTypeOK /\ BomhortType /\ PassType
  BY TypeParts
<1>b. MaxFaults \in Nat
  BY BoundsAssumption
<1>1. ASSUME UNCHANGED <<loopVars, faults>> PROVE PassType'
  BY <1>1, <1>a DEF loopVars
<1>2. ASSUME UNCHANGED loopVars, faults' \in 0 .. MaxFaults PROVE PassType'
  BY <1>2, <1>a DEF loopVars
<1>3. CASE List
  <2>1. mem' \in [Sbom -> Fp]
    BY <1>3, <1>a, FingerprintType DEF List
  <2>2. todo' \subseteq Job
    BY <1>3, FingerprintType, <1>a DEF List, Selected, Listed, Job
  <2>3. pool' \subseteq Worker
    BY <1>3 DEF List, Workers
  <2> QED BY <1>3, <1>a, <2>1, <2>2, <2>3 DEF List, Stage
<1>4. CASE Start \/ ListFails \/ CloseQueue \/ Drained \/ AfterPass \/ Wake \/ Stop
  <2>1. CASE ListFails
    BY <2>1, <1>a, <1>b DEF ListFails, Fault, Stage
  <2>2. CASE AfterPass
    <3>1. faults' \in 0 .. MaxFaults
      BY <2>2, <1>a, <1>b DEF AfterPass, Fault
    <3>2. main' \in Stage /\ disk' \in [Sbom -> Fp]
      BY <2>2, <1>a DEF AfterPass, Stage
    <3> QED BY <2>2, <1>a, <3>1, <3>2 DEF AfterPass
  <2>3. CASE Start \/ CloseQueue \/ Wake \/ Stop
    BY <2>3, <1>a DEF Start, CloseQueue, Wake, Stop, Stage
  <2>4. CASE Drained
    <3>1. passErr' \in BOOLEAN
      BY <2>4, <1>a DEF Drained
    <3> QED BY <2>4, <1>a, <3>1 DEF Drained, Stage
  <2> QED BY <1>4, <2>1, <2>2, <2>3, <2>4
<1>5. ASSUME NEW w \in Worker, Take(w) PROVE PassType'
  BY <1>5, <1>a DEF Take
<1>6. ASSUME NEW w \in Worker, Mark(w) PROVE PassType'
  <2>1. job[w].sbom \in Sbom /\ job[w].fp \in Fp
    BY <1>6, <1>a, RunningJob DEF Mark
  <2> QED BY <1>6, <1>a, <2>1 DEF Mark, Finish
<1>7. ASSUME NEW w \in Worker, Report(w) PROVE PassType'
  BY <1>7, <1>a DEF Report, Finish
<1>8. ASSUME NEW w \in Worker, LoadFails(w) \/ RunAborts(w) \/ DeliverFails(w) PROVE PassType'
  BY <1>2, <1>8, <1>a, <1>b DEF LoadFails, RunAborts, DeliverFails, Fault
<1>9. ASSUME NEW w \in Worker, Load(w) \/ RunLoop(w) \/ Deliver(w) PROVE PassType'
  BY <1>1, <1>9 DEF Load, RunLoop, Deliver
<1>10. CASE BomhortStep \/ CacheStep
  BY <1>1, <1>10 DEF BomhortStep, CacheStep, Match, Withdraw, Ingest, Apply, Change
<1>11. CASE Cancel \/ Crash
  <2>1. faults' \in 0 .. MaxFaults
    BY <1>11, <1>a, <1>b DEF Cancel, Crash, Fault
  <2>2. CASE Cancel
    BY <2>1, <2>2, <1>a DEF Cancel
  <2>3. CASE Crash
    BY <2>1, <2>3, <1>a DEF Crash, Stage
  <2> QED BY <1>11, <2>2, <2>3
<1>12. CASE UNCHANGED watchVars
  BY <1>1, <1>12 DEF watchVars
<1> QED BY <1>3, <1>4, <1>5, <1>6, <1>7, <1>8, <1>9, <1>10, <1>11, <1>12
        DEF WatchNext, MainStep, WorkerStep

LEMMA WatchTypeStep ==
  ASSUME WatchTypeOK, LoopPart, [WatchNext]_watchVars
  PROVE  WatchTypeOK' /\ LoopPart'
  BY LoopPartStep, BomhortTypeStep, PassTypeStep
     DEF LoopPart, LoopInv, WatchTypeOK, BomhortType, PassType

LEMMA WatchInitParts == WatchInit => WatchTypeOK /\ LoopPart
<1> SUFFICES ASSUME WatchInit PROVE WatchTypeOK /\ LoopPart
  OBVIOUS
<1>1. LoopInv
  BY LoopInit DEF WatchInit
<1>2. NothingLost
  BY DEF WatchInit, AssessInit, NothingLost, Entries, InHand, NoVerdicts
<1>3. BomhortType
  BY BoundsAssumption DEF WatchInit, BomhortType
<1>4. PassType
  <2>1. Never \in Fp
    BY DEF Never, Fp
  <2>2. main \in Stage /\ faults \in 0 .. MaxFaults
    BY BoundsAssumption DEF WatchInit, Stage
  <2> QED BY <2>1, <2>2 DEF WatchInit, PassType
<1> QED BY <1>1, <1>2, <1>3, <1>4, TypeParts DEF LoopPart, LoopInv

\* The watch loop is well formed in every reachable state, and its runs
\* account for their findings as the assess loop alone does.
THEOREM WatchTypeCorrect == WatchSpec => [](WatchTypeOK /\ LoopPart)
  BY WatchInitParts, WatchTypeStep, PTL DEF WatchSpec

-----------------------------------------------------------------------------
(* One run per SBOM.  That no two workers have the same SBOM is not        *)
(* inductive: it also needs that a pass hands out every SBOM once, and     *)
(* that nobody is left running when the next pass begins.                  *)

PoolInv ==
  /\ \A w \in Worker :
       /\ phase[w] # "idle" => Running(w)
       /\ Running(w) => w \in pool
  /\ pool # {} => main \in {"feed", "drain"}
  /\ todo # {} => main = "feed"
  /\ \A t, u \in todo : t.sbom = u.sbom => t = u
  /\ \A w \in Worker, t \in todo : Running(w) => job[w].sbom # t.sbom

LEMMA PoolStep ==
  ASSUME WatchTypeOK, LoopPart, PoolInv, OneRunPerSbom, [WatchNext]_watchVars
  PROVE  PoolInv' /\ OneRunPerSbom'
<1> USE DEF PoolInv, OneRunPerSbom, Running
<1>a. /\ phase \in [Worker -> Phase] /\ job \in [Worker -> Job \cup {NoJob}]
      /\ todo \subseteq Job /\ pool \subseteq Worker /\ main \in Stage
  BY DEF WatchTypeOK, AssessTypeOK
<1>1. ASSUME UNCHANGED <<phase, job, pool, todo, main>> PROVE PoolInv' /\ OneRunPerSbom'
  BY <1>1
<1>2. ASSUME NEW w \in Worker, Running(w), \E p \in Phase : phase' = [phase EXCEPT ![w] = p],
             UNCHANGED <<job, pool, todo, main>>
      PROVE  PoolInv' /\ OneRunPerSbom'
  BY <1>2, <1>a
<1>3. CASE List
  <2>1. pool = {} /\ todo = {} /\ main' = "feed" /\ UNCHANGED <<phase, job>>
    BY <1>3 DEF List, runVars
  <2>2. \A w \in Worker : ~Running(w) /\ phase[w] = "idle"
    BY <2>1
  <2>3. \A t, u \in todo' : t.sbom = u.sbom => t = u
    BY <1>3 DEF List
  <2> QED BY <2>1, <2>2, <2>3
<1>4. CASE Start \/ Wake \/ Stop \/ ListFails \/ AfterPass
  BY <1>4 DEF Start, Wake, Stop, ListFails, AfterPass, runVars, assessVars
<1>5. CASE CloseQueue
  BY <1>5 DEF CloseQueue, assessVars, runVars
<1>6. CASE Drained
  BY <1>6 DEF Drained, assessVars, runVars
<1>7. ASSUME NEW w \in Worker, Take(w) PROVE PoolInv' /\ OneRunPerSbom'
  <2>1. PICK t \in todo : job' = [job EXCEPT ![w] = t] /\ todo' = todo \ {t}
    BY <1>7 DEF Take
  <2>2. UNCHANGED <<phase, pool, main>> /\ w \in pool /\ main = "feed"
    BY <1>7 DEF Take, assessVars, runVars
  <2>3. job'[w] = t /\ \A v \in Worker \ {w} : job'[v] = job[v]
    BY <2>1, <1>a
  <2>4. PoolInv'
    BY <2>1, <2>2, <2>3, NoJobAssumption, <1>a DEF Job, Fp
  <2>5. OneRunPerSbom'
    BY <2>1, <2>3
  <2> QED BY <2>4, <2>5
<1>8. ASSUME NEW w \in Worker, Mark(w) \/ Report(w) PROVE PoolInv' /\ OneRunPerSbom'
  <2>1. /\ phase' = [phase EXCEPT ![w] = "idle"] /\ job' = [job EXCEPT ![w] = NoJob]
        /\ UNCHANGED <<pool, todo, main>>
    BY <1>8 DEF Mark, Report, Finish, Leave
  <2>2. phase'[w] = "idle" /\ job'[w] = NoJob
    BY <2>1, <1>a
  <2>3. \A v \in Worker \ {w} : phase'[v] = phase[v] /\ job'[v] = job[v]
    BY <2>1, <1>a
  <2> QED BY <2>1, <2>2, <2>3
<1>9. ASSUME NEW w \in Worker, Load(w) PROVE PoolInv' /\ OneRunPerSbom'
  BY <1>2, <1>9 DEF Load, Begin, loopVars, Phase
<1>10. ASSUME NEW w \in Worker, LoadFails(w) \/ Deliver(w) \/ DeliverFails(w)
       PROVE  PoolInv' /\ OneRunPerSbom'
  BY <1>2, <1>10 DEF LoadFails, Deliver, DeliverFails, loopVars, Phase
<1>11. ASSUME NEW w \in Worker, RunLoop(w) \/ RunAborts(w) PROVE PoolInv' /\ OneRunPerSbom'
  <2>1. Running(w) /\ UNCHANGED <<job, pool, todo, main>>
    BY <1>11 DEF RunLoop, RunAborts, loopVars
  <2>2. UNCHANGED phase \/ \E p \in Phase : phase' = [phase EXCEPT ![w] = p]
    BY <1>11 DEF RunLoop, RunAborts, Loop, Hit, Miss, Defer, Ask, Keep, Build, Return, Abort, Phase
  <2> QED BY <1>1, <1>2, <2>1, <2>2
<1>12. CASE BomhortStep \/ CacheStep \/ Cancel
  BY <1>1, <1>12 DEF BomhortStep, CacheStep, Cancel, Match, Withdraw, Ingest, Apply, Change,
                     Expire, assessVars, runVars, loopVars
<1>13. CASE Crash
  BY <1>13 DEF Crash
<1>14. CASE UNCHANGED watchVars
  BY <1>1, <1>14 DEF watchVars, assessVars, runVars, loopVars
<1> QED BY <1>3, <1>4, <1>5, <1>6, <1>7, <1>8, <1>9, <1>10, <1>11, <1>12, <1>13, <1>14
        DEF WatchNext, MainStep, WorkerStep

LEMMA WatchPool == WatchSpec => [](WatchTypeOK /\ LoopPart /\ PoolInv /\ OneRunPerSbom)
<1>1. WatchInit => PoolInv /\ OneRunPerSbom
  BY DEF WatchInit, AssessInit, PoolInv, OneRunPerSbom, Running
<1> QED BY <1>1, WatchInitParts, WatchTypeStep, PoolStep, PTL DEF WatchSpec

\* No two runs of the watch loop ever work on the same SBOM, not across
\* passes, failures, cancellations or restarts either.
THEOREM RunsAreExclusive == WatchSpec => []OneRunPerSbom
  BY WatchPool, PTL

-----------------------------------------------------------------------------
(* Deferrals.  The meter is reset between passes only, when nobody runs.   *)

LEMMA WatchDeferStep ==
  ASSUME WatchTypeOK, LoopPart, PoolInv, DeferredOnlyWhenSpent, [WatchNext]_watchVars
  PROVE  DeferredOnlyWhenSpent'
<1>a. deferred \in [Worker -> SUBSET Question] /\ spent \in Nat
  BY DEF WatchTypeOK, AssessTypeOK
<1>1. ASSUME [AssessNext]_assessVars PROVE DeferredOnlyWhenSpent'
  BY <1>1, DeferStep DEF LoopPart
<1>2. ASSUME UNCHANGED <<spent, deferred>> PROVE DeferredOnlyWhenSpent'
  BY <1>2 DEF DeferredOnlyWhenSpent, Exceeded
<1>3. CASE Start \/ List
  <2>1. pool = {}
    BY <1>3 DEF Start, List, PoolInv
  <2>2. \A w \in Worker : deferred[w] = {}
    BY <2>1 DEF PoolInv, LoopPart, LoopInv, RunsInOrder
  <2> QED BY <1>3, <2>2 DEF Start, List, runVars, DeferredOnlyWhenSpent
<1>4. ASSUME NEW w \in Worker, LoadFails(w) \/ Deliver(w) \/ DeliverFails(w)
      PROVE  DeferredOnlyWhenSpent'
  BY <1>2, <1>4 DEF LoadFails, Deliver, DeliverFails
<1>5. ASSUME NEW w \in Worker, Mark(w) \/ Report(w) PROVE DeferredOnlyWhenSpent'
  BY <1>5, <1>a DEF Mark, Report, Finish, Leave, DeferredOnlyWhenSpent, Exceeded
<1>6. CASE Crash
  BY <1>6 DEF Crash, DeferredOnlyWhenSpent
<1>7. CASE MainStep
  BY <1>1, <1>3, <1>7, AssessPart DEF MainStep
<1>8. ASSUME NEW w \in Worker, WorkerStep(w) PROVE DeferredOnlyWhenSpent'
  BY <1>1, <1>4, <1>5, <1>8, AssessPart DEF WorkerStep
<1>9. CASE BomhortStep \/ CacheStep \/ Cancel \/ UNCHANGED watchVars
  BY <1>1, <1>9, AssessPart DEF BomhortStep
<1> QED BY <1>6, <1>7, <1>8, <1>9 DEF WatchNext

\* In the watch loop, too, a finding is only left open when the money of the
\* pass is gone, for as long as the run that left it is under way.
THEOREM WatchDeferralsAreJustified == WatchSpec => []DeferredOnlyWhenSpent
<1>1. WatchInit => DeferredOnlyWhenSpent
  BY DEF WatchInit, AssessInit, DeferredOnlyWhenSpent
<1> QED BY <1>1, WatchPool, WatchDeferStep, PTL DEF WatchSpec

-----------------------------------------------------------------------------
(* The safety half of PassEnds: no pass goes on for ever.                  *)

Less == OpToRel(<, Nat)
Pair == Nat \X Nat
Sooner == LexPairOrdering(LexPairOrdering(Less, Less, Nat, Nat), Less, Pair, Nat)

\* An upper bound on the steps a run is away from its end: four for every
\* finding it has not reached, and those of the finding in hand.
Rank(p, n) ==
  CASE p = "idle" -> 4 * Cardinality(Question) + 4
    [] p = "next" -> 4 * n + 3
    [] p = "check" -> 4 * n + 6 [] p = "asking" -> 4 * n + 5 [] p = "answered" -> 4 * n + 4
    [] p = "built" -> 2 [] OTHER -> 1
Ahead(w) == IF Running(w) THEN Rank(phase[w], Cardinality(left[w])) ELSE 0
Most     == 4 * Cardinality(Question) + 6

\* The steps ahead of all runs together, as a set.
StepsOf(f) == {p \in Worker \X (1 .. Most) : p[2] <= f[p[1]]}
Steps      == StepsOf([w \in Worker |-> Ahead(w)])

\* What is left of a pass: whether it still feeds its workers, the SBOMs it has
\* not handed out, and the steps ahead of the runs under way.
PassRest ==
  <<<<IF main = "feed" THEN 1 ELSE 0, Cardinality(todo)>>, Cardinality(Steps)>>

Passing == main \in {"feed", "drain"}

PassAdvances ==
  Passing =>
    \/ ~Passing'
    \/ <<PassRest', PassRest>> \in Sooner
    \/ UNCHANGED <<main, todo, job, phase, left>>

LEMMA SoonerIsWellFounded == IsWellFoundedOn(Sooner, Pair \X Nat)
<1>1. IsWellFoundedOn(Less, Nat)
  BY NatLessThanWellFounded DEF Less
<1> QED BY <1>1, WFLexPairOrdering DEF Sooner, Pair

LEMMA LessThan ==
  ASSUME NEW m \in Nat, NEW n \in Nat, m < n
  PROVE  <<m, n>> \in Less
<1>1. <<m, n>> \in Nat \X Nat /\ <<m, n>>[1] < <<m, n>>[2]
  OBVIOUS
<1> QED BY <1>1, Zenon DEF Less, OpToRel

LEMMA SoonerThan ==
  ASSUME NEW a \in Nat, NEW b \in Nat, NEW c \in Nat,
         NEW d \in Nat, NEW e \in Nat, NEW f \in Nat,
         d < a \/ (d = a /\ e < b) \/ (d = a /\ e = b /\ f < c)
  PROVE  <<<<<<d, e>>, f>>, <<<<a, b>>, c>>>> \in Sooner
<1>1. CASE d < a \/ (d = a /\ e < b)
  <2>1. <<<<d, e>>, <<a, b>>>> \in LexPairOrdering(Less, Less, Nat, Nat)
    BY <1>1, LessThan DEF LexPairOrdering
  <2> QED BY <2>1 DEF Sooner, LexPairOrdering, Pair
<1>2. CASE d = a /\ e = b /\ f < c
  BY <1>2, LessThan DEF Sooner, LexPairOrdering, Pair
<1> QED BY <1>1, <1>2

\* There are fewer steps ahead when one run has come nearer its end.
LEMMA FewerSteps ==
  ASSUME NEW f \in [Worker -> 0 .. Most]
  PROVE  /\ Cardinality(StepsOf(f)) \in Nat
         /\ \A g \in [Worker -> 0 .. Most], w \in Worker :
              g[w] < f[w] /\ (\A v \in Worker \ {w} : g[v] = f[v]) =>
                Cardinality(StepsOf(g)) < Cardinality(StepsOf(f))
<1>1. Cardinality(Question) \in Nat /\ Most \in Nat
  BY QuestionAssumption, FS_CardinalityType DEF Most
<1>2. IsFiniteSet(Worker \X (1 .. Most))
  <2>1. IsFiniteSet(1 .. Most)
    BY <1>1, FS_Interval
  <2> QED BY <2>1, WorkerAssumption, FS_Product
<1>3. \A h : IsFiniteSet(StepsOf(h)) /\ Cardinality(StepsOf(h)) \in Nat
  <2>1. \A h : StepsOf(h) \subseteq Worker \X (1 .. Most)
    BY DEF StepsOf
  <2>2. \A h : IsFiniteSet(StepsOf(h))
    BY <1>2, <2>1, FS_Subset
  <2> QED BY <2>2, FS_CardinalityType
<1>4. ASSUME NEW g \in [Worker -> 0 .. Most], NEW w \in Worker, g[w] < f[w],
             \A v \in Worker \ {w} : g[v] = f[v]
      PROVE  Cardinality(StepsOf(g)) < Cardinality(StepsOf(f))
  <2>1. \A v \in Worker : g[v] <= f[v] /\ g[v] \in 0 .. Most /\ f[v] \in 0 .. Most
    BY <1>1, <1>4
  <2>2. StepsOf(g) \subseteq StepsOf(f)
    <3> SUFFICES ASSUME NEW p \in StepsOf(g) PROVE p \in StepsOf(f)
      OBVIOUS
    <3>1. p \in Worker \X (1 .. Most) /\ p[2] <= g[p[1]] /\ p[1] \in Worker /\ p[2] \in 1 .. Most
      BY DEF StepsOf
    <3>2. p[2] <= f[p[1]]
      BY <1>1, <2>1, <3>1
    <3> QED BY <3>1, <3>2 DEF StepsOf
  <2>3. <<w, f[w]>> \in StepsOf(f) /\ <<w, f[w]>> \notin StepsOf(g)
    <3>1. f[w] \in 1 .. Most /\ ~(f[w] <= g[w])
      BY <1>1, <1>4, <2>1
    <3> QED BY <3>1 DEF StepsOf
  <2>4. Cardinality(StepsOf(g)) <= Cardinality(StepsOf(f)) /\ Cardinality(StepsOf(g)) # Cardinality(StepsOf(f))
    BY <1>3, <2>2, <2>3, FS_Subset
  <2> QED BY <1>3, <2>4
<1> QED BY <1>3, <1>4

LEMMA AheadType ==
  ASSUME WatchTypeOK
  PROVE  \A w \in Worker : /\ Cardinality(left[w]) \in Nat
                           /\ Cardinality(left[w]) <= Cardinality(Question)
                           /\ Ahead(w) \in 0 .. Most
<1> SUFFICES ASSUME NEW w \in Worker
             PROVE  /\ Cardinality(left[w]) \in Nat
                    /\ Cardinality(left[w]) <= Cardinality(Question)
                    /\ Ahead(w) \in 0 .. Most
  OBVIOUS
<1>1. left[w] \subseteq Question
  BY DEF WatchTypeOK, AssessTypeOK
<1>2. Cardinality(left[w]) \in Nat /\ Cardinality(Question) \in Nat /\ Cardinality(left[w]) <= Cardinality(Question)
  BY <1>1, QuestionAssumption, FS_Subset, FS_CardinalityType
<1>3. \A p : Rank(p, Cardinality(left[w])) \in 0 .. Most
  BY <1>2 DEF Rank, Most
<1>4. Most \in Nat
  BY <1>2 DEF Most
<1> QED BY <1>2, <1>3, <1>4 DEF Ahead

\* A finding taken from those left leaves one fewer.
LEMMA OneLeft ==
  ASSUME NEW S \in SUBSET Question, NEW q \in S
  PROVE  Cardinality(S) \in Nat /\ Cardinality(S \ {q}) \in Nat /\ Cardinality(S \ {q}) = Cardinality(S) - 1
<1>1. IsFiniteSet(S)
  BY QuestionAssumption, FS_Subset
<1> QED BY <1>1, FS_RemoveElement, FS_CardinalityType, FS_Subset

\* Every step of a run brings it nearer its end.
LEMMA RunAdvances ==
  ASSUME WatchTypeOK, WatchTypeOK', PoolInv, NEW w \in Worker, WorkerStep(w), ~Take(w)
  PROVE  /\ UNCHANGED <<main, todo>>
         /\ \A v \in Worker \ {w} : Ahead(v)' = Ahead(v)
         /\ Ahead(w)' < Ahead(w)
<1>a. /\ phase \in [Worker -> Phase] /\ left \in [Worker -> SUBSET Question]
      /\ job \in [Worker -> Job \cup {NoJob}]
  BY DEF WatchTypeOK, AssessTypeOK
<1>b. Cardinality(Question) \in Nat
  BY QuestionAssumption, FS_CardinalityType
<1>c. Running(w)
  BY DEF WorkerStep, Load, LoadFails, RunLoop, RunAborts, Deliver, DeliverFails, Mark, Report
<1> DEFINE n == Cardinality(left[w])
<1>d. n \in Nat /\ n <= Cardinality(Question)
  BY AheadType
\* It is enough to know what becomes of the phase and of the findings left.
<1>1. ASSUME UNCHANGED <<main, todo, job>>, NEW p, phase' = [phase EXCEPT ![w] = p],
             NEW S, left' = [left EXCEPT ![w] = S], Rank(p, Cardinality(S)) < Rank(phase[w], n)
      PROVE  /\ UNCHANGED <<main, todo>>
             /\ \A v \in Worker \ {w} : Ahead(v)' = Ahead(v)
             /\ Ahead(w)' < Ahead(w)
  <2>1. phase'[w] = p /\ left'[w] = S /\ \A v \in Worker \ {w} : phase'[v] = phase[v] /\ left'[v] = left[v]
    BY <1>1, <1>a
  <2>2. \A v \in Worker : Running(v)' = Running(v)
    BY <1>1 DEF Running
  <2> QED BY <1>1, <1>c, <2>1, <2>2 DEF Ahead
<1>2. ASSUME left' = left PROVE left' = [left EXCEPT ![w] = left[w]]
  BY <1>2, <1>a
<1>3. CASE Load(w)
  <2>1. PICK qs : Begin(w, qs) /\ qs \subseteq Question
    <3>1. PICK stale \in SUBSET Question : Begin(w, Open(job[w].sbom, stale))
      BY <1>3 DEF Load
    <3>2. left'[w] = Open(job[w].sbom, stale) /\ left'[w] \subseteq Question
      BY <3>1, <1>a DEF Begin, WatchTypeOK, AssessTypeOK
    <3> QED BY <3>1, <3>2
  <2>2. Cardinality(qs) \in Nat /\ Cardinality(qs) <= Cardinality(Question)
    BY <2>1, QuestionAssumption, FS_Subset, FS_CardinalityType
  <2>3. phase[w] = "idle" /\ phase' = [phase EXCEPT ![w] = "next"] /\ left' = [left EXCEPT ![w] = qs]
    BY <2>1 DEF Begin
  <2>4. Rank("next", Cardinality(qs)) < Rank("idle", n)
    BY <1>b, <2>2 DEF Rank
  <2> QED BY <1>1, <1>3, <2>3, <2>4 DEF Load, loopVars
<1>4. CASE LoadFails(w)
  <2>1. Rank("failed", n) < Rank("idle", n)
    BY <1>b DEF Rank
  <2> QED BY <1>1, <1>2, <1>4, <2>1 DEF LoadFails, loopVars
<1>5. CASE RunAborts(w)
  <2>1. Rank("failed", n) < Rank("next", n)
    BY <1>d DEF Rank
  <2> QED BY <1>1, <1>2, <1>5, <2>1 DEF RunAborts, Abort, loopVars
<1>6. CASE Deliver(w) \/ DeliverFails(w)
  <2>1. Rank("delivered", n) < Rank("built", n) /\ Rank("failed", n) < Rank("built", n)
    BY DEF Rank
  <2> QED BY <1>1, <1>2, <1>6, <2>1 DEF Deliver, DeliverFails, loopVars
<1>7. CASE RunLoop(w)
  <2>0. UNCHANGED <<main, todo, job>> /\ Loop(w)
    BY <1>7 DEF RunLoop, loopVars
  <2>1. ASSUME NEW q \in Question, Hit(w, q) \/ Miss(w, q)
        PROVE  /\ q \in left[w] /\ phase[w] = "next" /\ left' = [left EXCEPT ![w] = left[w] \ {q}]
               /\ \E p \in {"next", "check"} : phase' = [phase EXCEPT ![w] = p]
    BY <2>1, <1>a DEF Hit, Miss
  <2>2. ASSUME NEW q \in Question, Hit(w, q) \/ Miss(w, q)
        PROVE  /\ UNCHANGED <<main, todo>>
               /\ \A v \in Worker \ {w} : Ahead(v)' = Ahead(v)
               /\ Ahead(w)' < Ahead(w)
    <3>1. Cardinality(left[w] \ {q}) \in Nat /\ Cardinality(left[w] \ {q}) = n - 1
      BY <2>1, <2>2, <1>a, OneLeft
    <3>2. \A p \in {"next", "check"} : Rank(p, Cardinality(left[w] \ {q})) < Rank("next", n)
      BY <3>1, <1>d DEF Rank
    <3> QED BY <1>1, <2>0, <2>1, <2>2, <3>2
  <2>3. CASE Defer(w)
    <3>1. Rank("next", n) < Rank("check", n)
      BY <1>d DEF Rank
    <3> QED BY <1>1, <1>2, <2>0, <2>3, <3>1 DEF Defer
  <2>4. CASE Ask(w)
    <3>1. Rank("asking", n) < Rank("check", n)
      BY <1>d DEF Rank
    <3> QED BY <1>1, <1>2, <2>0, <2>4, <3>1 DEF Ask
  <2>5. CASE Keep(w)
    <3>1. Rank("next", n) < Rank("answered", n)
      BY <1>d DEF Rank
    <3> QED BY <1>1, <1>2, <2>0, <2>5, <3>1 DEF Keep
  <2>6. CASE Build(w)
    <3>1. Rank("built", n) < Rank("next", n)
      BY <1>d DEF Rank
    <3> QED BY <1>1, <1>2, <2>0, <2>6, <3>1 DEF Build
  <2>7. ASSUME NEW o \in Outcome, Return(w, o)
        PROVE  /\ UNCHANGED <<main, todo>>
               /\ \A v \in Worker \ {w} : Ahead(v)' = Ahead(v)
               /\ Ahead(w)' < Ahead(w)
    <3>1. Rank("answered", n) < Rank("asking", n)
      BY <1>d DEF Rank
    <3> QED BY <1>1, <1>2, <2>0, <2>7, <3>1 DEF Return
  <2> QED BY <2>0, <2>2, <2>3, <2>4, <2>5, <2>6, <2>7 DEF Loop
<1>8. CASE Mark(w) \/ Report(w)
  <2>1. /\ UNCHANGED <<main, todo>> /\ job' = [job EXCEPT ![w] = NoJob]
        /\ phase' = [phase EXCEPT ![w] = "idle"] /\ left' = [left EXCEPT ![w] = {}]
        /\ phase[w] \in {"delivered", "failed"}
    BY <1>8 DEF Mark, Report, Finish, Leave
  <2>2. job'[w] = NoJob /\ \A v \in Worker \ {w} : job'[v] = job[v] /\ phase'[v] = phase[v] /\ left'[v] = left[v]
    BY <2>1, <1>a
  <2>3. Ahead(w)' = 0 /\ Ahead(w) = 1
    BY <1>c, <2>1, <2>2 DEF Ahead, Running, Rank
  <2>4. \A v \in Worker \ {w} : Ahead(v)' = Ahead(v)
    BY <2>2 DEF Ahead, Running
  <2> QED BY <2>1, <2>3, <2>4
<1> QED BY <1>3, <1>4, <1>5, <1>6, <1>7, <1>8 DEF WorkerStep

\* A pass hands out finitely many SBOMs.
LEMMA TodoFinite ==
  ASSUME WatchTypeOK, PoolInv
  PROVE  IsFiniteSet(todo) /\ Cardinality(todo) \in Nat
<1> DEFINE f == [t \in todo |-> t.sbom]
<1>1. f \in Injection(todo, Sbom)
  BY DEF WatchTypeOK, PoolInv, Job, Injection, IsInjective
<1> HIDE DEF f
<1> QED BY <1>1, SbomAssumption, FS_Injection, FS_CardinalityType

PassCounts == Cardinality(todo) \in Nat /\ [w \in Worker |-> Ahead(w)] \in [Worker -> 0 .. Most]

LEMMA PassCountsHold ==
  ASSUME WatchTypeOK, PoolInv
  PROVE  PassCounts
BY TodoFinite, AheadType DEF PassCounts

LEMMA PassAdvancing ==
  ASSUME WatchTypeOK, WatchTypeOK', PoolInv, PassCounts, PassCounts', [WatchNext]_watchVars, Passing, Passing'
  PROVE  <<PassRest', PassRest>> \in Sooner \/ UNCHANGED <<main, todo, job, phase, left>>
<1> DEFINE f == [w \in Worker |-> Ahead(w)]
           g == [w \in Worker |-> Ahead(w)']
<1>a. /\ Cardinality(todo) \in Nat /\ Cardinality(todo') \in Nat
      /\ f \in [Worker -> 0 .. Most] /\ g \in [Worker -> 0 .. Most]
  BY DEF PassCounts
<1>b. Cardinality(StepsOf(f)) \in Nat /\ Cardinality(StepsOf(g)) \in Nat
  BY <1>a, FewerSteps
<1>c. Steps = StepsOf(f) /\ Steps' = StepsOf(g)
  BY DEF Steps, StepsOf, Most
<1>d. main \in {"feed", "drain"} /\ main' \in {"feed", "drain"}
  BY DEF Passing
<1>e. \A w \in Worker : f[w] = Ahead(w) /\ g[w] = Ahead(w)'
  OBVIOUS
<1> HIDE DEF f, g
\* It is enough that one of the three counts falls.
<1>1. ASSUME \/ main = "feed" /\ main' = "drain"
             \/ main' = main /\ Cardinality(todo') < Cardinality(todo)
             \/ main' = main /\ todo' = todo /\ Cardinality(StepsOf(g)) < Cardinality(StepsOf(f))
      PROVE  <<PassRest', PassRest>> \in Sooner
  <2> DEFINE a == IF main = "feed" THEN 1 ELSE 0
             d == IF main' = "feed" THEN 1 ELSE 0
  <2>1. a \in Nat /\ d \in Nat
    OBVIOUS
  <2>2. \/ d < a
        \/ d = a /\ Cardinality(todo') < Cardinality(todo)
        \/ d = a /\ Cardinality(todo') = Cardinality(todo) /\ Cardinality(StepsOf(g)) < Cardinality(StepsOf(f))
    BY <1>1
  <2> HIDE DEF a, d
  <2>3. <<<<<<d, Cardinality(todo')>>, Cardinality(StepsOf(g))>>, <<<<a, Cardinality(todo)>>, Cardinality(StepsOf(f))>>>> \in Sooner
    BY <1>a, <1>b, <2>1, <2>2, SoonerThan
  <2> QED BY <1>c, <2>3 DEF PassRest, a, d
<1>2. CASE MainStep
  <2>1. CloseQueue
    BY <1>2, <1>d DEF MainStep, Start, List, ListFails, CloseQueue, Drained, AfterPass, Wake, Stop
  <2> QED BY <1>1, <2>1 DEF CloseQueue
<1>3. ASSUME NEW w \in Worker, Take(w) PROVE <<PassRest', PassRest>> \in Sooner
  <2>1. PICK t \in todo : todo' = todo \ {t}
    BY <1>3 DEF Take
  <2>2. main' = main
    BY <1>3 DEF Take
  <2>3. IsFiniteSet(todo)
    BY TodoFinite
  <2>4. Cardinality(todo') < Cardinality(todo)
    BY <1>a, <2>1, <2>3, FS_RemoveElement
  <2> QED BY <1>1, <2>2, <2>4
<1>4. ASSUME NEW w \in Worker, WorkerStep(w), ~Take(w) PROVE <<PassRest', PassRest>> \in Sooner
  <2>1. /\ main' = main /\ todo' = todo /\ Ahead(w)' < Ahead(w)
        /\ \A v \in Worker \ {w} : Ahead(v)' = Ahead(v)
    BY <1>4, RunAdvances
  <2>2. g[w] < f[w] /\ \A v \in Worker \ {w} : g[v] = f[v]
    BY <1>e, <2>1
  <2>3. Cardinality(StepsOf(g)) < Cardinality(StepsOf(f))
    BY <1>a, <2>2, FewerSteps
  <2> QED BY <1>1, <2>1, <2>3
<1>5. CASE BomhortStep \/ CacheStep \/ Cancel \/ UNCHANGED watchVars
  BY <1>5 DEF BomhortStep, Match, Withdraw, Ingest, Apply, Change, CacheStep, Expire, Cancel,
              watchVars, assessVars, runVars, loopVars
<1>6. CASE Crash
  BY <1>6, <1>d DEF Crash
<1> QED BY <1>2, <1>3, <1>4, <1>5, <1>6 DEF WatchNext

\* However many findings, SBOMs and workers there are, whatever fails and
\* whatever BOMHort changes meanwhile: what changes the work of a pass ends the
\* pass or leaves less of it, in an order that has no infinite descent
\* (watch.go:178-229, pipeline.go:388-430).
THEOREM PassesAdvance ==
  IsWellFoundedOn(Sooner, Pair \X Nat) /\ (WatchSpec => [][PassAdvances]_watchVars)
<1>1. WatchTypeOK /\ PoolInv => PassCounts
  BY PassCountsHold
<1>2. WatchTypeOK /\ WatchTypeOK' /\ PoolInv /\ PassCounts /\ PassCounts' /\ [WatchNext]_watchVars
        => [PassAdvances]_watchVars
  BY PassAdvancing DEF PassAdvances
<1>3. WatchSpec => [][PassAdvances]_watchVars
  BY <1>1, <1>2, WatchPool, PTL DEF WatchSpec
<1> QED BY <1>3, SoonerIsWellFounded

\* The feed never waits for a worker that is not there: one that failed goes on
\* with the next SBOM.
FeedHasTakers == main = "feed" /\ todo # {} => pool # {}

LEMMA TakersStep ==
  ASSUME WatchTypeOK, PoolInv, FeedHasTakers, Worker # {}, [WatchNext]_watchVars
  PROVE  FeedHasTakers'
<1> USE DEF FeedHasTakers
<1>1. CASE List
  <2>1. pool' \in Workers(Cardinality(todo')) /\ todo' = {[sbom |-> s, fp |-> fingerprint(s)] : s \in {t \in Sbom : [sbom |-> t, fp |-> fingerprint(t)] \in todo'}}
    BY <1>1 DEF List, Selected, Listed
  <2> SUFFICES ASSUME todo' # {}, pool' = {} PROVE FALSE
    OBVIOUS
  <2>2. IsFiniteSet(todo')
    <3> DEFINE f == [t \in todo' |-> t.sbom]
    <3>0. \A t \in todo' : t.sbom \in Sbom /\ t = [sbom |-> t.sbom, fp |-> fingerprint(t.sbom)]
      <4> SUFFICES ASSUME NEW t \in todo' PROVE t.sbom \in Sbom /\ t = [sbom |-> t.sbom, fp |-> fingerprint(t.sbom)]
        OBVIOUS
      <4>1. PICK s \in Sbom : t = [sbom |-> s, fp |-> fingerprint(s)]
        BY <2>1
      <4> QED BY <4>1
    <3>1. f \in Injection(todo', Sbom)
      BY <3>0 DEF Injection, IsInjective
    <3> HIDE DEF f
    <3> QED BY <3>1, SbomAssumption, FS_Injection
  <2>3. Cardinality(todo') \in Nat /\ Cardinality(todo') # 0 /\ Cardinality(Worker) \in Nat /\ Cardinality(Worker) # 0
    BY <2>2, WorkerAssumption, FS_CardinalityType, FS_EmptySet
  <2>4. Cardinality(pool') = 0
    BY FS_EmptySet
  <2> QED BY <2>1, <2>3, <2>4 DEF Workers
<1>2. CASE MainStep /\ ~List
  BY <1>2 DEF MainStep, Start, ListFails, CloseQueue, Drained, AfterPass, Wake, Stop, PoolInv
<1>3. ASSUME NEW w \in Worker, WorkerStep(w) PROVE FeedHasTakers'
  BY <1>3 DEF WorkerStep, Take, Load, LoadFails, RunLoop, RunAborts, Deliver, DeliverFails,
              Mark, Report, Finish, loopVars
<1>4. CASE BomhortStep \/ CacheStep \/ Cancel \/ Crash \/ UNCHANGED watchVars
  BY <1>4 DEF BomhortStep, Match, Withdraw, Ingest, Apply, Change, CacheStep, Cancel, Crash,
              watchVars, loopVars
<1> QED BY <1>1, <1>2, <1>3, <1>4 DEF WatchNext

\* Whatever becomes of the runs, an SBOM that is left in a pass has a worker in
\* the pool to take it; a watch has at least one (watch.go:170-229).
THEOREM FeedsAreTaken == ASSUME Worker # {} PROVE WatchSpec => []FeedHasTakers
<1>1. WatchInit => FeedHasTakers
  BY DEF WatchInit, FeedHasTakers
<1>2. WatchTypeOK /\ PoolInv /\ FeedHasTakers /\ [WatchNext]_watchVars => FeedHasTakers'
  BY TakersStep
<1> QED BY <1>1, <1>2, WatchPool, PTL DEF WatchSpec

-----------------------------------------------------------------------------
(* Coverage.  A recorded version of an SBOM never lies ahead of BOMHort,   *)
(* so findings that appear after it was listed set the two apart for good; *)
(* and a run for the present version accounts for every finding in it.     *)

\* A version the watch loop has seen of s, at some time.
Behind(s, f) ==
  /\ f.at <= ingested[s]
  /\ f.at = ingested[s] => f.count <= Cardinality(vulns[s])

Done(s, f) == f = fingerprint(s) => vulns[s] \subseteq sent[s]

Recorded(s, f) == Behind(s, f) /\ (s \in Listed => Done(s, f))

InLoop == {"next", "check", "asking", "answered", "built", "delivered"}

CoverInv ==
  /\ \A s \in Sbom : vexed[s] \subseteq sent[s]
  /\ \A s \in Sbom \ Churn : Recorded(s, mem[s]) /\ Recorded(s, disk[s])
  /\ \A t \in todo : t.sbom \notin Churn => Behind(t.sbom, t.fp)
  /\ \A w \in Worker : Running(w) =>
       /\ job[w].sbom \notin Churn =>
            /\ Behind(job[w].sbom, job[w].fp)
            /\ phase[w] \in InLoop /\ job[w].fp = fingerprint(job[w].sbom) =>
                 vulns[job[w].sbom] \subseteq findings[w] \cup sent[job[w].sbom]
       /\ phase[w] \in {"built", "delivered"} => left[w] = {}
       /\ phase[w] = "delivered" => Entries(w) \subseteq sent[job[w].sbom]

\* Once delivered, what a run had to do is sent or deferred.
LEMMA DeliveredIsDone ==
  ASSUME LoopPart, CoverInv, NEW w \in Worker, Running(w), phase[w] = "delivered"
  PROVE  findings[w] \subseteq sent[job[w].sbom] \cup deferred[w]
<1>1. current[w] = None /\ left[w] = {}
  BY DEF LoopPart, LoopInv, RunsInOrder, CoverInv
<1>2. findings[w] = Entries(w) \cup deferred[w]
  BY <1>1 DEF LoopPart, NothingLost, InHand
<1> QED BY <1>2 DEF CoverInv

\* A finding more makes a larger count.
LEMMA CountGrows ==
  ASSUME BomhortType, NEW s \in Sbom, NEW q \in Question \ vulns[s]
  PROVE  Cardinality(vulns[s] \cup {q}) = Cardinality(vulns[s]) + 1
  BY QuestionAssumption, FS_Subset, FS_AddElement DEF BomhortType

\* What BOMHort changes moves an SBOM past every version seen of it, or leaves
\* the SBOM as it is.
LEMMA ChangeMovesOn ==
  ASSUME BomhortType,
         NEW s \in Sbom, Match(s) \/ Withdraw(s) \/ Ingest(s),
         NEW r \in Sbom \ Churn, NEW f \in Fp, Behind(r, f)
  PROVE  /\ Behind(r, f)'
         /\ f = fingerprint(r)' =>
              vulns'[r] = vulns[r] /\ ingested'[r] = ingested[r] /\ f = fingerprint(r)
<1> USE DEF Behind, fingerprint
<1>a. /\ ingested \in [Sbom -> Nat] /\ vulns \in [Sbom -> SUBSET Question]
      /\ f.at \in Nat /\ f.count \in Nat /\ Cardinality(vulns[r]) \in Nat
  BY FingerprintType DEF BomhortType, Fp
<1>1. CASE r # s
  <2>1. vulns'[r] = vulns[r] /\ ingested'[r] = ingested[r]
    BY <1>1, <1>a DEF Match, Withdraw, Ingest
  <2> QED BY <2>1
<1>2. CASE r = s /\ Match(s)
  <2>1. PICK q \in Question \ vulns[s] : vulns' = [vulns EXCEPT ![s] = @ \cup {q}]
    BY <1>2 DEF Match
  <2>2. vulns'[r] = vulns[r] \cup {q} /\ ingested'[r] = ingested[r]
    BY <2>1, <1>2, <1>a DEF Match
  <2>3. Cardinality(vulns'[r]) = Cardinality(vulns[r]) + 1
    BY <2>2, <1>2, CountGrows
  <2> QED BY <2>2, <2>3, <1>a
<1>3. CASE r = s /\ Withdraw(s)
  BY <1>3 DEF Withdraw
<1>4. CASE r = s /\ Ingest(s)
  <2>1. ingested'[r] = ingested[r] + 1
    BY <1>4, <1>a DEF Ingest
  <2> QED BY <2>1, <1>a
<1> QED BY <1>1, <1>2, <1>3, <1>4

LEMMA CoverChange ==
  ASSUME WatchTypeOK, CoverInv, NEW s \in Sbom, Match(s) \/ Withdraw(s) \/ Ingest(s)
  PROVE  CoverInv'
<1>a. BomhortType /\ PassType
  BY TypeParts
<1>1. UNCHANGED <<sent, vexed, mem, disk, todo, job, phase, findings, left, verdict>>
  BY DEF Match, Withdraw, Ingest, Change, assessVars, runVars, loopVars
<1>2. \A r \in Sbom \ Churn, f \in Fp : Recorded(r, f) => Recorded(r, f)'
  <2> SUFFICES ASSUME NEW r \in Sbom \ Churn, NEW f \in Fp, Recorded(r, f)
               PROVE  Recorded(r, f)'
    OBVIOUS
  <2>1. Behind(r, f)' /\ (f = fingerprint(r)' =>
          vulns'[r] = vulns[r] /\ ingested'[r] = ingested[r] /\ f = fingerprint(r))
    BY <1>a, ChangeMovesOn DEF Recorded
  <2> QED BY <2>1, <1>1 DEF Recorded, Done, Listed
<1>3. \A r \in Sbom \ Churn : Recorded(r, mem[r])' /\ Recorded(r, disk[r])'
  BY <1>1, <1>2, <1>a DEF CoverInv, PassType
<1>4. \A t \in todo' : t.sbom \notin Churn => Behind(t.sbom, t.fp)'
  BY <1>1, <1>a, ChangeMovesOn DEF CoverInv, PassType, Job
<1>5. ASSUME NEW w \in Worker, Running(w), job[w].sbom \notin Churn
      PROVE  /\ Behind(job[w].sbom, job[w].fp)'
             /\ (phase[w] \in InLoop /\ job[w].fp = fingerprint(job[w].sbom) =>
                  vulns[job[w].sbom] \subseteq findings[w] \cup sent[job[w].sbom])'
  <2>1. job[w].sbom \in Sbom \ Churn /\ job[w].fp \in Fp
    BY <1>5, <1>a, RunningJob
  <2>2. Behind(job[w].sbom, job[w].fp)
    BY <1>5 DEF CoverInv
  <2> DEFINE r == job[w].sbom
             f == job[w].fp
  <2>3. Behind(r, f)' /\ (f = fingerprint(r)' =>
          vulns'[r] = vulns[r] /\ ingested'[r] = ingested[r] /\ f = fingerprint(r))
    BY <1>1, <1>a, <2>1, <2>2, ChangeMovesOn DEF Behind, fingerprint
  <2> QED BY <2>3, <1>1, <1>5 DEF CoverInv
<1> QED BY <1>1, <1>3, <1>4, <1>5 DEF CoverInv, Running, Entries

\* The steps of the pass.
LEMMA CoverMain ==
  ASSUME WatchTypeOK, PoolInv, CoverInv, MainStep
  PROVE  CoverInv'
<1>a. BomhortType /\ PassType
  BY TypeParts
<1>b. /\ UNCHANGED <<vulns, ingested, sent, vexed, job>>
      /\ UNCHANGED <<phase, findings, left, verdict>>
  BY DEF MainStep, Start, List, ListFails, CloseQueue, Drained, AfterPass, Wake, Stop,
         bomhortVars, assessVars, runVars
<1>1. ASSUME \A s \in Sbom \ Churn : Recorded(s, mem'[s]) /\ Recorded(s, disk'[s]),
             \A t \in todo' : t.sbom \notin Churn => Behind(t.sbom, t.fp)
      PROVE  CoverInv'
  BY <1>1, <1>b DEF CoverInv, Recorded, Behind, Done, Listed, fingerprint, Running, Entries
<1>2. CASE Start
  BY <1>1, <1>2 DEF Start, CoverInv
<1>3. CASE List
  <2>1. ASSUME NEW s \in Sbom \ Churn PROVE Recorded(s, mem'[s]) /\ Recorded(s, disk'[s])
    <3>1. CASE mem'[s] = mem[s]
      BY <1>3, <3>1 DEF List, CoverInv
    <3>2. CASE mem'[s] # mem[s]
      <4>1. Empty(s) /\ mem'[s] = fingerprint(s)
        BY <1>3, <3>2 DEF List
      <4>2. ingested[s] \in Nat /\ Cardinality(vulns[s]) \in Nat
        BY <1>a, FingerprintType DEF BomhortType
      <4>3. Recorded(s, mem'[s])
        BY <4>1, <4>2 DEF Empty, Recorded, Behind, Done, fingerprint
      <4> QED BY <1>3, <4>3 DEF List, CoverInv
    <3> QED BY <3>1, <3>2
  <2>2. ASSUME NEW t \in todo' PROVE Behind(t.sbom, t.fp)
    <3>1. PICK s \in Sbom : t = [sbom |-> s, fp |-> fingerprint(s)]
      BY <1>3, <2>2 DEF List, Selected, Listed
    <3>2. ingested[s] \in Nat /\ Cardinality(vulns[s]) \in Nat
      BY <1>a, FingerprintType DEF BomhortType
    <3> QED BY <3>1, <3>2 DEF Behind, fingerprint
  <2> QED BY <1>1, <2>1, <2>2
<1>4. CASE ListFails \/ Drained \/ Wake \/ Stop \/ CloseQueue
  BY <1>1, <1>4 DEF ListFails, Drained, Wake, Stop, CloseQueue, CoverInv
<1>5. CASE AfterPass
  BY <1>1, <1>5 DEF AfterPass, CoverInv
<1> QED BY <1>2, <1>3, <1>4, <1>5 DEF MainStep

\* The steps of a worker.
LEMMA CoverWorker ==
  ASSUME Upload, WatchTypeOK, LoopPart, PoolInv, CoverInv, NEW w \in Worker, WorkerStep(w)
  PROVE  CoverInv'
<1>a. BomhortType /\ PassType /\ AssessTypeOK
  BY TypeParts
<1>b. /\ phase \in [Worker -> Phase] /\ findings \in [Worker -> SUBSET Question]
      /\ left \in [Worker -> SUBSET Question] /\ verdict \in [Worker -> [Question -> Verdict]]
      /\ job \in [Worker -> Job \cup {NoJob}]
      /\ mem \in [Sbom -> Fp] /\ todo \subseteq Job /\ sent \in [Sbom -> SUBSET Question]
  BY <1>a DEF AssessTypeOK, PassType, BomhortType
<1>c. UNCHANGED <<vulns, ingested, vexed, disk>>
  BY DEF WorkerStep, Take, Load, LoadFails, RunLoop, RunAborts, Deliver, DeliverFails,
         Mark, Report, bomhortVars, loopVars
<1>0. ASSUME \A s \in Sbom : sent[s] \subseteq sent'[s],
             \A s \in Sbom \ Churn : Recorded(s, mem'[s]),
             todo' \subseteq todo,
             \A v \in Worker \ {w} :
               /\ job'[v] = job[v] /\ phase'[v] = phase[v] /\ findings'[v] = findings[v]
               /\ left'[v] = left[v] /\ verdict'[v] = verdict[v],
             job'[w] # NoJob =>
               /\ job'[w].sbom \in Sbom
               /\ job'[w].sbom \notin Churn =>
                    /\ Behind(job'[w].sbom, job'[w].fp)
                    /\ phase'[w] \in InLoop /\ job'[w].fp = fingerprint(job'[w].sbom) =>
                         vulns[job'[w].sbom] \subseteq findings'[w] \cup sent'[job'[w].sbom]
               /\ phase'[w] \in {"built", "delivered"} => left'[w] = {}
               /\ phase'[w] = "delivered" => Entries(w)' \subseteq sent'[job'[w].sbom]
      PROVE  CoverInv'
  <2>1. \A s \in Sbom : vexed'[s] \subseteq sent'[s]
    BY <1>0, <1>c DEF CoverInv
  <2>2. \A s \in Sbom \ Churn : Recorded(s, mem[s])' /\ Recorded(s, disk[s])'
    BY <1>0, <1>c DEF CoverInv, Recorded, Behind, Done, Listed, fingerprint
  <2>3. \A t \in todo' : t.sbom \notin Churn => Behind(t.sbom, t.fp)'
    BY <1>0, <1>c DEF CoverInv, Behind
  <2>4. ASSUME NEW v \in Worker \ {w}, job[v] # NoJob
        PROVE  /\ job[v].sbom \in Sbom
               /\ sent[job[v].sbom] \subseteq sent'[job[v].sbom]
               /\ Entries(v)' = Entries(v)
    BY <1>0, <1>a, <2>4, RunningJob DEF Running, Entries
  <2>5. \A v \in Worker \ {w} : Running(v)' =>
       /\ job'[v].sbom \notin Churn =>
            /\ Behind(job'[v].sbom, job'[v].fp)
            /\ phase'[v] \in InLoop /\ job'[v].fp = fingerprint(job'[v].sbom) =>
                 vulns[job'[v].sbom] \subseteq findings'[v] \cup sent'[job'[v].sbom]
       /\ phase'[v] \in {"built", "delivered"} => left'[v] = {}
       /\ phase'[v] = "delivered" => Entries(v)' \subseteq sent'[job'[v].sbom]
    BY <1>0, <2>4 DEF CoverInv, Running
  <2>6. \A v \in Worker : Running(v)' =>
       /\ job'[v].sbom \notin Churn =>
            /\ Behind(job'[v].sbom, job'[v].fp)
            /\ phase'[v] \in InLoop /\ job'[v].fp = fingerprint(job'[v].sbom) =>
                 vulns[job'[v].sbom] \subseteq findings'[v] \cup sent'[job'[v].sbom]
       /\ phase'[v] \in {"built", "delivered"} => left'[v] = {}
       /\ phase'[v] = "delivered" => Entries(v)' \subseteq sent'[job'[v].sbom]
    BY <1>0, <2>5 DEF Running
  <2> QED BY <1>c, <2>1, <2>2, <2>3, <2>6 DEF CoverInv, Behind, fingerprint
<1>d. ASSUME Running(w)
      PROVE  /\ job[w] # NoJob /\ job[w].sbom \in Sbom /\ job[w].fp \in Fp
             /\ job[w].sbom \notin Churn =>
                  /\ Behind(job[w].sbom, job[w].fp)
                  /\ phase[w] \in InLoop /\ job[w].fp = fingerprint(job[w].sbom) =>
                       vulns[job[w].sbom] \subseteq findings[w] \cup sent[job[w].sbom]
             /\ phase[w] \in {"built", "delivered"} => left[w] = {}
             /\ phase[w] = "delivered" => Entries(w) \subseteq sent[job[w].sbom]
  BY <1>a, <1>d, RunningJob DEF CoverInv, Running
<1>e. \A s \in Sbom \ Churn : Recorded(s, mem[s])
  BY DEF CoverInv
<1>1. CASE Take(w)
  <2>1. PICK t \in todo : job' = [job EXCEPT ![w] = t] /\ todo' = todo \ {t}
    BY <1>1 DEF Take
  <2>2. job'[w] = t /\ t.sbom \in Sbom /\ phase'[w] = "idle"
    BY <1>1, <1>b, <2>1 DEF Take, PoolInv, Running, Job, assessVars, runVars
  <2>3. /\ UNCHANGED <<sent, mem, phase, findings, left, verdict>>
        /\ \A v \in Worker \ {w} : job'[v] = job[v]
    BY <1>1, <1>b, <2>1 DEF Take, assessVars, runVars, bomhortVars
  <2>4. t.sbom \notin Churn => Behind(t.sbom, t.fp)
    BY DEF CoverInv
  <2> QED BY <1>0, <1>e, <2>1, <2>2, <2>3, <2>4 DEF InLoop
<1>2. CASE Load(w)
  <2>1. PICK stale \in SUBSET Question : Begin(w, Open(job[w].sbom, stale))
    BY <1>2 DEF Load
  <2>2. /\ UNCHANGED <<sent, mem, todo, job, verdict>> /\ Running(w)
        /\ \A v \in Worker \ {w} :
             phase'[v] = phase[v] /\ findings'[v] = findings[v] /\ left'[v] = left[v]
        /\ phase'[w] = "next" /\ findings'[w] = Open(job[w].sbom, stale)
    BY <1>2, <1>b, <2>1 DEF Load, Begin, bomhortVars, loopVars
  <2>3. vulns[job[w].sbom] \subseteq findings'[w] \cup sent[job[w].sbom]
    BY <1>d, <2>2 DEF Open, CoverInv
  <2> QED BY <1>0, <1>d, <1>e, <2>2, <2>3
<1>3. CASE LoadFails(w)
  <2>1. /\ UNCHANGED <<sent, mem, todo, job, findings, left, verdict>> /\ Running(w)
        /\ \A v \in Worker \ {w} : phase'[v] = phase[v]
        /\ phase'[w] = "failed"
    BY <1>3, <1>b DEF LoadFails, bomhortVars, loopVars
  <2> QED BY <1>0, <1>d, <1>e, <2>1 DEF InLoop
<1>4. CASE RunLoop(w) \/ RunAborts(w)
  <2>1. /\ UNCHANGED <<sent, mem, todo, job, findings>> /\ Running(w)
        /\ \A v \in Worker \ {w} :
             phase'[v] = phase[v] /\ left'[v] = left[v] /\ verdict'[v] = verdict[v]
        /\ phase[w] \in InLoop
        /\ phase'[w] # "delivered" /\ (phase'[w] = "built" => left'[w] = {})
    BY <1>4, <1>b DEF RunLoop, RunAborts, Loop, Hit, Miss, Defer, Ask, Keep, Build, Return,
                      Abort, bomhortVars, loopVars, InLoop
  <2> QED BY <1>0, <1>d, <1>e, <2>1
<1>5. CASE Deliver(w)
  <2>1. /\ UNCHANGED <<mem, todo, job, findings, left, verdict>> /\ Running(w)
        /\ \A v \in Worker \ {w} : phase'[v] = phase[v]
        /\ phase[w] = "built" /\ phase'[w] = "delivered"
    BY <1>5, <1>b DEF Deliver, loopVars
  <2>2. \A s \in Sbom : sent[s] \subseteq sent'[s]
    BY <1>5, <1>b DEF Deliver, Accept
  <2>3. Entries(w) \subseteq sent'[job[w].sbom] /\ Entries(w)' = Entries(w)
    BY <1>5, <1>b, <1>d, <2>1 DEF Deliver, Accept, Entries
  <2>4. phase[w] \in InLoop /\ left[w] = {}
    BY <1>d, <2>1 DEF InLoop
  <2> QED BY <1>0, <1>d, <1>e, <2>1, <2>2, <2>3, <2>4
<1>6. CASE DeliverFails(w)
  <2>1. /\ UNCHANGED <<mem, todo, job, findings, left, verdict>> /\ Running(w)
        /\ \A v \in Worker \ {w} : phase'[v] = phase[v]
        /\ phase'[w] = "failed"
    BY <1>6, <1>b DEF DeliverFails, loopVars
  <2>2. \A s \in Sbom : sent[s] \subseteq sent'[s]
    BY <1>6, <1>b DEF DeliverFails, Accept
  <2> QED BY <1>0, <1>d, <1>e, <2>1, <2>2 DEF InLoop
<1>7. CASE Mark(w)
  <2>1. /\ UNCHANGED <<sent, todo>> /\ job'[w] = NoJob
        /\ \A v \in Worker \ {w} :
             /\ job'[v] = job[v] /\ phase'[v] = phase[v] /\ findings'[v] = findings[v]
             /\ left'[v] = left[v] /\ verdict'[v] = verdict[v]
        /\ Running(w) /\ phase[w] = "delivered"
    BY <1>7, <1>b DEF Mark, Finish, Leave, bomhortVars
  <2>2. findings[w] \subseteq sent[job[w].sbom] \cup deferred[w]
    BY <2>1, DeliveredIsDone
  <2>3. ASSUME NEW s \in Sbom \ Churn PROVE Recorded(s, mem'[s])
    <3>1. CASE mem'[s] = mem[s]
      BY <1>e, <3>1
    <3>2. CASE mem'[s] # mem[s]
      <4>1. s = job[w].sbom /\ deferred[w] = {} /\ mem'[s] = job[w].fp
        BY <1>7, <1>b, <1>d, <2>1, <3>2 DEF Mark
      <4> QED BY <1>d, <2>1, <2>2, <4>1 DEF Recorded, Done, InLoop
    <3> QED BY <3>1, <3>2
  <2> QED BY <1>0, <2>1, <2>3
<1>8. CASE Report(w)
  <2>1. /\ UNCHANGED <<sent, todo, mem>> /\ job'[w] = NoJob
        /\ \A v \in Worker \ {w} :
             /\ job'[v] = job[v] /\ phase'[v] = phase[v] /\ findings'[v] = findings[v]
             /\ left'[v] = left[v] /\ verdict'[v] = verdict[v]
    BY <1>8, <1>b DEF Report, Finish, Leave, bomhortVars
  <2> QED BY <1>0, <1>e, <2>1
<1> QED BY <1>1, <1>2, <1>3, <1>4, <1>5, <1>6, <1>7, <1>8 DEF WorkerStep

LEMMA CoverStep ==
  ASSUME Upload, WatchTypeOK, LoopPart, PoolInv, CoverInv, [WatchNext]_watchVars
  PROVE  CoverInv'
<1> USE DEF Recorded, Behind, Done, Listed, fingerprint, Running, Entries
<1>1. CASE MainStep
  BY <1>1, CoverMain
<1>2. ASSUME NEW w \in Worker, WorkerStep(w) PROVE CoverInv'
  BY <1>2, CoverWorker
<1>3. ASSUME NEW s \in Sbom, Match(s) \/ Withdraw(s) \/ Ingest(s) PROVE CoverInv'
  BY <1>3, CoverChange
<1>4. ASSUME NEW s \in Sbom, Apply(s) PROVE CoverInv'
  <2>1. /\ UNCHANGED <<vulns, ingested, sent, mem, disk, todo, job, phase, findings, left, verdict>>
        /\ vexed' = [vexed EXCEPT ![s] = sent[s]]
    BY <1>4 DEF Apply, assessVars, runVars, loopVars
  <2>2. \A r \in Sbom : vexed'[r] \subseteq sent'[r]
    BY <2>1 DEF CoverInv, WatchTypeOK
  <2> QED BY <2>1, <2>2 DEF CoverInv
<1>5. CASE CacheStep \/ Cancel \/ UNCHANGED watchVars
  <2>1. UNCHANGED <<vulns, ingested, sent, vexed, mem, disk, todo, job, phase, findings,
                    left, verdict>>
    BY <1>5 DEF CacheStep, Expire, Cancel, watchVars, assessVars, runVars, loopVars, bomhortVars
  <2> QED BY <2>1 DEF CoverInv
<1>6. CASE Crash
  <2>1. /\ UNCHANGED <<vulns, ingested, sent, vexed, mem, disk>>
        /\ todo' = {} /\ \A w \in Worker : job'[w] = NoJob
    BY <1>6 DEF Crash, bomhortVars
  <2> QED BY <2>1 DEF CoverInv
<1> QED BY <1>1, <1>2, <1>3, <1>4, <1>5, <1>6 DEF WatchNext, BomhortStep

LEMMA CoverInit == WatchInit => CoverInv
<1> SUFFICES ASSUME WatchInit PROVE CoverInv
  OBVIOUS
<1>1. BomhortType
  BY WatchInitParts, TypeParts
<1>2. ASSUME NEW s \in Sbom PROVE Recorded(s, Never)
  <2>1. Cardinality(vulns[s]) \in Nat /\ ingested[s] \in Nat
    BY <1>1, FingerprintType DEF BomhortType
  <2> QED BY <2>1 DEF Recorded, Behind, Done, Never, Listed, fingerprint
<1> QED BY <1>2 DEF WatchInit, CoverInv, Running

\* When uploads are on, an SBOM that counts as processed in its present
\* version, in memory or on disk, has a statement for every finding: through
\* deferrals, failures, cancellations, crashes, and findings that appear while
\* a run is under way, for every SBOM that loses no findings on the way.
THEOREM ProcessedMeansCovered ==
  ASSUME Upload
  PROVE  WatchSpec => []ProcessedIsCovered
<1>1. WatchInit => CoverInv
  BY CoverInit
<1>2. CoverInv => ProcessedIsCovered
  BY DEF CoverInv, ProcessedIsCovered, Recorded, Done, Listed
<1>3. WatchTypeOK /\ LoopPart /\ PoolInv /\ CoverInv /\ [WatchNext]_watchVars => CoverInv'
  BY CoverStep
<1> QED BY <1>1, <1>2, <1>3, WatchPool, PTL DEF WatchSpec

-----------------------------------------------------------------------------
(* Watch implements Coverage: CoverInv says of every version in memory and *)
(* on disk what Coverage asks of a claim.                                  *)

CoverageInv == WatchTypeOK /\ LoopPart /\ PoolInv /\ CoverInv

AbstractStep == C!CoverageNext \/ UNCHANGED C!coverageVars

\* What CoverInv says of a version is what Coverage asks of a claim.
LEMMA RecordedMayBeClaimed ==
  ASSUME NEW s \in Sbom, NEW f, Recorded(s, f), ingested[s] \in Nat
  PROVE  C!MayClaim(s, f)
<1>0. \A S : C!Cardinality(S) = Cardinality(S)
  BY DEF C!Cardinality, Cardinality
<1>1. C!Behind(s, f)
  BY <1>0 DEF Recorded, Behind, C!Behind
<1>2. ASSUME ingested[s] > 0, f = C!version(s) PROVE vulns[s] \subseteq sent[s]
  <2>1. s \in Listed
    BY <1>2 DEF Listed
  <2>2. f = fingerprint(s)
    BY <1>0, <1>2 DEF fingerprint, C!version
  <2> QED BY <2>1, <2>2 DEF Recorded, Done
<1> QED BY <1>1, <1>2 DEF C!MayClaim

\* A step that leaves the findings and statements alone makes claims or none.
LEMMA LoopClaims ==
  ASSUME CoverageInv, CoverInv', WatchTypeOK', UNCHANGED <<vulns, ingested, sent, vexed>>
  PROVE  AbstractStep
<1>1. /\ mem' \in [Sbom -> Fp] /\ disk' \in [Sbom -> Fp] /\ ingested \in [Sbom -> Nat]
  BY DEF CoverageInv, WatchTypeOK
<1>2. ASSUME NEW s \in Sbom \ Churn, NEW f \in {mem'[s], disk'[s]} PROVE C!MayClaim(s, f)
  <2>1. Recorded(s, mem[s])' /\ Recorded(s, disk[s])'
    BY DEF CoverInv
  <2>2. Recorded(s, f)
    BY <1>2, <2>1 DEF Recorded, Behind, Done, Listed, fingerprint
  <2> QED BY <1>1, <2>2, RecordedMayBeClaimed
<1>3. [s \in Sbom |-> {mem'[s], disk'[s]}] \in [Sbom -> SUBSET C!Version]
  BY <1>1 DEF Fp, C!Version
<1>4. C!Claim
  BY <1>2, <1>3 DEF C!Claim
<1> QED BY <1>4 DEF AbstractStep, C!CoverageNext

LEMMA RefinementInit == WatchInit => C!CoverageInit
BY DEF WatchInit, C!CoverageInit, Never, C!never

LEMMA RefinementStep ==
  ASSUME CoverageInv, CoverInv', WatchTypeOK', [WatchNext]_watchVars
  PROVE  AbstractStep
<1>0. /\ vulns \in [Sbom -> SUBSET Question] /\ sent \in [Sbom -> SUBSET Question]
      /\ \A w \in Worker : Running(w) => job[w].sbom \in Sbom
      /\ \A w \in Worker : Entries(w) \subseteq Question
  <2>1. AssessTypeOK /\ PassType
    BY TypeParts DEF CoverageInv
  <2> QED BY <2>1, RunningJob, EntriesType DEF CoverageInv, WatchTypeOK
<1>1. CASE MainStep \/ CacheStep \/ Cancel \/ Crash \/ UNCHANGED watchVars
  <2>1. UNCHANGED <<vulns, ingested, sent, vexed>>
    BY <1>1 DEF MainStep, Start, List, ListFails, CloseQueue, Drained, AfterPass, Wake, Stop,
       CacheStep, Cancel, Crash, watchVars, bomhortVars
  <2> QED BY <2>1, LoopClaims
<1>2. ASSUME NEW w \in Worker, WorkerStep(w) PROVE AbstractStep
  <2>1. CASE Take(w) \/ Load(w) \/ LoadFails(w) \/ RunLoop(w) \/ RunAborts(w) \/ Mark(w) \/ Report(w)
    <3>1. UNCHANGED <<vulns, ingested, sent, vexed>>
      BY <2>1 DEF Take, Load, LoadFails, RunLoop, RunAborts, Mark, Report, bomhortVars
    <3> QED BY <3>1, LoopClaims
  <2>2. CASE (Deliver(w) \/ DeliverFails(w)) /\ Accept(w)
    <3>1. /\ UNCHANGED <<vulns, ingested, vexed, mem, disk>>
          /\ Running(w) /\ sent' = [sent EXCEPT ![job[w].sbom] = @ \cup Entries(w)]
      BY <2>2 DEF Deliver, DeliverFails, Accept, loopVars
    <3>2. C!Answer(job[w].sbom)
      BY <1>0, <3>1 DEF C!Answer
    <3> QED BY <1>0, <3>1, <3>2 DEF AbstractStep, C!CoverageNext
  <2>3. CASE (Deliver(w) \/ DeliverFails(w)) /\ UNCHANGED sent
    <3>1. UNCHANGED <<vulns, ingested, sent, vexed>>
      BY <2>3 DEF Deliver, DeliverFails
    <3> QED BY <3>1, LoopClaims
  <2>4. Deliver(w) \/ DeliverFails(w) => Accept(w) \/ UNCHANGED sent
    BY DEF Deliver, DeliverFails
  <2> QED BY <1>2, <2>1, <2>2, <2>3, <2>4 DEF WorkerStep
<1>3. ASSUME NEW s \in Sbom, Match(s) \/ Withdraw(s) \/ Ingest(s) \/ Apply(s) PROVE AbstractStep
  <2>1. UNCHANGED <<mem, disk>>
    BY <1>3 DEF Match, Withdraw, Ingest, Apply, Change, loopVars
  <2>2. CASE Match(s)
    <3>1. C!Match(s)
      BY <2>1, <2>2 DEF Match, Change, C!Match, C!Findings
    <3> QED BY <3>1 DEF AbstractStep, C!CoverageNext
  <2>3. CASE Withdraw(s)
    <3>1. C!Withdraw(s)
      BY <2>1, <2>3 DEF Withdraw, Change, C!Withdraw, C!Findings
    <3> QED BY <3>1 DEF AbstractStep, C!CoverageNext
  <2>4. CASE Ingest(s)
    <3>1. C!Ingest(s)
      BY <2>1, <2>4 DEF Ingest, Change, C!Ingest, C!Findings
    <3> QED BY <3>1 DEF AbstractStep, C!CoverageNext
  <2>5. CASE Apply(s)
    <3>1. C!Apply(s)
      BY <2>1, <2>5 DEF Apply, C!Apply
    <3> QED BY <3>1 DEF AbstractStep, C!CoverageNext
  <2> QED BY <1>3, <2>2, <2>3, <2>4, <2>5
<1> QED BY <1>1, <1>2, <1>3 DEF WatchNext, BomhortStep

\* With uploads on, every behaviour of the watch, with all its workers,
\* deferrals, failures and crashes, is one of Coverage: nothing counts as done
\* in its present version before it is answered, and no statement is taken back
\* (watch.go:83-85, 195-213).
THEOREM WatchCovers ==
  ASSUME Upload
  PROVE  WatchSpec => ImplementsCoverage
<1>1. CoverageInv /\ [WatchNext]_watchVars => CoverInv'
  BY CoverStep DEF CoverageInv
<1>2. CoverageInv /\ CoverInv' /\ WatchTypeOK' /\ [WatchNext]_watchVars
      => [C!CoverageNext]_(C!coverageVars)
  BY RefinementStep DEF AbstractStep
<1>3. WatchSpec => []CoverageInv
  BY <1>1, CoverInit, WatchPool, PTL DEF WatchSpec, CoverageInv
<1>4. CoverageInv => WatchTypeOK
  BY DEF CoverageInv
<1> QED BY <1>2, <1>3, <1>1, <1>4, RefinementInit, PTL DEF WatchSpec, ImplementsCoverage, C!CoverageSpec

-----------------------------------------------------------------------------
(* Coverage itself: why its claims hold.  A version that was claimed falls *)
(* behind for good once a finding appears.                                 *)

ClaimInv ==
  /\ vulns \in [Sbom -> SUBSET Question] /\ ingested \in [Sbom -> Nat]
  /\ sent \in [Sbom -> SUBSET Question]
  /\ \A s \in Sbom : {mem[s], disk[s]} \subseteq C!Version
  /\ \A s \in Sbom \ Churn : \A v \in {mem[s], disk[s]} : C!MayClaim(s, v)

LEMMA SameCount == \A S : C!Cardinality(S) = Cardinality(S)
BY DEF C!Cardinality, Cardinality

LEMMA ClaimInit == C!CoverageInit => ClaimInv
<1> SUFFICES ASSUME C!CoverageInit PROVE ClaimInv
  OBVIOUS
<1>1. ASSUME NEW s \in Sbom PROVE {mem[s], disk[s]} = {C!never}
  <2>1. [t \in Sbom |-> {mem[t], disk[t]}][s] = {C!never}
    BY DEF C!CoverageInit
  <2> QED BY <2>1
<1>2. vulns \in [Sbom -> SUBSET Question] /\ ingested \in [Sbom -> Nat] /\ sent \in [Sbom -> SUBSET Question]
  BY DEF C!CoverageInit
<1>3. ASSUME NEW s \in Sbom PROVE C!MayClaim(s, C!never) /\ C!never \in C!Version
  <2>1. Cardinality(vulns[s]) \in Nat /\ ingested[s] \in Nat
    BY <1>2, QuestionAssumption, FS_Subset, FS_CardinalityType
  <2> QED BY <2>1, SameCount DEF C!MayClaim, C!Behind, C!never, C!version, C!Version
<1> QED BY <1>1, <1>2, <1>3 DEF ClaimInv

LEMMA ClaimStep == ClaimInv /\ [C!CoverageNext]_(C!coverageVars) => ClaimInv'
<1> SUFFICES ASSUME ClaimInv, [C!CoverageNext]_(C!coverageVars) PROVE ClaimInv'
  OBVIOUS
<1>0. \A s \in Sbom : Cardinality(vulns[s]) \in Nat /\ ingested[s] \in Nat
  BY QuestionAssumption, FS_Subset, FS_CardinalityType DEF ClaimInv
<1>1. ASSUME UNCHANGED [s \in Sbom |-> {mem[s], disk[s]}]
      PROVE  \A s \in Sbom : {mem'[s], disk'[s]} = {mem[s], disk[s]}
  <2> SUFFICES ASSUME NEW s \in Sbom PROVE {mem'[s], disk'[s]} = {mem[s], disk[s]}
    OBVIOUS
  <2>1. [t \in Sbom |-> {mem'[t], disk'[t]}][s] = [t \in Sbom |-> {mem[t], disk[t]}][s]
    BY <1>1
  <2> QED BY <2>1
<1>2. ASSUME NEW s \in Sbom, C!Match(s) \/ C!Withdraw(s) \/ C!Ingest(s) PROVE ClaimInv'
  <2>1. PICK qs \in SUBSET Question :
          /\ vulns' = [vulns EXCEPT ![s] = qs] /\ UNCHANGED <<sent, vexed>>
          /\ UNCHANGED [t \in Sbom |-> {mem[t], disk[t]}]
          /\ \/ ingested' = [ingested EXCEPT ![s] = @ + 1]
             \/ UNCHANGED ingested /\ s \in Churn
             \/ UNCHANGED ingested /\ \E q \in Question \ vulns[s] : qs = vulns[s] \cup {q}
    <3>1. vulns[s] \subseteq Question
      BY DEF ClaimInv
    <3>2. CASE C!Match(s)
      <4>1. PICK q \in Question \ vulns[s] : C!Findings(s, vulns[s] \cup {q}) /\ UNCHANGED ingested
        BY <3>2 DEF C!Match
      <4>2. vulns[s] \cup {q} \in SUBSET Question
        BY <3>1
      <4> QED BY <4>1, <4>2 DEF C!Findings
    <3>3. CASE C!Withdraw(s)
      <4>1. PICK q \in vulns[s] : C!Findings(s, vulns[s] \ {q}) /\ UNCHANGED ingested /\ s \in Churn
        BY <3>3 DEF C!Withdraw
      <4>2. vulns[s] \ {q} \in SUBSET Question
        BY <3>1
      <4> QED BY <4>1, <4>2 DEF C!Findings
    <3>4. CASE C!Ingest(s)
      BY <3>4 DEF C!Ingest, C!Findings
    <3> QED BY <1>2, <3>2, <3>3, <3>4
  <2>2. vulns' \in [Sbom -> SUBSET Question] /\ ingested' \in [Sbom -> Nat] /\ sent' \in [Sbom -> SUBSET Question]
    BY <2>1 DEF ClaimInv
  <2>3. ASSUME NEW t \in Sbom \ Churn, NEW v \in {mem'[t], disk'[t]} PROVE C!MayClaim(t, v)'
    <3>1. v \in C!Version /\ C!MayClaim(t, v)
      BY <1>1, <2>1, <2>3 DEF ClaimInv
    <3>2. CASE t # s
      BY <2>1, <3>1, <3>2 DEF C!MayClaim, C!Behind, C!version, ClaimInv
    <3>3. CASE t = s /\ ingested' = [ingested EXCEPT ![s] = @ + 1]
      <4>1. ingested'[t] = ingested[t] + 1
        BY <3>3 DEF ClaimInv
      <4> QED BY <1>0, <3>1, <4>1 DEF C!MayClaim, C!Behind, C!version, C!Version
    <3>4. CASE t = s /\ UNCHANGED ingested /\ \E q \in Question \ vulns[s] : qs = vulns[s] \cup {q}
      <4>1. vulns'[t] = qs /\ Cardinality(qs) = Cardinality(vulns[t]) + 1
        <5>1. vulns[t] \in SUBSET Question /\ vulns'[t] = qs
          BY <2>1, <3>4 DEF ClaimInv
        <5>2. PICK q \in Question \ vulns[t] : qs = vulns[t] \cup {q}
          BY <3>4
        <5>3. IsFiniteSet(vulns[t])
          BY <5>1, QuestionAssumption, FS_Subset
        <5> QED BY <5>1, <5>2, <5>3, FS_AddElement
      <4> QED BY <1>0, <3>1, <3>4, <4>1, SameCount DEF C!MayClaim, C!Behind, C!version, C!Version
    <3> QED BY <2>1, <3>2, <3>3, <3>4
  <2>4. \A t \in Sbom : {mem'[t], disk'[t]} = {mem[t], disk[t]}
    BY <1>1, <2>1
  <2>5. \A t \in Sbom : {mem'[t], disk'[t]} \subseteq C!Version
    BY <2>4 DEF ClaimInv
  <2>6. \A t \in Sbom \ Churn : \A v \in {mem'[t], disk'[t]} : C!MayClaim(t, v)'
    BY <2>3
  <2> QED BY <2>2, <2>5, <2>6 DEF ClaimInv
<1>3. ASSUME NEW s \in Sbom, C!Answer(s) PROVE ClaimInv'
  <2>1. /\ UNCHANGED <<vulns, ingested>> /\ UNCHANGED [t \in Sbom |-> {mem[t], disk[t]}]
        /\ \A t \in Sbom : sent[t] \subseteq sent'[t]
        /\ sent' \in [Sbom -> SUBSET Question]
    BY <1>3 DEF C!Answer, ClaimInv
  <2>2. \A t \in Sbom : \A v : C!MayClaim(t, v) => C!MayClaim(t, v)'
    BY <2>1 DEF C!MayClaim, C!Behind, C!version
  <2>3. \A t \in Sbom : {mem'[t], disk'[t]} = {mem[t], disk[t]}
    BY <1>1, <2>1
  <2>4. ASSUME NEW t \in Sbom \ Churn, NEW v \in {mem'[t], disk'[t]} PROVE C!MayClaim(t, v)'
    BY <2>2, <2>3 DEF ClaimInv
  <2> QED BY <2>1, <2>3, <2>4 DEF ClaimInv
<1>4. CASE UNCHANGED C!coverageVars \/ \E s \in Sbom : C!Apply(s)
  <2>1. UNCHANGED <<vulns, ingested, sent>> /\ UNCHANGED [t \in Sbom |-> {mem[t], disk[t]}]
    BY <1>4 DEF C!coverageVars, C!Apply
  <2>2. \A t \in Sbom : \A v : C!MayClaim(t, v) => C!MayClaim(t, v)'
    BY <2>1 DEF C!MayClaim, C!Behind, C!version
  <2>3. \A t \in Sbom : {mem'[t], disk'[t]} = {mem[t], disk[t]}
    BY <1>1, <2>1
  <2>4. ASSUME NEW t \in Sbom \ Churn, NEW v \in {mem'[t], disk'[t]} PROVE C!MayClaim(t, v)'
    BY <2>2, <2>3 DEF ClaimInv
  <2> QED BY <2>1, <2>3, <2>4 DEF ClaimInv
<1>5. CASE C!Claim
  <2>1. UNCHANGED <<vulns, ingested, sent>>
    BY <1>5 DEF C!Claim
  <2>2. \A t \in Sbom : \A v : C!MayClaim(t, v) => C!MayClaim(t, v)'
    BY <2>1 DEF C!MayClaim, C!Behind, C!version
  <2>3. ASSUME NEW t \in Sbom PROVE {mem'[t], disk'[t]} \subseteq C!Version
    <3>1. [u \in Sbom |-> {mem'[u], disk'[u]}][t] \subseteq C!Version
      BY <1>5 DEF C!Claim
    <3> QED BY <3>1
  <2>4. ASSUME NEW t \in Sbom \ Churn, NEW v \in {mem'[t], disk'[t]} PROVE C!MayClaim(t, v)
    <3>1. \A w \in [u \in Sbom |-> {mem'[u], disk'[u]}][t] \ [u \in Sbom |-> {mem[u], disk[u]}][t] : C!MayClaim(t, w)
      BY <1>5 DEF C!Claim
    <3> QED BY <3>1 DEF ClaimInv
  <2> QED BY <2>1, <2>2, <2>3, <2>4 DEF ClaimInv
<1> QED BY <1>2, <1>3, <1>4, <1>5 DEF C!CoverageNext

\* Coverage says enough: by it alone, an SBOM that counts as processed in its
\* present version has a statement for every finding (watch.go:195-213).
THEOREM CoverageSuffices == ImplementsCoverage => []ProcessedIsCovered
<1>1. ClaimInv => ProcessedIsCovered
  BY SameCount DEF ClaimInv, ProcessedIsCovered, C!MayClaim, C!version, Listed, fingerprint
<1> QED BY <1>1, ClaimInit, ClaimStep, PTL DEF ImplementsCoverage, C!CoverageSpec
=============================================================================
