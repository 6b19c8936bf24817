----------------------------- MODULE AssessProof -----------------------------
(***************************************************************************)
(* Proofs about the assess loop, for any number of workers and questions   *)
(* and every value of the other constants.                                 *)
(***************************************************************************)
EXTENDS Assess, FiniteSetTheorems, TLAPS

-----------------------------------------------------------------------------
(* The provider.                                                           *)

\* A call costs zero, one or three attempts of the meter at most.
LEMMA MaxCountedValues == MaxCounted \in {0, 1, 3}
  BY ProviderAssumption DEF MaxCounted, Attempts

\* What a call reports is a natural number and stays below MaxCounted, and
\* somebody has answered.
LEMMA OutcomeType ==
  ASSUME NEW o \in Outcome
  PROVE  o.counted \in Nat /\ o.counted <= MaxCounted /\ o.by \in By
<1>1. Attempts \in {0, 1, 3}
  BY ProviderAssumption DEF Attempts
<1>2. Provider = "heuristic" => o.counted = 0 /\ o.by = "heuristic"
  BY DEF Outcome
<1>3. ASSUME Provider # "heuristic"
      PROVE  \E n \in 0 .. Attempts :
               \/ o = [made |-> n, counted |-> Reported(n), by |-> "primary"]
               \/ o = [made |-> n, counted |-> 0, by |-> "heuristic"]
  BY <1>1, <1>3 DEF Outcome
<1>4. CASE Provider = "heuristic"
  BY <1>2, <1>4, MaxCountedValues DEF By
<1>5. CASE Provider # "heuristic"
  BY <1>1, <1>3, <1>5 DEF Reported, MaxCounted, By
<1> QED BY <1>4, <1>5

-----------------------------------------------------------------------------
(* The inductive invariant.  The types alone are not inductive: Defer puts *)
(* current[w] among the findings, and only the phase of the run says that  *)
(* there is one in hand.                                                   *)

\* A finding is in hand from the cache miss to the stored verdict, an answer
\* from the call to the store, and a run that has left has left nothing.
RunsInOrder ==
  \A w \in Worker :
    /\ current[w] # None <=> phase[w] \in {"check", "asking", "answered"}
    /\ answer[w] # "absent" <=> phase[w] = "answered"
    /\ phase[w] = "idle" =>
         /\ findings[w] = {} /\ left[w] = {} /\ deferred[w] = {}
         /\ verdict[w] = NoVerdicts

LoopInv == AssessTypeOK /\ RunsInOrder

\* What a run does in its loop keeps the invariant.
LEMMA LoopStep ==
  ASSUME LoopInv, NEW w \in Worker, Loop(w)
  PROVE  LoopInv'
<1> USE NoneAssumption DEF LoopInv, AssessTypeOK, RunsInOrder, Verdict, Phase
<1>1. ASSUME NEW q \in Question, Hit(w, q) PROVE LoopInv'
  BY <1>1 DEF Hit
<1>2. ASSUME NEW q \in Question, Miss(w, q) PROVE LoopInv'
  BY <1>2 DEF Miss
<1>3. CASE Defer(w)
  BY <1>3 DEF Defer
<1>4. CASE Ask(w)
  BY <1>4 DEF Ask
<1>5. CASE Keep(w)
  BY <1>5 DEF Keep, Put
<1>6. CASE Build(w)
  BY <1>6 DEF Build
<1>7. ASSUME NEW o \in Outcome, Return(w, o) PROVE LoopInv'
  BY <1>7, OutcomeType DEF Return, By
<1> QED BY <1>1, <1>2, <1>3, <1>4, <1>5, <1>6, <1>7 DEF Loop

\* What anybody does keeps the invariant.
LEMMA LoopInvStep ==
  ASSUME LoopInv, [AssessNext]_assessVars
  PROVE  LoopInv'
<1> USE NoneAssumption DEF LoopInv, AssessTypeOK, RunsInOrder, Verdict, Phase
<1>1. ASSUME NEW w \in Worker, Loop(w) PROVE LoopInv'
  BY <1>1, LoopStep
<1>2. ASSUME NEW w \in Worker, Abort(w) PROVE LoopInv'
  BY <1>2 DEF Abort
<1>3. ASSUME NEW w \in Worker, End(w) PROVE LoopInv'
  BY <1>3 DEF End, Leave, NoVerdicts
<1>4. ASSUME NEW w \in Worker, NEW qs \in SUBSET Question, Begin(w, qs)
      PROVE  LoopInv'
  BY <1>4 DEF Begin
<1>5. ASSUME NEW q \in Question, Expire(q) PROVE LoopInv'
  BY <1>5 DEF Expire, runVars
<1>6. CASE NewPass
  BY <1>6 DEF NewPass, runVars
<1>7. CASE UNCHANGED assessVars
  BY <1>7 DEF assessVars, runVars
<1> QED BY <1>1, <1>2, <1>3, <1>4, <1>5, <1>6, <1>7 DEF AssessNext

LEMMA LoopInit == AssessInit => LoopInv
  BY DEF AssessInit, LoopInv, AssessTypeOK, RunsInOrder, NoVerdicts, Verdict, Phase

LEMMA LoopInvariant == AssessSpec => []LoopInv
  BY LoopInit, LoopInvStep, PTL DEF AssessSpec

\* The state of the loop is well formed in every reachable state: in
\* particular the meter never goes below zero.
THEOREM TypeCorrect == AssessSpec => []AssessTypeOK
<1>1. LoopInv => AssessTypeOK
  BY DEF LoopInv
<1> QED BY <1>1, LoopInvariant, PTL

-----------------------------------------------------------------------------
(* The meter.                                                              *)

LEMMA CallsFinite == IsFiniteSet(InCall) /\ Cardinality(InCall) \in Nat
                     /\ Cardinality(InCall) <= Cardinality(Worker)
                     /\ Cardinality(Worker) \in Nat
  BY WorkerAssumption, FS_Subset, FS_CardinalityType DEF InCall

\* The charge of every call in flight still fits when calls go from n to m.
LEMMA ChargesFit ==
  ASSUME NEW m \in Nat, NEW n \in Nat, m <= n
  PROVE  MaxCounted * m <= MaxCounted * n /\ MaxCounted * m \in Nat
         /\ (m = n - 1 => MaxCounted * m + MaxCounted = MaxCounted * n)
<1>1. CASE MaxCounted = 0 BY <1>1
<1>2. CASE MaxCounted = 1 BY <1>2
<1>3. CASE MaxCounted = 3 BY <1>3
<1> QED BY <1>1, <1>2, <1>3, MaxCountedValues

LEMMA SpendStep ==
  ASSUME LoopInv, SpendBounded, [AssessNext]_assessVars
  PROVE  SpendBounded'
<1> DEFINE calls == Cardinality(InCall)
           all   == Cardinality(Worker)
<1>a. /\ calls \in Nat /\ calls <= all /\ all \in Nat /\ IsFiniteSet(InCall)
      /\ spent \in Nat
  BY CallsFinite DEF LoopInv, AssessTypeOK
<1>b. InCall' \subseteq Worker /\ calls' \in Nat /\ calls' <= all
  BY WorkerAssumption, FS_Subset, FS_CardinalityType DEF InCall
<1>c. phase \in [Worker -> Phase] /\ MaxCalls \in Nat /\ MaxCounted \in Nat
  BY MaxCallsAssumption, MaxCountedValues DEF LoopInv, AssessTypeOK
<1>d. ASSUME spent' = spent, InCall' = InCall PROVE SpendBounded'
  BY <1>d DEF SpendBounded
<1>1. ASSUME NEW w \in Worker, Ask(w) PROVE SpendBounded'
  <2>1. MaxCounted * calls' <= MaxCounted * all /\ MaxCounted * calls' \in Nat
    BY <1>a, <1>b, ChargesFit
  <2>2. MaxCalls > 0 => spent' <= MaxCalls - 1
    BY <1>1, <1>a, <1>c DEF Ask, Exceeded
  <2>3. spent' \in Nat /\ MaxCounted * all \in Nat
    BY <1>1, <1>a, ChargesFit DEF Ask
  <2> QED BY <2>1, <2>2, <2>3, <1>c DEF SpendBounded
<1>2. ASSUME NEW w \in Worker, NEW o \in Outcome, Return(w, o) PROVE SpendBounded'
  <2>1. InCall' = InCall \ {w} /\ w \in InCall
    BY <1>2, <1>c DEF Return, InCall
  <2>2. calls' = calls - 1
    BY <2>1, <1>a, FS_RemoveElement
  <2>3. /\ MaxCounted * calls' + MaxCounted = MaxCounted * calls
        /\ MaxCounted * calls' \in Nat /\ MaxCounted * calls \in Nat
    BY <2>2, <1>a, <1>b, ChargesFit
  <2>4. spent' = spent + o.counted /\ o.counted \in Nat /\ o.counted <= MaxCounted
    BY <1>2, OutcomeType DEF Return
  <2>5. MaxCounted * all \in Nat
    BY <1>a, ChargesFit
  <2> QED BY <2>3, <2>4, <2>5, <1>a, <1>c DEF SpendBounded
<1>3. CASE NewPass
  <2>1. InCall' = {} /\ spent' = 0
    BY <1>3 DEF NewPass, InCall, runVars
  <2>2. calls' = 0
    BY <2>1, FS_EmptySet
  <2>3. MaxCounted * all \in Nat
    BY <1>a, ChargesFit
  <2> QED BY <2>1, <2>2, <2>3, <1>c DEF SpendBounded
<1>4. ASSUME NEW w \in Worker, NEW q \in Question, Hit(w, q) \/ Miss(w, q)
      PROVE  SpendBounded'
  BY <1>4, <1>c, <1>d DEF Hit, Miss, InCall, Phase
<1>5. ASSUME NEW w \in Worker, Defer(w) \/ Keep(w) \/ Build(w) \/ Abort(w) \/ End(w)
      PROVE  SpendBounded'
  BY <1>5, <1>c, <1>d DEF Defer, Keep, Build, Abort, End, Leave, InCall, Phase
<1>6. ASSUME NEW w \in Worker, NEW qs \in SUBSET Question, Begin(w, qs)
      PROVE  SpendBounded'
  BY <1>6, <1>c, <1>d DEF Begin, InCall, Phase
<1>7. ASSUME NEW q \in Question, Expire(q) PROVE SpendBounded'
  BY <1>7, <1>d DEF Expire, runVars, InCall
<1>8. CASE UNCHANGED assessVars
  BY <1>8, <1>d DEF assessVars, runVars, InCall
<1> QED BY <1>1, <1>2, <1>3, <1>4, <1>5, <1>6, <1>7, <1>8 DEF AssessNext, Loop

\* Whatever the number of workers, a pass spends at most one call less than
\* max_calls plus one full call for every worker.
THEOREM SpendIsBounded == AssessSpec => []SpendBounded
<1>1. AssessInit => SpendBounded
  <2> SUFFICES ASSUME AssessInit PROVE SpendBounded
    OBVIOUS
  <2>1. InCall = {} /\ spent = 0
    BY DEF AssessInit, InCall
  <2>2. MaxCounted * Cardinality(Worker) \in Nat /\ MaxCounted \in Nat
    BY CallsFinite, ChargesFit, MaxCountedValues
  <2> QED BY <2>1, <2>2, FS_EmptySet, MaxCallsAssumption DEF SpendBounded
<1> QED BY <1>1, SpendStep, LoopInvariant, PTL DEF AssessSpec

-----------------------------------------------------------------------------
(* Deferrals.                                                              *)

LEMMA DeferStep ==
  ASSUME LoopInv, DeferredOnlyWhenSpent, [AssessNext]_assessVars
  PROVE  DeferredOnlyWhenSpent'
<1> USE DEF DeferredOnlyWhenSpent, Exceeded
<1>a. spent \in Nat /\ deferred \in [Worker -> SUBSET Question] /\ MaxCalls \in Nat
  BY MaxCallsAssumption DEF LoopInv, AssessTypeOK
<1>1. ASSUME NEW w \in Worker, Defer(w) PROVE DeferredOnlyWhenSpent'
  BY <1>1, <1>a DEF Defer
<1>2. ASSUME NEW w \in Worker, NEW o \in Outcome, Return(w, o)
      PROVE  DeferredOnlyWhenSpent'
  BY <1>2, <1>a, OutcomeType DEF Return
<1>3. CASE NewPass
  <2>1. \A w \in Worker : deferred[w] = {}
    BY <1>3 DEF NewPass, LoopInv, RunsInOrder
  <2> QED BY <2>1, <1>3 DEF NewPass, runVars
<1>4. ASSUME NEW w \in Worker, End(w) PROVE DeferredOnlyWhenSpent'
  BY <1>4, <1>a DEF End, Leave
<1>5. ASSUME NEW w \in Worker, NEW q \in Question, Hit(w, q) \/ Miss(w, q)
      PROVE  DeferredOnlyWhenSpent'
  BY <1>5 DEF Hit, Miss
<1>6. ASSUME NEW w \in Worker, Ask(w) \/ Keep(w) \/ Build(w) \/ Abort(w)
      PROVE  DeferredOnlyWhenSpent'
  BY <1>6 DEF Ask, Keep, Build, Abort
<1>7. ASSUME NEW w \in Worker, NEW qs \in SUBSET Question, Begin(w, qs)
      PROVE  DeferredOnlyWhenSpent'
  BY <1>7 DEF Begin
<1>8. ASSUME NEW q \in Question, Expire(q) PROVE DeferredOnlyWhenSpent'
  BY <1>8 DEF Expire, runVars
<1>9. CASE UNCHANGED assessVars
  BY <1>9 DEF assessVars, runVars
<1> QED BY <1>1, <1>2, <1>3, <1>4, <1>5, <1>6, <1>7, <1>8, <1>9 DEF AssessNext, Loop

\* No finding is ever left without a statement while the budget has money
\* for it: from the first deferral of a pass to its end nobody is asked.
THEOREM DeferralsAreJustified == AssessSpec => []DeferredOnlyWhenSpent
<1>1. AssessInit => DeferredOnlyWhenSpent
  BY DEF AssessInit, DeferredOnlyWhenSpent
<1> QED BY <1>1, DeferStep, LoopInvariant, PTL DEF AssessSpec

-----------------------------------------------------------------------------
(* Completeness of a run.                                                  *)

LEMMA LossStep ==
  ASSUME LoopInv, NothingLost, [AssessNext]_assessVars
  PROVE  NothingLost'
<1> USE NoneAssumption DEF NothingLost, Entries, InHand
<1>a. AssessTypeOK /\ RunsInOrder
  BY DEF LoopInv
<1>1. ASSUME NEW w \in Worker, NEW q \in Question, Hit(w, q) PROVE NothingLost'
  BY <1>1, <1>a DEF Hit, Cached, AssessTypeOK, RunsInOrder
<1>2. ASSUME NEW w \in Worker, NEW q \in Question, Miss(w, q) PROVE NothingLost'
  BY <1>2, <1>a DEF Miss, AssessTypeOK, RunsInOrder
<1>3. ASSUME NEW w \in Worker, Defer(w) PROVE NothingLost'
  BY <1>3, <1>a DEF Defer, AssessTypeOK, RunsInOrder
<1>4. ASSUME NEW w \in Worker, Keep(w) PROVE NothingLost'
  BY <1>4, <1>a DEF Keep, AssessTypeOK, RunsInOrder
<1>5. ASSUME NEW w \in Worker, NEW qs \in SUBSET Question, Begin(w, qs)
      PROVE  NothingLost'
  BY <1>5, <1>a DEF Begin, AssessTypeOK, RunsInOrder, NoVerdicts
<1>6. ASSUME NEW w \in Worker, End(w) PROVE NothingLost'
  <2>1. /\ findings[w]' = {} /\ left[w]' = {} /\ deferred[w]' = {}
        /\ verdict[w]' = NoVerdicts
    BY <1>6, <1>a DEF End, Leave, AssessTypeOK
  <2>2. InHand(w)' = {}
    BY <1>6, <1>a DEF End, Leave, AssessTypeOK, RunsInOrder
  <2>3. Entries(w)' = {}
    BY <2>1 DEF NoVerdicts
  <2>4. \A v \in Worker \ {w} :
          /\ findings[v]' = findings[v] /\ left[v]' = left[v] /\ deferred[v]' = deferred[v]
          /\ Entries(v)' = Entries(v) /\ InHand(v)' = InHand(v)
    BY <1>6, <1>a DEF End, Leave, AssessTypeOK
  <2> HIDE DEF Entries, InHand
  <2> QED BY <2>1, <2>2, <2>3, <2>4
<1>7. ASSUME NEW w \in Worker, NEW o \in Outcome, Return(w, o) PROVE NothingLost'
  BY <1>7 DEF Return
<1>8. ASSUME NEW w \in Worker, Ask(w) \/ Build(w) \/ Abort(w) PROVE NothingLost'
  BY <1>8 DEF Ask, Build, Abort
<1>9. ASSUME NEW q \in Question, Expire(q) PROVE NothingLost'
  BY <1>9 DEF Expire, runVars
<1>10. CASE NewPass
  BY <1>10 DEF NewPass, runVars
<1>11. CASE UNCHANGED assessVars
  BY <1>11 DEF assessVars, runVars
<1> QED BY <1>1, <1>2, <1>3, <1>4, <1>5, <1>6, <1>7, <1>8, <1>9, <1>10, <1>11
        DEF AssessNext, Loop

\* Every finding of every run is accounted for exactly once at every moment.
THEOREM NothingIsLost == AssessSpec => []NothingLost
<1>1. AssessInit => NothingLost
  BY DEF AssessInit, NothingLost, Entries, InHand, NoVerdicts
<1> QED BY <1>1, LossStep, LoopInvariant, PTL DEF AssessSpec
-----------------------------------------------------------------------------
(* The safety half of RunsFinish: no run loops for ever.                   *)

\* The steps of its loop a run has ahead of it at most: four for every finding
\* it has not reached, and those of the finding in hand.
Looping(w) == phase[w] \in {"next", "check", "asking", "answered"}
InHandSteps(p) ==
  CASE p = "check" -> 4 [] p = "asking" -> 3 [] p = "answered" -> 2 [] p = "next" -> 1 [] OTHER -> 0
ToGo(w) == 4 * Cardinality(left[w]) + InHandSteps(phase[w])

\* A run in its loop is left with fewer of them by every step of its own, and
\* with no more by what providers, cache, meter and other runs do.
WindsDown ==
  \A w \in Worker : Looping(w) =>
    /\ ToGo(w) \in Nat /\ ToGo(w)' \in Nat
    /\ Loop(w) => ToGo(w)' < ToGo(w)
    /\ ToGo(w)' <= ToGo(w)

LEMMA FindingsFinite ==
  ASSUME IsFiniteSet(Question), NEW S \in SUBSET Question
  PROVE  /\ Cardinality(S) \in Nat
         /\ \A q \in S : Cardinality(S \ {q}) = Cardinality(S) - 1
<1>1. IsFiniteSet(S)
  BY FS_Subset
<1> QED BY <1>1, FS_RemoveElement, FS_CardinalityType

LEMMA WindsDownStep ==
  ASSUME IsFiniteSet(Question), AssessTypeOK, AssessTypeOK', AssessNext
  PROVE  WindsDown
<1> SUFFICES ASSUME NEW w \in Worker, Looping(w)
             PROVE  /\ ToGo(w) \in Nat /\ ToGo(w)' \in Nat
                    /\ Loop(w) => ToGo(w)' < ToGo(w)
                    /\ ToGo(w)' <= ToGo(w)
  BY DEF WindsDown
<1> DEFINE n == Cardinality(left[w])
<1>a. /\ phase \in [Worker -> Phase] /\ left \in [Worker -> SUBSET Question]
      /\ left'[w] \in SUBSET Question
  BY DEF AssessTypeOK
<1>b. n \in Nat /\ \A q \in left[w] : Cardinality(left[w] \ {q}) = n - 1 /\ n - 1 \in Nat
  BY <1>a, FindingsFinite
<1>c. \A p : InHandSteps(p) \in 0 .. 4
  BY DEF InHandSteps
<1>d. ToGo(w) \in Nat /\ ToGo(w)' \in Nat
  <2>1. Cardinality(left'[w]) \in Nat
    BY <1>a, FindingsFinite
  <2> QED BY <1>b, <1>c, <2>1 DEF ToGo
<1>1. ASSUME NEW q \in Question, Hit(w, q) \/ Miss(w, q)
      PROVE  ToGo(w)' < ToGo(w)
  <2>1. /\ q \in left[w] /\ phase[w] = "next" /\ left'[w] = left[w] \ {q}
        /\ phase'[w] \in {"next", "check"}
    BY <1>1, <1>a DEF Hit, Miss
  <2>2. InHandSteps(phase[w]) = 1 /\ InHandSteps(phase'[w]) <= 4 /\ InHandSteps(phase'[w]) \in Nat
    BY <1>c, <2>1 DEF InHandSteps
  <2>3. Cardinality(left'[w]) = n - 1
    BY <1>b, <2>1
  <2> QED BY <1>b, <2>2, <2>3 DEF ToGo
<1>2. ASSUME \/ Defer(w) \/ Ask(w) \/ Keep(w) \/ Build(w) \/ Abort(w)
             \/ \E o \in Outcome : Return(w, o)
      PROVE  ToGo(w)' < ToGo(w)
  <2>1. /\ left'[w] = left[w]
        /\ \/ phase[w] = "check" /\ phase'[w] \in {"next", "asking"}
           \/ phase[w] = "asking" /\ phase'[w] = "answered"
           \/ phase[w] = "answered" /\ phase'[w] = "next"
           \/ phase[w] = "next" /\ phase'[w] \in {"built", "failed"}
    BY <1>2, <1>a DEF Defer, Ask, Keep, Build, Abort, Return
  <2>2. InHandSteps(phase'[w]) < InHandSteps(phase[w])
    BY <2>1 DEF InHandSteps
  <2> QED BY <1>b, <1>c, <2>1, <2>2 DEF ToGo
<1>3. Loop(w) => ToGo(w)' < ToGo(w)
  BY <1>1, <1>2 DEF Loop
<1>4. ASSUME left'[w] = left[w], phase'[w] = phase[w] PROVE ToGo(w)' <= ToGo(w)
  BY <1>4, <1>d DEF ToGo
<1>5. ASSUME NEW v \in Worker, Loop(v) \/ Abort(v) \/ End(v) PROVE ToGo(w)' <= ToGo(w)
  <2>1. CASE v = w
    <3>1. ~End(w)
      BY DEF End, Looping
    <3> QED BY <1>2, <1>3, <1>5, <1>d, <2>1, <3>1
  <2>2. CASE v # w
    BY <1>4, <1>5, <1>a, <2>2 DEF Loop, Hit, Miss, Defer, Ask, Keep, Build, Return, Abort, End, Leave
  <2> QED BY <2>1, <2>2
<1>6. ASSUME NEW v \in Worker, NEW qs \in SUBSET Question, Begin(v, qs) PROVE ToGo(w)' <= ToGo(w)
  <2>1. v # w
    BY <1>6 DEF Begin, Looping
  <2> QED BY <1>4, <1>6, <1>a, <2>1 DEF Begin
<1>7. ASSUME NEW q \in Question, Expire(q) PROVE ToGo(w)' <= ToGo(w)
  BY <1>4, <1>7 DEF Expire, runVars
<1>8. ASSUME NewPass PROVE ToGo(w)' <= ToGo(w)
  <2>1. UNCHANGED <<phase, left>>
    BY <1>8 DEF NewPass, runVars
  <2> QED BY <1>4, <2>1
<1> QED BY <1>d, <1>3, <1>5, <1>6, <1>7, <1>8 DEF AssessNext

\* A run with finitely many findings takes finitely many steps through its
\* loop, however the provider, the cache and the budget turn out and whatever
\* other runs do in between (pipeline.go:388-430).
THEOREM RunsWindDown ==
  ASSUME IsFiniteSet(Question)
  PROVE  AssessSpec => [][WindsDown]_assessVars
<1>1. AssessTypeOK /\ AssessTypeOK' /\ [AssessNext]_assessVars => [WindsDown]_assessVars
  BY WindsDownStep
<1> QED BY <1>1, TypeCorrect, PTL DEF AssessSpec
=============================================================================
