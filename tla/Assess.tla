------------------------------- MODULE Assess -------------------------------
(***************************************************************************)
(* The assess loop of Pipeline.Run (internal/pipeline/pipeline.go), as the *)
(* workers of a watch pass execute it side by side: every run walks over   *)
(* its findings, looks each one up in the shared assessment cache, checks  *)
(* the shared budget, asks the provider and stores the verdict.  The cache *)
(* and the spend meter are the two pieces of state the runs share; neither *)
(* the lookup and the store nor the check and the charge are one step.     *)
(*                                                                         *)
(* A question stands for an assesscache.Key: two findings (of one SBOM or  *)
(* of several) with the same key are the same question.  Of the three      *)
(* limits of llm.BudgetLimits one is modelled, max_calls: the other two    *)
(* are read and charged by the same two statements.                        *)
(***************************************************************************)
EXTENDS Integers, FiniteSets

CONSTANTS
  Worker,       \* goroutines that run pipelines at the same time
  Question,     \* assessment questions (cache keys)
  None,         \* no question in hand
  Provider,     \* llm.provider
  MaxCalls,     \* llm.budget.max_calls; 0 means no limit
  CacheOn,      \* cache.enabled
  NoCache,      \* RunOptions.NoCache, Regenerate or Force: skip cache reads
  CacheFaults   \* what may happen to cache files: "write" (a Put fails),
                \* "expire" (an entry outlives cache.ttl or is pruned)

ASSUME WorkerAssumption   == IsFiniteSet(Worker)
ASSUME NoneAssumption     == None \notin Question
ASSUME ProviderAssumption ==
  Provider \in {"openai", "copilot", "mcptool", "heuristic"}
ASSUME MaxCallsAssumption == MaxCalls \in Nat
ASSUME CacheAssumption    ==
  CacheOn \in BOOLEAN /\ NoCache \in BOOLEAN /\ CacheFaults \subseteq {"write", "expire"}

VARIABLES
  spent,     \* Budget.spent.Calls, shared
  cache,     \* verdict on disk per question, "absent" if there is none, shared
  phase,     \* where each run stands
  findings,  \* the findings a run has to assess (after its filter)
  left,      \* those of them its loop has not reached
  current,   \* the finding in hand after a cache miss
  answer,    \* what the provider said about it
  verdict,   \* the entries of the run: who answered each finding
  deferred   \* findings left without a statement (Outcome.Deferred)

runVars    == <<phase, findings, left, current, answer, verdict, deferred>>
assessVars == <<spent, cache, runVars>>

Phase   == {"idle", "next", "check", "asking", "answered", "built", "delivered", "failed"}
By      == {"primary", "heuristic"}
Verdict == By \cup {"absent"}

NoVerdicts == [q \in Question |-> "absent"]

AssessTypeOK ==
  /\ spent \in Nat
  /\ cache \in [Question -> Verdict]
  /\ phase \in [Worker -> Phase]
  /\ findings \in [Worker -> SUBSET Question]
  /\ left \in [Worker -> SUBSET Question]
  /\ current \in [Worker -> Question \cup {None}]
  /\ answer \in [Worker -> Verdict]
  /\ verdict \in [Worker -> [Question -> Verdict]]
  /\ deferred \in [Worker -> SUBSET Question]

AssessInit ==
  /\ spent = 0
  /\ cache = NoVerdicts
  /\ phase = [w \in Worker |-> "idle"]
  /\ findings = [w \in Worker |-> {}]
  /\ left = [w \in Worker |-> {}]
  /\ current = [w \in Worker |-> None]
  /\ answer = [w \in Worker |-> "absent"]
  /\ verdict = [w \in Worker |-> NoVerdicts]
  /\ deferred = [w \in Worker |-> {}]

-----------------------------------------------------------------------------
(* The provider: what one Assess may cost and who ends up answering.       *)

\* OpenAI-compatible providers retry without a response format, twice.
Attempts ==
  CASE Provider = "openai"    -> 3
    [] Provider = "heuristic" -> 0
    [] OTHER                  -> 1

\* A successful call reports its attempts; the MCP tool never sets Usage.Calls.
Reported(n) == IF Provider = "mcptool" THEN 0 ELSE n

\* NewProvider wraps every provider but the heuristic in WithFallback, so an
\* error of the primary (whatever it cost) becomes a free heuristic verdict.
Outcome ==
  IF Provider = "heuristic"
  THEN {[made |-> 0, counted |-> 0, by |-> "heuristic"]}
  ELSE {[made |-> n, counted |-> Reported(n), by |-> "primary"] : n \in 1 .. Attempts}
         \cup {[made |-> n, counted |-> 0, by |-> "heuristic"] : n \in 0 .. Attempts}

\* The most one call to the provider adds to the meter.
MaxCounted == IF Provider = "mcptool" THEN 0 ELSE Attempts

-----------------------------------------------------------------------------
(* The shared meter and the shared cache.                                  *)

\* Mutant: the limit itself may still be spent (> for >=).
ExceededPastLimit == MaxCalls > 0 /\ spent > MaxCalls

\* Budget.Check on a nil (unlimited) or set budget.
Exceeded == MaxCalls > 0 /\ spent >= MaxCalls

Cached(q) == CacheOn /\ ~NoCache /\ cache[q] # "absent"

\* Mutant: only the primary's verdicts are worth keeping.
PutPrimaryOnly(w) ==
  cache' = [cache EXCEPT ![current[w]] =
              IF CacheOn /\ answer[w] = "primary" THEN answer[w] ELSE @]

\* Store.Put: write to a temporary file, rename.  A failed write is logged and
\* leaves the entry as it was.
Put(w) ==
  \/ /\ CacheOn
     /\ cache' = [cache EXCEPT ![current[w]] = answer[w]]
  \/ /\ CacheOn => "write" \in CacheFaults
     /\ UNCHANGED cache

\* An entry older than cache.ttl is a miss; operators prune files as well.
Expire(q) ==
  /\ "expire" \in CacheFaults
  /\ cache[q] # "absent"
  /\ cache' = [cache EXCEPT ![q] = "absent"]
  /\ UNCHANGED <<spent, runVars>>

-----------------------------------------------------------------------------
(* One run: the loop over its findings.                                    *)

\* Mutant: every run starts with a fresh budget.
BeginResetting(w, qs) ==
  /\ phase[w] = "idle"
  /\ phase' = [phase EXCEPT ![w] = "next"]
  /\ findings' = [findings EXCEPT ![w] = qs]
  /\ left' = [left EXCEPT ![w] = qs]
  /\ spent' = 0
  /\ UNCHANGED <<cache, current, answer, verdict, deferred>>

\* The findings that passed the filter are in hand.
Begin(w, qs) ==
  /\ phase[w] = "idle"
  /\ phase' = [phase EXCEPT ![w] = "next"]
  /\ findings' = [findings EXCEPT ![w] = qs]
  /\ left' = [left EXCEPT ![w] = qs]
  /\ UNCHANGED <<spent, cache, current, answer, verdict, deferred>>

\* The loop head sees a cancelled or expired context and gives the run up.
Abort(w) ==
  /\ phase[w] = "next" /\ left[w] # {}
  /\ phase' = [phase EXCEPT ![w] = "failed"]
  /\ UNCHANGED <<spent, cache, findings, left, current, answer, verdict, deferred>>

\* A stored verdict answers the finding.
Hit(w, q) ==
  /\ phase[w] = "next" /\ q \in left[w]
  /\ Cached(q)
  /\ left' = [left EXCEPT ![w] = @ \ {q}]
  /\ verdict' = [verdict EXCEPT ![w][q] = cache[q]]
  /\ UNCHANGED <<spent, cache, phase, findings, current, answer, deferred>>

\* No stored verdict: the budget is looked at next, in a step of its own.
Miss(w, q) ==
  /\ phase[w] = "next" /\ q \in left[w]
  /\ ~Cached(q)
  /\ left' = [left EXCEPT ![w] = @ \ {q}]
  /\ current' = [current EXCEPT ![w] = q]
  /\ phase' = [phase EXCEPT ![w] = "check"]
  /\ UNCHANGED <<spent, cache, findings, answer, verdict, deferred>>

\* Mutant: a finding beyond the budget is skipped without being counted.
DeferUncounted(w) ==
  /\ phase[w] = "check" /\ Exceeded
  /\ current' = [current EXCEPT ![w] = None]
  /\ phase' = [phase EXCEPT ![w] = "next"]
  /\ UNCHANGED <<spent, cache, findings, left, answer, verdict, deferred>>

\* Mutant: a finding beyond the budget waits for money.
DeferWaiting(w) ==
  /\ phase[w] = "check" /\ Exceeded
  /\ UNCHANGED assessVars

\* Beyond the budget the finding gets no statement.
Defer(w) ==
  /\ phase[w] = "check" /\ Exceeded
  /\ deferred' = [deferred EXCEPT ![w] = @ \cup {current[w]}]
  /\ current' = [current EXCEPT ![w] = None]
  /\ phase' = [phase EXCEPT ![w] = "next"]
  /\ UNCHANGED <<spent, cache, findings, left, answer, verdict>>

Ask(w) ==
  /\ phase[w] = "check" /\ ~Exceeded
  /\ phase' = [phase EXCEPT ![w] = "asking"]
  /\ UNCHANGED <<spent, cache, findings, left, current, answer, verdict, deferred>>

\* Mutant: a failed call gives money back.
ReturnRefunding(w, o) ==
  /\ phase[w] = "asking"
  /\ spent' = IF o.by = "heuristic" THEN spent - 1 ELSE spent + o.counted
  /\ answer' = [answer EXCEPT ![w] = o.by]
  /\ phase' = [phase EXCEPT ![w] = "answered"]
  /\ UNCHANGED <<cache, findings, left, current, verdict, deferred>>

\* Provider.Assess returns and its usage is charged (Budget.Spend).
Return(w, o) ==
  /\ phase[w] = "asking"
  /\ spent' = spent + o.counted
  /\ answer' = [answer EXCEPT ![w] = o.by]
  /\ phase' = [phase EXCEPT ![w] = "answered"]
  /\ UNCHANGED <<cache, findings, left, current, verdict, deferred>>

\* The verdict is stored and the entry appended.
Keep(w) ==
  /\ phase[w] = "answered"
  /\ Put(w)
  /\ verdict' = [verdict EXCEPT ![w][current[w]] = answer[w]]
  /\ answer' = [answer EXCEPT ![w] = "absent"]
  /\ current' = [current EXCEPT ![w] = None]
  /\ phase' = [phase EXCEPT ![w] = "next"]
  /\ UNCHANGED <<spent, findings, left, deferred>>

\* Every finding has been through the loop; the document is built from the
\* entries.
Build(w) ==
  /\ phase[w] = "next" /\ left[w] = {}
  /\ phase' = [phase EXCEPT ![w] = "built"]
  /\ UNCHANGED <<spent, cache, findings, left, current, answer, verdict, deferred>>

\* The result is handed to the caller and the worker forgets the run.
Leave(w) ==
  /\ phase' = [phase EXCEPT ![w] = "idle"]
  /\ findings' = [findings EXCEPT ![w] = {}]
  /\ left' = [left EXCEPT ![w] = {}]
  /\ verdict' = [verdict EXCEPT ![w] = NoVerdicts]
  /\ deferred' = [deferred EXCEPT ![w] = {}]
  /\ UNCHANGED <<current, answer>>

Loop(w) ==
  \/ \E q \in Question : Hit(w, q) \/ Miss(w, q)
  \/ Defer(w) \/ Ask(w) \/ Keep(w) \/ Build(w)
  \/ \E o \in Outcome : Return(w, o)

-----------------------------------------------------------------------------
(* A pass, reduced to what the loop sees of it.                            *)

End(w) ==
  /\ phase[w] \in {"built", "failed"}
  /\ Leave(w)
  /\ UNCHANGED <<spent, cache>>

\* watchPass resets the meter before it starts its workers and only returns
\* after the last of them has left.
NewPass ==
  /\ \A w \in Worker : phase[w] = "idle"
  /\ spent' = 0
  /\ UNCHANGED <<cache, runVars>>

AssessNext ==
  \/ \E w \in Worker : Loop(w) \/ Abort(w) \/ End(w)
  \/ \E w \in Worker, qs \in SUBSET Question : Begin(w, qs)
  \/ \E q \in Question : Expire(q)
  \/ NewPass

\* Go schedules every worker, and every provider call has a timeout.
AssessFairness == \A w \in Worker : WF_assessVars(Loop(w))

AssessSpec == AssessInit /\ [][AssessNext]_assessVars /\ AssessFairness

-----------------------------------------------------------------------------
(* What the loop promises.                                                 *)

InCall == {w \in Worker : phase[w] = "asking"}

\* The real cap.  The check and the charge are two steps and a call may count
\* several attempts, so a pass overshoots max_calls by at most what its
\* workers have in flight: one call short of the limit, plus a full call of
\* every worker (pipeline.go:408-418, budget.go:41-84).
SpendBounded ==
  MaxCalls > 0 =>
    spent + MaxCounted * Cardinality(InCall)
      <= MaxCalls - 1 + MaxCounted * Cardinality(Worker)

\* A finding goes without a statement only if the budget is really spent, and
\* it stays spent for as long as the run that deferred it is under way: no
\* other run of the pass still gets answers (pipeline.go:408-414).
DeferredOnlyWhenSpent ==
  \A w \in Worker : deferred[w] # {} => Exceeded

Entries(w) == {q \in Question : verdict[w][q] # "absent"}
InHand(w)  == {current[w]} \ {None}

\* Every finding of a run is exactly one of: still to come, in hand, given a
\* statement, or counted as deferred; so a run that ends without deferrals has
\* a statement for all of them (pipeline.go:388-430).
NothingLost ==
  \A w \in Worker :
    /\ findings[w] = left[w] \cup InHand(w) \cup Entries(w) \cup deferred[w]
    /\ left[w] \cap (InHand(w) \cup Entries(w) \cup deferred[w]) = {}
    /\ InHand(w) \cap (Entries(w) \cup deferred[w]) = {}
    /\ Entries(w) \cap deferred[w] = {}

\* A run gets through its findings whatever the provider, the cache and the
\* other workers do (pipeline.go:388-430).
RunsFinish ==
  \A w \in Worker : phase[w] = "next" ~> phase[w] \in {"built", "failed"}
=============================================================================
