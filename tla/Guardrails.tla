----------------------------- MODULE Guardrails -----------------------------
(***************************************************************************)
(* The way of one finding from its evidence to its OpenVEX statement:      *)
(* an answer of the provider or, if it fails, of the heuristic is stored   *)
(* in the assessment cache; in the same run or in a later one, possibly    *)
(* under other options, vexgen.Build normalises it, applies the guardrails *)
(* and validates the outcome.  Nobody controls what the provider answers.  *)
(*                                                                         *)
(* Confidence is in percent.  A text is there ("text") or not ("").  A     *)
(* justification is "listed" if OpenVEX has it and "Listed" if only its    *)
(* spelling differs.                                                       *)
(***************************************************************************)
EXTENDS Evidence, Integers

CONSTANTS
  Facts,    \* the facts a finding may have
  Answer,   \* what the provider may answer
  Options,  \* llm.min_confidence and llm.allow_unsupported_not_affected
  Failed,   \* the provider returns an error instead
  Nothing   \* no assessment, no statement

Status    == {"not_affected", "affected", "fixed", "under_investigation"}
RawStatus == Status \cup {"Not-Affected", "unsure"}
Justification    == {"", "listed", "unlisted"}
RawJustification == Justification \cup {"Listed"}
Text             == {"", "text"}

RawAssessment ==
  [status : RawStatus, justification : RawJustification, impact : Text,
   action : Text, confidence : Int, by : {"primary", "heuristic"}]

ASSUME FactsAssumption   == Facts \subseteq FactSet
ASSUME AnswerAssumption  ==
  \A a \in Answer : a \in RawAssessment /\ a.by = "primary"
ASSUME OptionsAssumption == Options \subseteq [min : Int, allow : BOOLEAN]
ASSUME NothingAssumption == Nothing \notin RawAssessment /\ Failed \notin RawAssessment

VARIABLES
  facts,   \* what is there to be found out about the finding
  opts,    \* the options of the run
  said,    \* history: the answer behind the stored assessment
  kept,    \* the stored assessment
  entry,   \* the assessment of the run
  cached,  \* it was stored
  stmt,    \* the statement built from it
  stage    \* where the run stands

guardVars == <<facts, opts, said, kept, entry, cached, stmt, stage>>

-----------------------------------------------------------------------------
(* Assessments.                                                            *)

\* Mutant: the dash stays.
CanonicalStatusDashed(s) == IF s = "Not-Affected" THEN "not-affected" ELSE s

CanonicalStatus(s)        == IF s = "Not-Affected" THEN "not_affected" ELSE s
CanonicalJustification(j) == IF j = "Listed" THEN "listed" ELSE j

\* Spelling is corrected, fields the status forbids are dropped, and an
\* affected finding always gets an action.
Normalize(a) ==
  LET s     == CanonicalStatus(a.status)
      plain == s \in {"affected", "fixed", "under_investigation"}
  IN [status        |-> s,
      justification |-> IF plain THEN "" ELSE CanonicalJustification(a.justification),
      impact        |-> IF plain THEN "" ELSE a.impact,
      action        |-> IF s = "affected" THEN "text" ELSE IF s \in Status THEN "" ELSE a.action,
      confidence    |-> a.confidence,
      by            |-> a.by]

\* go-vex: Statement.Validate.
ValidStatement(a) ==
  /\ a.status \in Status
  /\ a.status = "not_affected" =>
       /\ a.justification # "" \/ a.impact # ""
       /\ a.justification # "unlisted"
  /\ a.status # "not_affected" => a.justification = "" /\ a.impact = ""
  /\ IF a.status = "affected" THEN a.action # "" ELSE a.action = ""

Validate(a) == a.confidence \in 0 .. 100 /\ ValidStatement(a)

Verdict(status, confidence) ==
  [status |-> status, confidence |-> confidence, by |-> "heuristic",
   justification |-> IF status = "not_affected" THEN "listed" ELSE "",
   impact |-> IF status = "not_affected" THEN "text" ELSE "",
   action |-> IF status = "affected" THEN "text" ELSE ""]

\* How sure the rules are that a finding has to stay open.
openConfidence(r) ==
  IF Has(r, "import_not_found") /\ Has(r, "transitive_dependency") THEN 50
  ELSE IF Has(r, "symbol_not_referenced") THEN 55
  ELSE IF Has(r, "dev_dependency") THEN IF Has(r, "import_not_found") THEN 60 ELSE 50
  ELSE IF Has(r, "package_imported") THEN 45
  ELSE IF Has(r, "import_not_found") THEN 50 ELSE 30

\* The rules, first match first.
Heuristic(r) ==
  IF Has(r, "version_fixed") THEN Verdict("fixed", 95)
  ELSE IF Has(r, "govulncheck_reachable") THEN Verdict("affected", 90)
  ELSE IF hasStrong(r, "govulncheck_not_reachable") THEN Verdict("not_affected", 85)
  ELSE IF hasStrong(r, "dev_dependency") THEN Verdict("not_affected", 80)
  ELSE IF hasStrong(r, "symbol_not_referenced") THEN Verdict("not_affected", 75)
  ELSE IF hasStrong(r, "import_not_found") THEN Verdict("not_affected", 70)
  ELSE Verdict("under_investigation", openConfidence(r))

\* Providers return what they parsed, normalised; WithFallback answers for one
\* that failed.
Reply(raw, r) == IF raw = Failed THEN Heuristic(r) ELSE Normalize(raw)

-----------------------------------------------------------------------------
(* vexgen.Build.                                                           *)

Refused(a, r, o) ==
  \/ a.status \in {"not_affected", "fixed"} /\ a.confidence < o.min
  \/ a.status = "not_affected" /\ ~o.allow /\ StrongItems(r) = {}
  \/ a.status = "fixed" /\ ~o.allow /\ ~Has(r, "version_fixed")

\* Without an answer to the question, the finding stays open.
Unresolved(a, confidence) ==
  [status |-> "under_investigation", justification |-> "", impact |-> "", action |-> "",
   confidence |-> confidence, by |-> a.by]

applyGuardrails(a, r, o) == IF Refused(a, r, o) THEN Unresolved(a, a.confidence) ELSE a

\* Mutant: what cannot be validated goes into the document as it is.
ValidatedNever(a) == a

\* What cannot be validated is downgraded, never dropped.
Validated(a) == IF Validate(a) THEN a ELSE Unresolved(a, 0)

Statement(a, r, o) == Validated(applyGuardrails(Normalize(a), r, o))

-----------------------------------------------------------------------------
(* Runs.                                                                   *)

GuardInit ==
  /\ facts \in Facts
  /\ opts \in Options
  /\ said = Nothing /\ kept = Nothing
  /\ entry = Nothing /\ cached = FALSE
  /\ stmt = Nothing
  /\ stage = "open"

\* Mutant: what is stored has been through the guardrails of the day.
KeptGuarded(a) == applyGuardrails(a, Collect(facts), opts)

\* The store gets the verdict as the provider gave it.
Kept(a) == a

\* The provider is asked: nothing is stored, or the store is not read
\* (no_cache, regenerate, force).  The verdict is stored unless the write fails.
Ask ==
  /\ stage = "open"
  /\ \E raw \in Answer \cup {Failed} :
       LET a == Reply(raw, Collect(facts)) IN
       /\ entry' = a
       /\ \/ kept' = Kept(a) /\ said' = raw
          \/ UNCHANGED <<kept, said>>
  /\ cached' = FALSE
  /\ stage' = "assessed"
  /\ UNCHANGED <<facts, opts, stmt>>

\* A stored verdict is the run's.
Replay ==
  /\ stage = "open" /\ kept # Nothing
  /\ entry' = kept
  /\ cached' = TRUE
  /\ stage' = "assessed"
  /\ UNCHANGED <<facts, opts, said, kept, stmt>>

\* One invalid statement and there is no document.
BuildStatement ==
  /\ stage = "assessed"
  /\ LET s == Statement(entry, Collect(facts), opts) IN
       \/ ValidStatement(s) /\ stage' = "built" /\ stmt' = s
       \/ ~ValidStatement(s) /\ stage' = "failed" /\ stmt' = Nothing
  /\ UNCHANGED <<facts, opts, said, kept, entry, cached>>

\* The next run, under the options it is started with.
NextRun ==
  /\ stage \in {"built", "failed"}
  /\ opts' \in Options
  /\ entry' = Nothing /\ cached' = FALSE /\ stmt' = Nothing
  /\ stage' = "open"
  /\ UNCHANGED <<facts, said, kept>>

GuardNext == Ask \/ Replay \/ BuildStatement \/ NextRun

GuardSpec == GuardInit /\ [][GuardNext]_guardVars

-----------------------------------------------------------------------------
(* What the guardrails promise.                                            *)

GuardTypeOK ==
  /\ facts \in FactSet /\ opts \in Options
  /\ said \in Answer \cup {Failed, Nothing}
  /\ kept \in RawAssessment \cup {Nothing}
  /\ entry \in RawAssessment \cup {Nothing}
  /\ cached \in BOOLEAN
  /\ stmt \in RawAssessment \cup {Nothing}
  /\ stage \in {"open", "assessed", "built", "failed"}

\* Every finding gets a statement: whatever the provider answered, the document
\* is valid OpenVEX (vexgen.go:60-62, 105-159).
EveryFindingStated == stage # "failed"

\* The facts that the documents name as exact, each of them read off the
\* SBOM, the lockfile, the call graph or the scan and not off an item.
Exact(f) ==
  \/ f.version = "fixed"
  \/ f.repo /\ f.eco = "golang" /\ f.govulncheck = "unreached"
  \/ f.repo /\ f.eco \notin {"golang", "other"} /\ f.dev = "dev"
  \/ /\ f.repo /\ f.eco \in {"npm", "cargo", "composer"}
     /\ direct(f) /\ soleConsumer(f) /\ ~f.aliased
     /\ \/ ~f.imported /\ f.sources
        \/ f.imported /\ f.eco = "cargo" /\ f.symbols = "unnamed"

\* No statement takes a finding off the list (not_affected, fixed) on the word
\* of a model alone, whatever options its verdict was given and stored under:
\* the confidence is what this run asks for and, unless it allows otherwise, a
\* deterministic fact stands behind it (vexgen.go:174-197).
SuppressionIsBacked ==
  stage = "built" =>
    /\ stmt.status \in {"not_affected", "fixed"} => stmt.confidence \in opts.min .. 100
    /\ stmt.status = "fixed" => opts.allow \/ facts.version = "fixed"
    /\ stmt.status = "not_affected" =>
         \/ opts.allow \/ Exact(facts)
         \/ facts.repo /\ facts.eco = "golang" /\ facts.govulncheck = "reached"

\* The rules and the guardrails agree: what the heuristic concludes is never
\* refused for want of evidence, and for want of confidence only under a
\* minimum above 0.7 (heuristic.go:39-117, vexgen.go:174-197).
HeuristicStands ==
  stage = "built" /\ entry.by = "heuristic" /\ opts.min <= 70 => stmt = entry

\* A stored verdict is as good as a fresh one: replayed under options that were
\* changed any number of times, it gives the statement that the provider's
\* answer would give today (pipeline.go:402-424, vexgen.go:105-117).
ReplayAgrees ==
  stage = "built" /\ cached =>
    stmt = Statement(Reply(said, Collect(facts)), Collect(facts), opts)

\* Documented: "Strong items are exact facts, never lexical guesses:" and the
\* list of them (README.md:289-295), which has no call path to the
\* vulnerable code among the reasons for not_affected.
SuppressionAsDocumented ==
  stage = "built" /\ stmt.status = "not_affected" => opts.allow \/ Exact(facts)
=============================================================================
