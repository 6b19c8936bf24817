----------------------------- MODULE GuardProof -----------------------------
(***************************************************************************)
(* The guardrails for every fact, every answer, every option and any       *)
(* number of runs.  First what each stage on the way of an assessment      *)
(* does to it, then the invariant that ties the assessment in hand and the *)
(* stored one to the answer they came from.                                *)
(***************************************************************************)
EXTENDS Guardrails, TLAPS

-----------------------------------------------------------------------------
(* Assessments.                                                            *)

\* What normalisation returns is an assessment of the same provider.
LEMMA NormalizeType ==
  ASSUME NEW a \in RawAssessment
  PROVE  /\ Normalize(a) \in RawAssessment
         /\ Normalize(a).by = a.by
         /\ Normalize(a).confidence = a.confidence
  BY DEF Normalize, RawAssessment, RawStatus, Status, RawJustification, Justification,
         CanonicalStatus, CanonicalJustification, Text

\* Normalising twice is normalising once, so a stored verdict, which is
\* normalised again when it is built, loses nothing.
LEMMA NormalizeOnce ==
  ASSUME NEW a \in RawAssessment
  PROVE  Normalize(Normalize(a)) = Normalize(a)
  BY DEF Normalize, RawAssessment, RawStatus, Status, RawJustification, Justification,
         CanonicalStatus, CanonicalJustification

\* The verdicts that the rules can come to, and what stands behind them.
LEMMA HeuristicVerdict ==
  ASSUME NEW r
  PROVE  \/ Heuristic(r) = Verdict("fixed", 95) /\ Has(r, "version_fixed")
         \/ Heuristic(r) = Verdict("affected", 90)
         \/ /\ \E c \in {70, 75, 80, 85} : Heuristic(r) = Verdict("not_affected", c)
            /\ StrongItems(r) # {}
         \/ \E c \in {30, 45, 50, 55, 60} : Heuristic(r) = Verdict("under_investigation", c)
  <1>1. ASSUME NEW k, hasStrong(r, k) PROVE StrongItems(r) # {}
    BY <1>1 DEF hasStrong, StrongItems, strong
  <1>2. openConfidence(r) \in {30, 45, 50, 55, 60}
    BY DEF openConfidence
  <1>. QED BY <1>1, <1>2 DEF Heuristic

\* A verdict of the rules is an assessment, valid and already normalised.
LEMMA HeuristicType ==
  ASSUME NEW r
  PROVE  /\ Heuristic(r) \in RawAssessment
         /\ Heuristic(r).by = "heuristic"
         /\ Normalize(Heuristic(r)) = Heuristic(r)
         /\ Validate(Heuristic(r))
  <1>1. ASSUME NEW s \in Status, NEW c \in 0 .. 100
        PROVE  /\ Verdict(s, c) \in RawAssessment
               /\ Verdict(s, c).by = "heuristic"
               /\ Normalize(Verdict(s, c)) = Verdict(s, c)
               /\ Validate(Verdict(s, c))
    <2> DEFINE v == Verdict(s, c)
    <2>1. /\ v.status = s /\ v.confidence = c /\ v.by = "heuristic"
          /\ v.justification = IF s = "not_affected" THEN "listed" ELSE ""
          /\ v.impact = IF s = "not_affected" THEN "text" ELSE ""
          /\ v.action = IF s = "affected" THEN "text" ELSE ""
      BY DEF Verdict
    <2>2. v \in RawAssessment
      BY DEF Verdict, RawAssessment, RawStatus, Status, RawJustification, Justification, Text
    <2>3. Normalize(v) = v
      BY DEF Verdict, Normalize, Status, CanonicalStatus, CanonicalJustification
    <2>4. Validate(v)
      BY <2>1 DEF Validate, ValidStatement, Status
    <2>. QED BY <2>1, <2>2, <2>3, <2>4
  <1>2. \E s \in Status, c \in 0 .. 100 : Heuristic(r) = Verdict(s, c)
    BY HeuristicVerdict DEF Status
  <1>. QED BY <1>1, <1>2

\* Whoever answers, the run gets an assessment; one signed by the heuristic is
\* the heuristic's.
LEMMA ReplyType ==
  ASSUME NEW r, NEW raw \in Answer \cup {Failed}
  PROVE  /\ Reply(raw, r) \in RawAssessment
         /\ Reply(raw, r).by = "heuristic" => Reply(raw, r) = Heuristic(r)
  <1>1. CASE raw = Failed
    BY <1>1, HeuristicType DEF Reply
  <1>2. CASE raw # Failed
    <2>1. raw \in RawAssessment /\ raw.by = "primary"
      BY <1>2, AnswerAssumption
    <2>. QED BY <1>2, <2>1, NormalizeType DEF Reply
  <1>. QED BY <1>1, <1>2

\* Build never meets an invalid statement, whatever it was given.
LEMMA StatementValid ==
  ASSUME NEW a \in RawAssessment, NEW r, NEW o
  PROVE  /\ Statement(a, r, o) \in RawAssessment
         /\ ValidStatement(Statement(a, r, o))
  <1> DEFINE n == Normalize(a)
             g == applyGuardrails(n, r, o)
  <1>1. ASSUME NEW x \in RawAssessment, NEW c \in Int
        PROVE  /\ Unresolved(x, c) \in RawAssessment
               /\ ValidStatement(Unresolved(x, c))
    BY DEF Unresolved, RawAssessment, RawStatus, Status, RawJustification, Justification,
           Text, ValidStatement
  <1>2. n \in RawAssessment
    BY NormalizeType
  <1>3. n.confidence \in Int
    BY <1>2 DEF RawAssessment
  <1>4. g \in RawAssessment
    BY <1>1, <1>2, <1>3 DEF applyGuardrails
  <1>. QED BY <1>1, <1>4 DEF Statement, Validated, Validate

\* What takes a finding off the list has passed the guardrails of the run.
LEMMA SuppressionPassed ==
  ASSUME NEW a \in RawAssessment, NEW r, NEW o \in Options,
         Statement(a, r, o).status \in {"not_affected", "fixed"}
  PROVE  /\ Statement(a, r, o) = Normalize(a)
         /\ ~Refused(Normalize(a), r, o)
         /\ Validate(Normalize(a))
  BY DEF Statement, Validated, applyGuardrails, Unresolved

-----------------------------------------------------------------------------
(* Evidence.                                                               *)

\* Only a version at or above the fixed one makes a version_fixed item.
LEMMA FixedMeansFixed ==
  ASSUME NEW f \in FactSet, Has(Collect(f), "version_fixed")
  PROVE  f.version = "fixed"
  BY DEF Has, Collect, versionEvidence, depthEvidence, EvidenceFor, symbolEvidence,
         items, closureItems, pathItems, importItems, rustSymbolEvidence, when, strong, weak

\* Every strong item is one of the exact facts or a call path.
LEMMA StrongIsExact ==
  ASSUME NEW f \in FactSet, StrongItems(Collect(f)) # {}
  PROVE  \/ Exact(f)
         \/ f.repo /\ f.eco = "golang" /\ f.govulncheck = "reached"
  <1>1. PICK i \in Collect(f) : i.strong
    BY DEF StrongItems
  <1>2. ASSUME NEW k PROVE i # weak(k)
    BY <1>1 DEF weak
  <1>3. CASE i \in versionEvidence(f)
    BY <1>2, <1>3 DEF versionEvidence, when, Exact
  <1>4. i \notin depthEvidence(f)
    BY <1>2 DEF depthEvidence, when
  <1>5. CASE f.repo /\ f.eco = "golang" /\ i \in EvidenceFor(f)
    BY <1>2, <1>5 DEF EvidenceFor, when, Exact
  <1>6. i \notin symbolEvidence(f)
    BY <1>2 DEF symbolEvidence, when
  <1>7. CASE /\ f.repo /\ f.eco \notin {"golang", "other"} /\ i \in items(f)
    <2>1. CASE i \in closureItems(f)
      BY <1>2, <1>7, <2>1 DEF closureItems, when, Exact
    <2>2. i \notin pathItems(f)
      BY <1>2 DEF pathItems, when
    <2>3. CASE i \in importItems(f)
      BY <1>2, <1>7, <2>3 DEF importItems, when, strongImportMiss, Exact
    <2>. QED BY <1>7, <2>1, <2>2, <2>3 DEF items
  <1>8. CASE f.repo /\ f.eco = "cargo" /\ i \in rustSymbolEvidence(f)
    BY <1>2, <1>8 DEF rustSymbolEvidence, when, soleCaller, Exact
  <1>9. i # weak("repo_unavailable") /\ i # weak("no_reachability_analysis")
    BY <1>2
  <1>. QED BY <1>1, <1>3, <1>4, <1>5, <1>6, <1>7, <1>8, <1>9 DEF Collect

-----------------------------------------------------------------------------
(* Runs.                                                                   *)

Report == Collect(facts)

\* The stored verdict is what its answer gives, before any guardrail.
StoreInv ==
  kept # Nothing => said \in Answer \cup {Failed} /\ kept = Reply(said, Report)

\* So is the run's, which is the stored one if it was cached.
EntryInv ==
  stage # "open" =>
    /\ entry \in RawAssessment
    /\ entry.by = "heuristic" => entry = Heuristic(Report)
    /\ cached => kept # Nothing /\ entry = kept

BuiltInv ==
  /\ stage = "built" => stmt = Statement(entry, Report, opts)
  /\ stage # "failed"

GuardInv == GuardTypeOK /\ StoreInv /\ EntryInv /\ BuiltInv

LEMMA GuardInitInv == GuardInit => GuardInv
  BY FactsAssumption DEF GuardInit, GuardInv, GuardTypeOK, StoreInv, EntryInv, BuiltInv

\* What the store holds is an assessment, the heuristic's if it says so.
LEMMA KeptType ==
  ASSUME StoreInv, kept # Nothing
  PROVE  kept \in RawAssessment /\ (kept.by = "heuristic" => kept = Heuristic(Report))
  BY ReplyType DEF StoreInv

LEMMA GuardStep == GuardInv /\ [GuardNext]_guardVars => GuardInv'
  <1> SUFFICES ASSUME GuardInv, [GuardNext]_guardVars PROVE GuardInv'
    OBVIOUS
  <1> USE DEF GuardInv
  <1>1. CASE Ask
    <2>1. PICK raw \in Answer \cup {Failed} :
            /\ entry' = Reply(raw, Report)
            /\ \/ kept' = Reply(raw, Report) /\ said' = raw
               \/ kept' = kept /\ said' = said
      BY <1>1 DEF Ask, Kept, Report
    <2>2. /\ entry' \in RawAssessment
          /\ entry'.by = "heuristic" => entry' = Heuristic(Report)
      BY <2>1, ReplyType
    <2>3. /\ facts' = facts /\ opts' = opts /\ stmt' = stmt
          /\ cached' = FALSE /\ stage' = "assessed" /\ Report' = Report
      BY <1>1 DEF Ask, Report
    <2>4. StoreInv'
      BY <2>1, <2>3 DEF StoreInv
    <2>5. GuardTypeOK'
      BY <2>1, <2>2, <2>3 DEF GuardTypeOK
    <2>. QED BY <2>2, <2>3, <2>4, <2>5 DEF EntryInv, BuiltInv
  <1>2. CASE Replay
    <2>1. /\ kept # Nothing /\ entry' = kept /\ cached' = TRUE /\ stage' = "assessed"
          /\ facts' = facts /\ opts' = opts /\ said' = said /\ kept' = kept /\ stmt' = stmt
          /\ Report' = Report
      BY <1>2 DEF Replay, Report
    <2>2. kept \in RawAssessment /\ (kept.by = "heuristic" => kept = Heuristic(Report))
      BY <2>1, KeptType
    <2>. QED BY <2>1, <2>2 DEF GuardTypeOK, StoreInv, EntryInv, BuiltInv
  <1>3. CASE BuildStatement
    <2> DEFINE t == Statement(entry, Report, opts)
    <2>1. stage = "assessed" /\ entry \in RawAssessment
      BY <1>3 DEF BuildStatement, EntryInv
    <2>2. t \in RawAssessment /\ ValidStatement(t)
      BY <2>1, StatementValid
    <2>3. /\ stmt' = t /\ stage' = "built" /\ Report' = Report
          /\ UNCHANGED <<facts, opts, said, kept, entry, cached>>
      BY <1>3, <2>2 DEF BuildStatement, Report
    <2>. QED BY <2>1, <2>2, <2>3 DEF GuardTypeOK, StoreInv, EntryInv, BuiltInv
  <1>4. CASE NextRun
    <2>1. Report' = Report
      BY <1>4 DEF NextRun, Report
    <2>. QED BY <1>4, <2>1 DEF NextRun, GuardTypeOK, StoreInv, EntryInv, BuiltInv
  <1>5. CASE UNCHANGED guardVars
    <2>1. Report' = Report
      BY <1>5 DEF guardVars, Report
    <2>. QED BY <1>5, <2>1 DEF guardVars, GuardTypeOK, StoreInv, EntryInv, BuiltInv
  <1>. QED BY <1>1, <1>2, <1>3, <1>4, <1>5 DEF GuardNext

LEMMA GuardInvariant == GuardSpec => []GuardInv
  <1>. QED BY GuardInitInv, GuardStep, PTL DEF GuardSpec

-----------------------------------------------------------------------------
(* What the guardrails promise.                                            *)

\* Facts, options, answers, stored and current assessments keep their types,
\* whatever is stored, replayed or downgraded (llm.go:134-168, vexgen.go:105-197).
THEOREM GuardTypeCorrect == GuardSpec => []GuardTypeOK
  <1>1. GuardInv => GuardTypeOK
    BY DEF GuardInv
  <1>. QED BY <1>1, GuardInvariant, PTL

\* Every finding gets a valid statement: Build never fails on one, whatever was
\* answered (vexgen.go:60-62, 105-159).
THEOREM EveryFindingIsStated == GuardSpec => [](GuardTypeOK /\ EveryFindingStated)
  <1>1. GuardInv => GuardTypeOK /\ EveryFindingStated
    BY DEF GuardInv, BuiltInv, EveryFindingStated
  <1>. QED BY <1>1, GuardInvariant, PTL

\* Nothing leaves the list without the confidence this run asks for and, unless
\* it allows otherwise, without a fact (vexgen.go:174-197).
THEOREM SuppressionIsAlwaysBacked == GuardSpec => []SuppressionIsBacked
  <1>1. ASSUME GuardInv PROVE SuppressionIsBacked
    <2> SUFFICES ASSUME stage = "built" 
                 PROVE  /\ stmt.status \in {"not_affected", "fixed"} => stmt.confidence \in opts.min .. 100
                        /\ stmt.status = "fixed" => opts.allow \/ facts.version = "fixed"
                        /\ stmt.status = "not_affected" =>
                             \/ opts.allow \/ Exact(facts)
                             \/ facts.repo /\ facts.eco = "golang" /\ facts.govulncheck = "reached"
      BY DEF SuppressionIsBacked
    <2> DEFINE n == Normalize(entry)
    <2>1. /\ stmt = Statement(entry, Report, opts) /\ entry \in RawAssessment
          /\ facts \in FactSet /\ opts \in Options /\ opts.min \in Int
      BY <1>1, OptionsAssumption DEF GuardInv, BuiltInv, EntryInv, GuardTypeOK
    <2>2. ASSUME stmt.status \in {"not_affected", "fixed"}
          PROVE  stmt = n /\ ~Refused(n, Report, opts) /\ Validate(n)
      BY <2>1, <2>2, SuppressionPassed
    <2>3. ASSUME stmt.status \in {"not_affected", "fixed"}
          PROVE  stmt.confidence \in opts.min .. 100
      BY <2>1, <2>2, <2>3 DEF Refused, Validate
    <2>4. ASSUME stmt.status = "fixed" PROVE opts.allow \/ facts.version = "fixed"
      BY <2>1, <2>2, <2>4, FixedMeansFixed DEF Refused, Report
    <2>5. ASSUME stmt.status = "not_affected"
          PROVE  \/ opts.allow \/ Exact(facts)
                 \/ facts.repo /\ facts.eco = "golang" /\ facts.govulncheck = "reached"
      BY <2>1, <2>2, <2>5, StrongIsExact DEF Refused, Report
    <2>. QED BY <2>3, <2>4, <2>5
  <1>. QED BY <1>1, GuardInvariant, PTL

\* The rules and the guardrails agree, for every minimum up to the rules' least
\* confidence (heuristic.go:39-117, vexgen.go:174-197).
THEOREM HeuristicAlwaysStands == GuardSpec => []HeuristicStands
  <1>1. ASSUME GuardInv PROVE HeuristicStands
    <2> SUFFICES ASSUME stage = "built", entry.by = "heuristic", opts.min <= 70
                 PROVE  stmt = entry
      BY DEF HeuristicStands
    <2>1. /\ stmt = Statement(entry, Report, opts) /\ entry = Heuristic(Report)
          /\ opts.min \in Int
      BY <1>1, OptionsAssumption DEF GuardInv, BuiltInv, EntryInv, GuardTypeOK
    <2>2. Normalize(entry) = entry /\ Validate(entry)
      BY <2>1, HeuristicType
    <2>3. ~Refused(entry, Report, opts)
      <3>1. \A t, c : Verdict(t, c).status = t /\ Verdict(t, c).confidence = c
        BY DEF Verdict
      <3>2. CASE entry = Verdict("fixed", 95) /\ Has(Report, "version_fixed")
        <4>1. entry.status = "fixed" /\ ~(entry.confidence < opts.min)
          BY <2>1, <3>1, <3>2
        <4>. QED BY <3>2, <4>1 DEF Refused
      <3>3. CASE entry.status \notin {"fixed", "not_affected"}
        BY <3>3 DEF Refused
      <3>4. CASE /\ \E c \in {70, 75, 80, 85} : entry = Verdict("not_affected", c)
                 /\ StrongItems(Report) # {}
        <4>1. entry.status = "not_affected" /\ ~(entry.confidence < opts.min)
          BY <2>1, <3>1, <3>4
        <4>. QED BY <3>4, <4>1 DEF Refused
      <3>. QED BY <2>1, <3>1, <3>2, <3>3, <3>4, HeuristicVerdict
    <2>. QED BY <2>1, <2>2, <2>3 DEF Statement, applyGuardrails, Validated
  <1>. QED BY <1>1, GuardInvariant, PTL

\* A stored verdict gives the statement that its answer would give today
\* (pipeline.go:402-424, vexgen.go:105-117).
THEOREM ReplayAlwaysAgrees == GuardSpec => []ReplayAgrees
  <1>1. GuardInv => ReplayAgrees
    BY DEF GuardInv, StoreInv, EntryInv, BuiltInv, ReplayAgrees, Report
  <1>. QED BY <1>1, GuardInvariant, PTL
=============================================================================
