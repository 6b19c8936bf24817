-------------------------------- MODULE Coverage --------------------------------
(***************************************************************************)
(* What the watch promises to whoever reads BOMHort, without passes,       *)
(* workers, budget, cache or state file: it answers findings, and it       *)
(* claims versions of SBOMs as done, that is, leaves them alone.  Watch    *)
(* implements this with the versions in memory and on disk as the claims.  *)
(***************************************************************************)
EXTENDS Naturals, FiniteSets

CONSTANTS
  Question,  \* findings an SBOM may have
  Sbom,      \* SBOMs BOMHort may hold
  Churn      \* those that may lose a finding without a new ingestion

VARIABLES
  vulns,     \* findings of each SBOM
  ingested,  \* how often it was ingested; 0: not there yet
  sent,      \* findings with an accepted statement
  vexed,     \* those whose statement is visible
  claimed    \* versions that count as done

coverageVars == <<vulns, ingested, sent, vexed, claimed>>

Version == [count : Nat, at : Nat]
never   == [count |-> 0, at |-> 0]

\* What can be told of a version: how many findings, and which ingestion.
version(s) == [count |-> Cardinality(vulns[s]), at |-> ingested[s]]

CoverageInit ==
  /\ vulns \in [Sbom -> SUBSET Question]
  /\ ingested \in [Sbom -> 0 .. 1]
  /\ \A s \in Sbom : ingested[s] = 0 => vulns[s] = {}
  /\ sent = [s \in Sbom |-> {}] /\ vexed = [s \in Sbom |-> {}]
  /\ claimed = [s \in Sbom |-> {never}]

Findings(s, qs) ==
  /\ vulns' = [vulns EXCEPT ![s] = qs]
  /\ UNCHANGED <<sent, vexed, claimed>>

Match(s)    == /\ ingested[s] > 0 /\ UNCHANGED ingested
               /\ \E q \in Question \ vulns[s] : Findings(s, vulns[s] \cup {q})
Withdraw(s) == /\ s \in Churn /\ UNCHANGED ingested
               /\ \E q \in vulns[s] : Findings(s, vulns[s] \ {q})
Ingest(s)   == /\ ingested' = [ingested EXCEPT ![s] = @ + 1]
               /\ \E qs \in SUBSET Question : Findings(s, qs)

\* Statements are added and never taken back, and one SBOM at a time.
Answer(s) ==
  /\ \E qs \in SUBSET Question : sent' = [sent EXCEPT ![s] = @ \cup qs]
  /\ UNCHANGED <<vulns, ingested, vexed, claimed>>

Apply(s) ==
  /\ vexed' = [vexed EXCEPT ![s] = sent[s]]
  /\ UNCHANGED <<vulns, ingested, sent, claimed>>

\* Seen at some time, and answered if it is the present version.
Behind(s, v) ==
  /\ v.at <= ingested[s]
  /\ v.at = ingested[s] => v.count <= Cardinality(vulns[s])

MayClaim(s, v) ==
  /\ Behind(s, v)
  /\ ingested[s] > 0 /\ v = version(s) => vulns[s] \subseteq sent[s]

\* Claims are made, and any may be forgotten.
Claim ==
  /\ claimed' \in [Sbom -> SUBSET Version]
  /\ \A s \in Sbom \ Churn : \A v \in claimed'[s] \ claimed[s] : MayClaim(s, v)
  /\ UNCHANGED <<vulns, ingested, sent, vexed>>

CoverageNext ==
  \/ \E s \in Sbom : Match(s) \/ Withdraw(s) \/ Ingest(s) \/ Answer(s) \/ Apply(s)
  \/ Claim

CoverageSpec == CoverageInit /\ [][CoverageNext]_coverageVars

\* What follows: a claim that holds for the present version means that every
\* finding has been answered.
ClaimsHold ==
  \A s \in Sbom \ Churn :
    ingested[s] > 0 /\ version(s) \in claimed[s] => vulns[s] \subseteq sent[s]
=============================================================================
