------------------------------- MODULE Triage -------------------------------
(***************************************************************************)
(* Which findings of an SBOM a run assesses, and what becomes of verdicts  *)
(* that others write meanwhile: LoadSBOM and the filter of Pipeline.run    *)
(* (internal/source/source.go, internal/pipeline/pipeline.go), the upload, *)
(* and the wait for its statements (cmd/vexviper/main.go).                 *)
(*                                                                         *)
(* The unit of time is the statement: now counts the moments at which one  *)
(* was made.  What a provider answers, and which findings the budget       *)
(* defers, is left open here; Assess and Guardrails are about that.        *)
(*                                                                         *)
(* BOMHort is external.  It shows, for every row, the newest statement     *)
(* about its id or one of its aliases; a gateway of the old kind shows one *)
(* row per statement, without its time and its author's tool, and knows no *)
(* aliases.                                                                *)
(***************************************************************************)
EXTENDS Collapse, FiniteSets

CONSTANTS
  Id,          \* vulnerabilities, each of one package, by any of their names
  Row,         \* those the SBOM's listing has rows for
  AliasChoice, \* what rows may list as aliases
  Runner,      \* processes that run the pipeline for the SBOM
  Status,      \* the statuses in play
  Option,      \* RunOptions in play
  MaxNow       \* bound: moments at which a statement is made

ASSUME IdAssumption == Row \subseteq Id /\ AliasChoice \subseteq [Row -> SUBSET Id]
ASSUME StatusAssumption ==
  Status \subseteq {"affected", "under_investigation", "fixed", "not_affected"}
ASSUME OptionAssumption ==
  Option \subseteq [force : BOOLEAN, regenerate : BOOLEAN, only : SUBSET Row]
ASSUME MaxNowAssumption == MaxNow \in Nat

VARIABLES
  gateway,  \* "old" or "new", as far as the listing tells
  alias,    \* Vulnerability.Aliases of each row
  said,     \* statements BOMHort has, by the id they are about
  now,      \* the last moment at which a statement was made
  inbox,    \* documents BOMHort has accepted and not yet ingested
  phase,    \* where a runner stands
  opts,     \* its RunOptions
  saw,      \* what was in force for each row when it loaded the findings
  findings, \* source.Result.Findings
  work,     \* ids of the findings that passed the filter
  doc,      \* the document it has built
  verified  \* its last Verification

bomhortVars == <<gateway, alias, said, now, inbox>>
runVars     == <<phase, opts, saw, findings, work, doc, verified>>
triageVars  == <<bomhortVars, runVars>>

Tool    == {"vexviper", "manual", ""}
Writing == [status : Status, tool : Tool, at : Nat]
Silence == [status |-> "", tool |-> "", at |-> 0]
Reading == Writing \cup {Silence}
Says    == UNION {[S -> Status] : S \in (SUBSET Row) \ {{}}}
Doc     == [at : Nat, says : Says, forced : BOOLEAN, saw : [Row -> Reading]]
Found   == [id : Row, status : Status \cup {""}, tool : Tool, at : Nat]
NoDoc   == [at |-> 0, says |-> << >>, forced |-> FALSE, saw |-> [r \in Row |-> Silence]]
Plain   == [force |-> FALSE, regenerate |-> FALSE, only |-> {}]
Unasked == [applied |-> {}, overridden |-> {}, pending |-> {}]

TriageTypeOK ==
  /\ gateway \in {"old", "new"} /\ alias \in AliasChoice
  /\ said \in [Id -> SUBSET Writing] /\ now \in Nat /\ inbox \subseteq Doc
  /\ phase \in [Runner -> {"idle", "loaded", "assess", "built", "waiting", "checking", "reported"}]
  /\ opts \in [Runner -> Option \cup {Plain}] /\ saw \in [Runner -> [Row -> Reading]]
  /\ findings \in [Runner -> SUBSET Found]
  /\ work \in [Runner -> SUBSET Row] /\ doc \in [Runner -> Doc \cup {NoDoc}]
  /\ verified \in [Runner -> [applied : SUBSET Row, overridden : SUBSET Row, pending : SUBSET Row]]

-----------------------------------------------------------------------------
(* What BOMHort shows.                                                     *)

\* The names of each row.
Names == [r \in Row |-> {r} \cup IF gateway = "new" THEN alias[r] ELSE {}]

Matching(r) == UNION {said[i] : i \in Names[r]}

\* The statement in force for a row: the newest that matches.
InForce(r) ==
  IF Matching(r) = {} THEN Silence
  ELSE CHOOSE s \in Matching(r) : \A t \in Matching(r) : t.at <= s.at

\* A row of the listing.
RowOf(r, s) == [id |-> r, status |-> s.status,
                tool |-> IF gateway = "new" THEN s.tool ELSE "",
                at |-> IF gateway = "new" THEN s.at ELSE 0]

Listing ==
  UNION {{RowOf(r, s) : s \in IF gateway = "new" \/ Matching(r) = {} THEN {InForce(r)}
                              ELSE Matching(r)} : r \in Row}

\* Twins that list each other and the same aliases.
Mutual == \A r, s \in Row : Names[r] \cap Names[s] # {} => Names[r] = Names[s]

-----------------------------------------------------------------------------
(* The filter.                                                             *)

Settled      == {"not_affected", "fixed"}
Reassessable == {"under_investigation", "affected"}

\* The newest statement about exactly this id, for rows without a time.
Listed(id) == {s.at : s \in said[id]}

\* staleStatements: weak verdicts from before the cutoff.  The statements are
\* listed only if a row has no time of its own, and that request may fail.
Stale(f, cutoff, listed) ==
  /\ f.status \in Reassessable
  /\ IF f.at # 0 THEN f.at < cutoff
     ELSE listed /\ Listed(f.id) # {} /\ \A at \in Listed(f.id) : at < cutoff

\* Mutant: who wrote a verdict is not looked at.
ForeignNever(f) == FALSE

\* Written by a person or another tool, as far as the row tells.
Foreign(f) == f.tool \notin {"", "vexviper"}

\* Mutant: regenerating revisits settled verdicts as well.
WantedSettled(f, o, cutoff, listed) ==
  /\ \/ f.status = "" \/ o.force
     \/ ~Foreign(f) /\ (o.regenerate \/ Stale(f, cutoff, listed))
  /\ o.only = {} \/ f.id \in o.only

\* Mutant: regenerating revisits old verdicts only.
WantedOld(f, o, cutoff, listed) ==
  /\ f.status = "" \/ o.force \/ (~Foreign(f) /\ Stale(f, cutoff, listed))
  /\ o.only = {} \/ f.id \in o.only

\* A finding passes the filter.
Wanted(f, o, cutoff, listed) ==
  /\ \/ f.status = "" \/ o.force
     \/ /\ ~Foreign(f)
        /\ \/ o.regenerate /\ f.status \notin Settled
           \/ Stale(f, cutoff, listed)
  /\ o.only = {} \/ f.id \in o.only

-----------------------------------------------------------------------------
(* A run.                                                                  *)

TriageInit ==
  /\ gateway \in {"old", "new"} /\ alias \in AliasChoice
  /\ said = [i \in Id |-> {}] /\ now = 0 /\ inbox = {}
  /\ phase = [w \in Runner |-> "idle"]
  /\ opts = [w \in Runner |-> Plain]
  /\ saw = [w \in Runner |-> [r \in Row |-> Silence]]
  /\ findings = [w \in Runner |-> {}]
  /\ work = [w \in Runner |-> {}]
  /\ doc = [w \in Runner |-> NoDoc]
  /\ verified = [w \in Runner |-> Unasked]

\* A run is over and leaves nothing behind in its process.
Over(w) ==
  /\ phase' = [phase EXCEPT ![w] = "idle"]
  /\ opts' = [opts EXCEPT ![w] = Plain]
  /\ saw' = [saw EXCEPT ![w] = [r \in Row |-> Silence]]
  /\ findings' = [findings EXCEPT ![w] = {}]
  /\ work' = [work EXCEPT ![w] = {}]
  /\ doc' = [doc EXCEPT ![w] = NoDoc]
  /\ verified' = [verified EXCEPT ![w] = Unasked]

\* A run with options o goes on with these findings.
LoadAs(w, o, found) ==
  /\ phase[w] = "idle"
  /\ phase' = [phase EXCEPT ![w] = "loaded"]
  /\ opts' = [opts EXCEPT ![w] = o]
  /\ saw' = [saw EXCEPT ![w] = [r \in Row |-> InForce(r)]]
  /\ findings' = [findings EXCEPT ![w] = found]
  /\ UNCHANGED <<bomhortVars, work, doc, verified>>

\* Mutant: rows are not merged.
LoadRows(w) ==
  \E o \in Option : LoadAs(w, o, {Finding(row, row) : row \in Listing})

\* Mutant: rows are merged without their verdicts.
LoadFirst(w) ==
  \E o \in Option : \E K \in Kept(Listing, Names) : LoadAs(w, o, {Finding(k, k) : k \in K})

\* The findings are loaded, as they are at this moment.
Load(w) ==
  \E o \in Option : \E found \in Collapsed(Listing, Names) : LoadAs(w, o, found)

\* They are filtered, against statements listed now where rows have no time.
\* A cutoff of 0 is a run without ReassessAfter.
Filter(w) ==
  /\ phase[w] = "loaded"
  /\ phase' = [phase EXCEPT ![w] = "assess"]
  /\ \E cutoff \in 0 .. now + 1, listed \in BOOLEAN :
       work' = [work EXCEPT ![w] =
                  {f.id : f \in {g \in findings[w] : Wanted(g, opts[w], cutoff, listed)}}]
  /\ findings' = [findings EXCEPT ![w] = {}]
  /\ UNCHANGED <<bomhortVars, opts, saw, doc, verified>>

\* Mutant: a document without statements is delivered like any other.
BuildAny(w) ==
  /\ phase[w] = "assess"
  /\ now < MaxNow
  /\ \E answered \in SUBSET work[w] : \E says \in [answered -> Status] :
       doc' = [doc EXCEPT ![w] = [at |-> now + 1, says |-> says,
                                  forced |-> opts[w].force, saw |-> saw[w]]]
  /\ now' = now + 1
  /\ phase' = [phase EXCEPT ![w] = "built"]
  /\ UNCHANGED <<gateway, alias, said, inbox, opts, saw, findings, work, verified>>

\* The document is built of the findings that were not deferred.
Build(w) ==
  /\ phase[w] = "assess"
  /\ now < MaxNow
  /\ \E answered \in SUBSET work[w] : \E says \in [answered -> Status] :
       /\ answered # {}
       /\ doc' = [doc EXCEPT ![w] = [at |-> now + 1, says |-> says,
                                     forced |-> opts[w].force, saw |-> saw[w]]]
  /\ now' = now + 1
  /\ phase' = [phase EXCEPT ![w] = "built"]
  /\ UNCHANGED <<gateway, alias, said, inbox, opts, saw, findings, work, verified>>

\* BOMHort accepts it; whether the runner waits is up to its options.
Upload(w) ==
  /\ phase[w] = "built"
  /\ inbox' = inbox \cup {doc[w]}
  /\ phase' = [phase EXCEPT ![w] = "waiting"]
  /\ UNCHANGED <<gateway, alias, said, now, opts, saw, findings, work, doc, verified>>

\* The upload fails, before or after BOMHort has accepted the document.
UploadFails(w) ==
  /\ phase[w] = "built"
  /\ inbox' \in {inbox, inbox \cup {doc[w]}}
  /\ Over(w)
  /\ UNCHANGED <<gateway, alias, said, now>>

\* Mutant: the wait for the document is left out.
ListableAlways(d) == TRUE

\* Wait: a statement of the document is listed.
Listable(d) == \E i \in DOMAIN d.says : \E s \in said[i] : s.at = d.at

SeeDocument(w) ==
  /\ phase[w] = "waiting"
  /\ Listable(doc[w])
  /\ phase' = [phase EXCEPT ![w] = "checking"]
  /\ UNCHANGED <<bomhortVars, opts, saw, findings, work, doc, verified>>

\* The statuses the rows of an id show: one that is not empty if there is any.
Shown(i) ==
  LET statuses == {row.status : row \in {x \in Listing : x.id = i}}
  IN IF statuses \subseteq {""} THEN {""} ELSE statuses \ {""}

\* Verify: the document's statements by the status their finding has now.
Verification(says, shown) ==
  [applied    |-> {i \in DOMAIN says : shown[i] = says[i]},
   overridden |-> {i \in DOMAIN says : shown[i] \notin {"", says[i]}},
   pending    |-> {i \in DOMAIN says : shown[i] = ""}]

\* WaitApplied: poll once; the wait is over when nothing is pending.
Verify(w) ==
  /\ phase[w] = "checking"
  /\ \E shown \in {f \in [DOMAIN doc[w].says -> Status \cup {""}] :
                     \A i \in DOMAIN f : f[i] \in Shown(i)} :
       LET v == Verification(doc[w].says, shown)
       IN /\ verified' = [verified EXCEPT ![w] = v]
          /\ phase' = [phase EXCEPT ![w] = IF v.pending = {} THEN "reported" ELSE "checking"]
  /\ UNCHANGED <<bomhortVars, opts, saw, findings, work, doc>>

\* A run ends: done, without statements, not waiting, out of time, cancelled.
Leave(w) ==
  /\ phase[w] # "idle"
  /\ Over(w)
  /\ UNCHANGED bomhortVars

Run(w) ==
  \/ Load(w) \/ Filter(w) \/ Build(w) \/ Upload(w) \/ UploadFails(w)
  \/ SeeDocument(w) \/ Verify(w) \/ Leave(w)

-----------------------------------------------------------------------------
(* BOMHort.                                                                *)

\* Somebody else makes a statement, signed with a tool or not.
Say(i, status, tool) ==
  /\ now < MaxNow
  /\ now' = now + 1
  /\ said' = [said EXCEPT ![i] = @ \cup {[status |-> status, tool |-> tool, at |-> now + 1]}]
  /\ UNCHANGED <<gateway, alias, inbox, runVars>>

\* An accepted document is ingested, documents in any order.
Ingest(d) ==
  /\ d \in inbox
  /\ inbox' = inbox \ {d}
  /\ said' = [i \in Id |->
                IF i \in DOMAIN d.says
                THEN said[i] \cup {[status |-> d.says[i], tool |-> "vexviper", at |-> d.at]}
                ELSE said[i]]
  /\ UNCHANGED <<gateway, alias, now, runVars>>

TriageNext ==
  \/ \E w \in Runner : Run(w)
  \/ \E i \in Id, status \in Status, tool \in {"manual", ""} : Say(i, status, tool)
  \/ \E d \in inbox : Ingest(d)

TriageSpec == TriageInit /\ [][TriageNext]_triageVars

-----------------------------------------------------------------------------
(* Properties.                                                             *)

\* What the properties about twins assume: BOMHort tells authors and times,
\* and twins list the same names.
Told == gateway = "new" /\ Mutual

\* A verdict known under any name of a vulnerability is not lost when its rows
\* are merged: some finding with that name carries a verdict, in any order of
\* the rows and with one-sided aliases as well (source.go:166-182).
VerdictsSurviveMerging ==
  \A w \in Runner : phase[w] = "loaded" =>
    \A r \in Row : saw[w][r].status # "" =>
      \E f \in findings[w] : f.status # "" /\ Names[f.id] \cap Names[r] # {}

\* A run that has filtered its findings and not ended.
Working(w) == phase[w] \notin {"idle", "loaded"}

Signed(s) == s.tool \notin {"", "vexviper"}

\* A person's verdict is not up for assessment: when a run that is not forced
\* loads its findings, no row with a signed verdict in force is answered by
\* any finding it goes on with, in whatever order rows and twins are listed
\* (source.go:162-183, pipeline.go:338-348).
SignedVerdictsLeftAlone ==
  Told => \A w \in Runner : Working(w) /\ ~opts[w].force =>
    \A i \in work[w], r \in Row : i \in Names[r] => ~Signed(saw[w][r])

\* Closed findings cost nothing: short of Force, no finding that was
\* not_affected or fixed when it was loaded is assessed again, be it for
\* Regenerate or for its age (pipeline.go:346-354, 672-684).
SettledVerdictsStay ==
  Told => \A w \in Runner : Working(w) /\ ~opts[w].force =>
    \A i \in work[w], r \in Row : i \in Names[r] => saw[w][r].status \notin Settled

\* Alias twins are assessed once and emitted once: no two findings of a run
\* share a name, however one-sided the lists of aliases (source.go:146-182).
TwinsAssessedOnce ==
  \A w \in Runner : \A i, j \in work[w] : i # j => Names[i] \cap Names[j] = {}

\* A row that was open, or that the options ask to revisit.
Due(s, o) ==
  \/ s.status = "" \/ o.force
  \/ gateway = "new" /\ o.regenerate /\ s.status \notin Settled /\ ~Signed(s)

\* Nothing that is due falls between two rows: a row that was open, or that the
\* options ask to revisit, is answered by a finding the run goes on with, its
\* own or its twin's (source.go:160-188, pipeline.go:336-364).
DueRowsAreWorked ==
  Mutual => \A w \in Runner : Working(w) /\ opts[w].only = {} =>
    \A r \in Row : Due(saw[w][r], opts[w]) => \E i \in work[w] : i \in Names[r]

\* The report after a wait is about this upload: what it calls applied or
\* overridden was judged by a statement that is at least as new as the
\* document, so an overridden one has lost to a newer one and not to its own
\* predecessor (main.go:202-211, pipeline.go:749-757).
ReportIsCurrent ==
  gateway = "new" => \A w \in Runner :
    \A i \in verified[w].applied \cup verified[w].overridden : InForce(i).at >= doc[w].at

\* A person's verdict in force gives way to VEXViper's only by force, or when
\* the run had loaded its findings before the verdict was there and built its
\* document after (pipeline.go:338-345, vexgen.go:77-80).
OverruledOnlyUnseen ==
  [][ Told => \A r \in Row :
        Signed(InForce(r)) /\ InForce(r)'.tool = "vexviper" =>
          \E d \in inbox : /\ d.at = InForce(r)'.at
                           /\ d.forced \/ d.saw[r] # InForce(r)
                           /\ d.at > InForce(r).at ]_triageVars

\* What README.md:113-115 says: a statement of a person or another tool is
\* never overwritten by VEXViper, short of Force.
SignedNeverOverwritten ==
  [][ \A r \in Row : Signed(InForce(r)) /\ InForce(r)'.tool = "vexviper" =>
        \E d \in inbox : d.at = InForce(r)'.at /\ d.forced ]_triageVars
=============================================================================
