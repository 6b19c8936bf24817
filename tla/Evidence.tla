------------------------------ MODULE Evidence ------------------------------
(***************************************************************************)
(* internal/evidence: what the collector concludes from the facts it can   *)
(* establish about one finding.  A fact record is what the scanners saw in *)
(* the SBOM, the advisory and the checkout; a report is the set of items   *)
(* made of it, each with a kind and the mark "strong" that the guardrails  *)
(* trust.  osv_details is left out: no rule reads it.                      *)
(***************************************************************************)

Ecosystem == {"golang", "npm", "cargo", "composer", "pypi", "other"}

FactSet ==
  [version     : {"fixed", "below", "unknown"},      \* installed against fixed_version
   depth       : {"direct", "transitive", "unknown"},\* BOMHort's dependency graph
   repo        : BOOLEAN,                            \* there is a checkout
   eco         : Ecosystem,
   govulncheck : {"off", "unreported", "reached", "unreached", "unclear"},
   symbols     : {"unknown", "named", "unnamed"},    \* vulnerable symbols in product code
   dev         : {"dev", "runtime", "unknown"},      \* the lockfile's runtime closure
   dependents  : {"none", "some", "unknown"},        \* packages that depend on it there
   root        : BOOLEAN,                            \* the lockfile has it as a root
   declared    : {"no", "dev", "runtime"},           \* in the manifests
   locked      : BOOLEAN,                            \* some lockfile names it
   imported    : BOOLEAN,                            \* the scan saw an import
   aliased     : BOOLEAN,                            \* renamed crate, run by an npm script
   sources     : BOOLEAN]                            \* the scan read a source file

Kind ==
  {"version_fixed", "version_vulnerable", "direct_dependency", "transitive_dependency",
   "govulncheck_reachable", "govulncheck_not_reachable", "govulncheck_not_imported",
   "symbol_referenced", "symbol_not_referenced", "import_not_found", "package_imported",
   "dev_dependency", "manifest_not_found", "dependency_path", "repo_unavailable",
   "no_reachability_analysis"}

Item == [kind : Kind, strong : BOOLEAN]

strong(k) == [kind |-> k, strong |-> TRUE]
weak(k)   == [kind |-> k, strong |-> FALSE]

Has(r, k) == strong(k) \in r \/ weak(k) \in r

\* Mutant: the mark is not looked at.
hasStrongAny(r, k) == Has(r, k)

hasStrong(r, k) == strong(k) \in r
StrongItems(r)  == {i \in r : i.strong}

when(condition, item) == IF condition THEN {item} ELSE {}

-----------------------------------------------------------------------------
versionEvidence(f) ==
  when(f.version = "fixed", strong("version_fixed"))
    \cup when(f.version = "below", weak("version_vulnerable"))

depthEvidence(f) ==
  when(f.depth = "direct", weak("direct_dependency"))
    \cup when(f.depth = "transitive", weak("transitive_dependency"))

\* Go: a call path is strong whatever the scan level, its absence only at
\* symbol level.
EvidenceFor(f) ==
  when(f.govulncheck = "unreported", weak("govulncheck_not_imported"))
    \cup when(f.govulncheck = "reached", strong("govulncheck_reachable"))
    \cup when(f.govulncheck = "unreached", strong("govulncheck_not_reachable"))
    \cup when(f.govulncheck = "unclear", weak("govulncheck_not_reachable"))

\* Go: the symbols the advisory names, looked for in product code.
symbolEvidence(f) ==
  when(f.symbols # "unknown" /\ ~f.imported, weak("import_not_found"))
    \cup when(f.symbols = "named" /\ f.imported, weak("symbol_referenced"))
    \cup when(f.symbols = "unnamed" /\ f.imported, weak("symbol_not_referenced"))

-----------------------------------------------------------------------------
(* The other ecosystems: manifests, lockfile graph, import scan.           *)

direct(f) ==
  IF f.depth # "unknown" THEN f.depth = "direct" ELSE f.declared # "no" \/ f.root

soleConsumer(f) == f.dependents = "none"

\* Mutant: a package may have other dependents.
strongImportMissShared(f) ==
  /\ f.eco \in {"npm", "cargo", "composer"} /\ ~f.aliased
  /\ ~f.imported /\ f.sources
  /\ direct(f)

\* Import syntax names the package itself, and product code, its only possible
\* caller, was scanned and does not.
strongImportMiss(f) ==
  /\ f.eco \in {"npm", "cargo", "composer"} /\ ~f.aliased
  /\ ~f.imported /\ f.sources
  /\ direct(f) /\ soleConsumer(f)

\* Depth in the closure; BOMHort's graph, where it knows, has settled direct
\* against transitive already.
closureItems(f) ==
  LET known == f.depth # "unknown"
  IN when(f.dev = "dev", strong("dev_dependency"))
       \cup when(f.dev = "unknown" /\ f.declared = "dev", weak("dev_dependency"))
       \cup when(~known /\ f.declared # "no", weak("direct_dependency"))
       \cup when(~known /\ f.declared = "no" /\ (f.dev = "dev" \/ f.locked),
                 weak("transitive_dependency"))
       \cup when(f.declared = "no" /\ f.dev # "dev" /\ ~f.locked, weak("manifest_not_found"))

pathItems(f) == when(f.dependents # "unknown", weak("dependency_path"))

importItems(f) ==
  when(f.imported, weak("package_imported"))
    \cup when(strongImportMiss(f), strong("import_not_found"))
    \cup when(~f.imported /\ ~strongImportMiss(f) /\ (f.eco = "composer" => f.sources),
              weak("import_not_found"))

items(f) == closureItems(f) \cup pathItems(f) \cup importItems(f)

soleCaller(f) == direct(f) /\ soleConsumer(f) /\ ~f.aliased

\* Rust: the functions the advisory names, in the files that use the crate.
rustSymbolEvidence(f) ==
  when(f.imported /\ f.symbols = "named", weak("symbol_referenced"))
    \cup when(f.imported /\ f.symbols = "unnamed" /\ soleCaller(f),
              strong("symbol_not_referenced"))
    \cup when(f.imported /\ f.symbols = "unnamed" /\ ~soleCaller(f),
              weak("symbol_not_referenced"))

Collect(f) ==
  versionEvidence(f) \cup depthEvidence(f)
    \cup (IF ~f.repo THEN {weak("repo_unavailable")}
          ELSE IF f.eco = "golang" THEN EvidenceFor(f) \cup symbolEvidence(f)
          ELSE {weak("no_reachability_analysis")}
                 \cup (IF f.eco = "other" THEN {} ELSE items(f))
                 \cup (IF f.eco = "cargo" THEN rustSymbolEvidence(f) ELSE {}))
=============================================================================
