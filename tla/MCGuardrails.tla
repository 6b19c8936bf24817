---------------------------- MODULE MCGuardrails ----------------------------
EXTENDS Guardrails

\* A finding without any fact; the others change some of its fields.
Plain ==
  [version |-> "unknown", depth |-> "unknown", repo |-> TRUE, eco |-> "other",
   govulncheck |-> "off", symbols |-> "unknown", dev |-> "unknown",
   dependents |-> "unknown", root |-> FALSE, declared |-> "no", locked |-> FALSE,
   imported |-> FALSE, aliased |-> FALSE, sources |-> TRUE]

SmallFacts ==
  {[Plain EXCEPT !.version = v, !.repo = b] : v \in {"fixed", "below", "unknown"}, b \in BOOLEAN}
  \cup {[Plain EXCEPT !.eco = "golang", !.govulncheck = g, !.symbols = s, !.imported = i,
                      !.version = v] :
          g \in {"off", "unreported", "reached", "unreached", "unclear"},
          s \in {"unknown", "named", "unnamed"}, i \in BOOLEAN, v \in {"fixed", "unknown"}}
  \cup {[Plain EXCEPT !.eco = e, !.dev = d, !.declared = m, !.locked = l] :
          e \in {"npm", "pypi"}, d \in {"dev", "runtime", "unknown"},
          m \in {"no", "dev", "runtime"}, l \in BOOLEAN}
  \cup {[Plain EXCEPT !.eco = e, !.depth = p, !.dependents = n, !.root = t, !.aliased = a,
                      !.imported = i, !.symbols = s] :
          e \in {"npm", "cargo", "pypi"}, p \in {"direct", "transitive", "unknown"},
          n \in {"none", "some"}, t \in BOOLEAN, a \in BOOLEAN, i \in BOOLEAN,
          s \in {"named", "unnamed"}}
  \cup {[Plain EXCEPT !.eco = "composer", !.dependents = "none", !.root = TRUE, !.sources = b] :
          b \in BOOLEAN}

\* Well-formed, sloppy and unusable answers.
SmallAnswers ==
  LET say(s, j, t, c) ==
        [status |-> s, justification |-> j, impact |-> t, action |-> t,
         confidence |-> c, by |-> "primary"]
  IN {say(s, "listed", "text", 80) : s \in RawStatus}
     \cup {say("Not-Affected", "Listed", "", c) : c \in {50, 101}}
     \cup {say("not_affected", j, "", 80) : j \in {"", "unlisted"}}
     \cup {say("fixed", "", "", c) : c \in {50, 101}}

SmallOptions == [min : {60, 80}, allow : BOOLEAN]
=============================================================================
