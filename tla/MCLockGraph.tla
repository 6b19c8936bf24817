---------------------------- MODULE MCLockGraph ----------------------------
EXTENDS LockGraph

CONSTANTS a, b, c, k

Own == [x \in Package |-> x]

\* A lockfile of a format whose switches are off, of a single-package product
\* whose manifest is read as it is meant.
Plain(format, edges, runtime, dev) ==
  LET main == Reachable(edges, runtime)
  IN [format |-> format, edges |-> edges, real |-> Own, runtime |-> runtime, tabled |-> {},
      grouped |-> {}, spread |-> {}, dev |-> dev, tabledDev |-> {}, strayed |-> {},
      repeated |-> {}, local |-> {}, hyphened |-> {}, flagged |-> FALSE, sibling |-> TRUE, workspace |-> FALSE,
      present |-> Reachable(edges, runtime \cup dev),
      flags |-> [x \in Package |-> {x \notin main}]]

\* Every graph in which the wanted package depends on nothing; for a format
\* that leaves everything to the searches.
Edges == {e \in [Package -> SUBSET Package] : e[k] = {} /\ \A x \in Package : x \notin e[x]}

Searched == {Plain("yarn", e, r, d) : e \in Edges, r \in {{a}, {a, b}}, d \in {{}, {b, c}, {c, k}}}

\* Three graphs for the formats: a chain, a diamond, a cycle through the
\* wanted package.
Chain   == [x \in Package |-> IF x = a THEN {b} ELSE IF x = b THEN {k} ELSE {}]
Diamond == [x \in Package |-> IF x = a THEN {a, b, c} ELSE IF x = k THEN {} ELSE {k}]
Cycle   == [x \in Package |-> IF x = a THEN {b, c} ELSE IF x = k THEN {a} ELSE {k}]

\* A local package beside the product's own, and the format's switches.
Switches(l) ==
  {v \in {[l EXCEPT !.local = m, !.flagged = f, !.sibling = s, !.workspace = w] :
            m \in SUBSET {b}, f, s, w \in BOOLEAN} :
     /\ v.flagged => v.format \in {"pnpm", "poetry", "gradle"}
     /\ v.workspace => v.format \in {"yarn", "npm1", "cargo"}
     /\ Declared(v)}

\* What the manifest's reader does not see for what it is, groups, and names
\* that are not keys.
Manifests(l) ==
  LET sets == {s \in SUBSET l.runtime : l.format \in {"cargo", "poetry", "gem"} /\ l.sibling}
      devs == {s \in SUBSET l.dev : l.format \in {"cargo", "poetry", "gem"} /\ l.sibling}
      own  == {s \in SUBSET l.runtime : l.format \in {"poetry", "gem", "uv", "gradle"}}
      keys == {s \in SUBSET (Needs(l) \cup l.dev) : l.format = "cargo"}
  IN {l} \cup {[l EXCEPT !.hyphened = s] : s \in keys}
         \cup {[l EXCEPT !.tabled = s, !.tabledDev = d] : s \in sets, d \in devs}
         \cup {[l EXCEPT !.spread = s, !.strayed = d] : s \in sets, d \in devs}
         \cup {[l EXCEPT !.grouped = s, !.spread = s] : s \in own}

\* The formats as they are written and read.
Written ==
  UNION {Manifests(w) : w \in UNION {Switches(Plain(f, e, r, d)) :
           f \in Format \ {"unreadable"}, e \in {Chain, Diamond, Cycle},
           r \in {{}, {a}, {c, k}}, d \in {{}, {a, b}}}}

\* One package installed under another name, which may be all that is needed.
Alias(l, xy, alone) ==
  [l EXCEPT !.real[xy[1]] = xy[2], !.runtime = IF alone THEN {c} ELSE @]

Renamed ==
  {Alias(l, xy, alone) : l \in {m \in Written : m.format \in {"npm", "npm1", "yarn", "pnpm"}},
                         xy \in {<<c, k>>, <<c, b>>, <<k, c>>}, alone \in BOOLEAN}

\* Needs that the manifest lists twice.
Twice ==
  {[Plain("poetry", e, r, d) EXCEPT !.repeated = s] :
     e \in {Chain, Diamond, Cycle}, r \in {{}, {a}, {a, c}}, d \in {{}, {a, b}}, s \in {{a}, {a, b}}}

\* Copies of one package: what the local packages need is a runtime need, and
\* a package of the runtime closure (in two) may have a copy outside it.
Copied(l, two) ==
  LET main == Keys(l, Reachable(l.edges, MainNeeds(l)))
  IN [l EXCEPT !.present = Keys(l, Reachable(l.edges, Needs(l) \cup l.dev)),
               !.flags = [x \in Package |-> IF x \notin main THEN {TRUE}
                                            ELSE IF x \in two THEN BOOLEAN ELSE {FALSE}]]

\* Only a format that reads the copies' flags can tell such copies apart.
ReadsFlags(l) == l.flagged \/ l.format \in {"npm", "npm1"}

Variants == Twice \cup Renamed \cup Written

Formats == {Copied(v, IF ReadsFlags(v) THEN two ELSE {}) : v \in Variants, two \in {{}, {k}}}

Broken == {Plain("unreadable", Chain, {a}, {})}
Few    == {Plain(f, e, {a}, {b}) : f \in {"yarn", "composer", "pubspec"}, e \in {Chain, [Chain EXCEPT ![b] = {}]}}

MCCheckouts ==
  {<<l, m>> : l \in Few \cup Broken, m \in Few} \cup {<<l>> : l \in Broken} \cup {<< >>}
    \cup {<<l>> : l \in Searched} \cup {<<l>> : l \in Formats}
=============================================================================
