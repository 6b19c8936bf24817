--------------------------- MODULE LockGraphProof ---------------------------
(***************************************************************************)
(* What a lockfile graph answers, for every checkout, every lockfile,      *)
(* every package and every limit.  The dev-only answer: what the searches  *)
(* visit is what the starts reach, and what the loaders recover is what    *)
(* the package manager wrote.  The choice of the lockfile: every lockfile  *)
(* passed over was unreadable or lacked the package.  The paths: a         *)
(* breadth-first search knows a shortest way to whatever it has come to,   *)
(* its queue never reaches more than one step beyond its head, and so      *)
(* nothing as near as the head was missed.                                 *)
(***************************************************************************)
EXTENDS LockGraph, FiniteSetTheorems, SequenceTheorems, WellFoundedInduction, TLAPS

USE WantedAssumption

-----------------------------------------------------------------------------
(* Closed sets.                                                            *)

LEMMA ReachableStarts ==
  ASSUME NEW edges \in [Package -> SUBSET Package], NEW from \in SUBSET Package
  PROVE  from \subseteq Reachable(edges, from) /\ Reachable(edges, from) \subseteq Package
BY DEF Reachable

LEMMA ReachableClosed ==
  ASSUME NEW edges \in [Package -> SUBSET Package], NEW from
  PROVE  Closed(edges, Reachable(edges, from))
<1> SUFFICES ASSUME NEW x \in Reachable(edges, from), NEW y \in edges[x],
                    NEW S \in SUBSET Package, from \subseteq S, Closed(edges, S)
             PROVE  y \in S
  BY DEF Closed, Reachable
<1>1. x \in S
  BY DEF Reachable
<1> QED BY <1>1 DEF Closed

\* The smallest closed set that has the from.
LEMMA ReachableLeast ==
  ASSUME NEW edges, NEW from, NEW S \in SUBSET Package,
         from \subseteq S, Closed(edges, S)
  PROVE  Reachable(edges, from) \subseteq S
BY DEF Reachable

LEMMA ReachableMono ==
  ASSUME NEW edges, NEW A, NEW B, A \subseteq B
  PROVE  Reachable(edges, A) \subseteq Reachable(edges, B)
BY DEF Reachable

LEMMA ReachableUnion ==
  ASSUME NEW edges \in [Package -> SUBSET Package],
         NEW A \in SUBSET Package, NEW B \in SUBSET Package
  PROVE  Reachable(edges, A \cup B) \subseteq Reachable(edges, A) \cup Reachable(edges, B)
<1> DEFINE S == Reachable(edges, A) \cup Reachable(edges, B)
<1>1. S \in SUBSET Package /\ A \cup B \subseteq S
  BY ReachableStarts
<1>2. Closed(edges, S)
  BY ReachableClosed DEF Closed
<1> QED BY <1>1, <1>2, ReachableLeast

Selfless(edges) == [x \in Package |-> edges[x] \ {x}]

\* A package's edge to itself adds nothing.
LEMMA ReachableSelfless ==
  ASSUME NEW edges \in [Package -> SUBSET Package], NEW from \in SUBSET Package
  PROVE  Reachable(Selfless(edges), from) = Reachable(edges, from)
<1>1. \A S \in SUBSET Package : Closed(Selfless(edges), S) <=> Closed(edges, S)
  BY DEF Closed, Selfless
<1> QED BY <1>1 DEF Reachable

-----------------------------------------------------------------------------
(* The loaders.                                                            *)

\* What a graph that answers by search has to do with its lockfile: nothing
\* depends on what goes by another name, the need is among the runtime roots
\* where it is not misread, and where it is seen only what is needed at run time
\* is behind the runtime roots, and what only development needs behind the others.
Recovers(g, l) ==
  /\ l.format = "pnpm" => ~l.flagged
  /\ ~Aliased(l) => g.edges = Selfless(l.edges)
  /\ ~Misread(l) /\ Wanted \in Runtime(l) => Wanted \in Reachable(l.edges, g.root)
  /\ ~Unseen(l) /\ Wanted \in Reachable(l.edges, g.root) => Wanted \in Runtime(l)
  /\ ~Unseen(l) /\ Wanted \in Reachable(l.edges, l.dev) \ Runtime(l) =>
       Wanted \in Reachable(l.edges, g.rootDev)

BySearch(g) == g.hasEdges /\ g.rootKnown /\ g.devSplit /\ ~g.devFlags

GraphOf(g, l) ==
  /\ g \in Graph
  /\ BySearch(g) => Recovers(g, l)
  /\ g.devFlags /\ Wanted \in l.present =>
       /\ Wanted \in g.devOnly => ~InRuntime(l) \/ Misread(l)
       /\ Wanted \notin g.devOnly => InRuntime(l) \/ Unseen(l)

LEMMA NewGraph ==
  ASSUME NEW l \in LockFile
  PROVE  /\ newGraph(l) \in Graph /\ flatGraph(l) \in Graph
         /\ newGraph(l).edges = Selfless(l.edges) /\ newGraph(l).hasEdges
         /\ ~newGraph(l).devFlags /\ ~newGraph(l).devSplit
         /\ ~flatGraph(l).hasEdges /\ ~flatGraph(l).devFlags
BY DEF newGraph, flatGraph, Graph, LockFile, Selfless

\* h is g with other roots.
Rooted(h, g, r, d) ==
  /\ h \in Graph
  /\ h.edges = g.edges /\ h.hasEdges = g.hasEdges
  /\ h.root = r /\ h.rootDev = d \ r /\ h.devSplit /\ h.rootKnown
  /\ h.devFlags = g.devFlags /\ h.devOnly = g.devOnly

LEMMA WithRoots ==
  ASSUME NEW g \in Graph, NEW r, NEW d, r \subseteq Package, d \subseteq Package
  PROVE  Rooted(withRoots(g, r, d), g, r, d)
BY DEF withRoots, Graph, Rooted

\* h is g with the merged flags.
Flagged(h, g, l) ==
  /\ h \in Graph
  /\ h.edges = g.edges /\ h.hasEdges = g.hasEdges
  /\ h.devFlags /\ h.devOnly = {x \in l.present : l.flags[x] = {TRUE}}

LEMMA WithFlags ==
  ASSUME NEW g \in Graph, NEW l \in LockFile
  PROVE  Flagged(withFlags(g, l), g, l)
<1>1. {x \in l.present : l.flags[x] = {TRUE}} \in SUBSET Package
  BY DEF LockFile
<1> QED BY <1>1 DEF withFlags, Graph, Flagged

LEMMA Parts ==
  ASSUME NEW l \in LockFile, Resolved(l)
  PROVE  /\ Needs(l) \in SUBSET Package /\ MainNeeds(l) \in SUBSET Package
         /\ MainNeeds(l) \subseteq Needs(l) /\ Needs(l) \subseteq MainNeeds(l) \cup l.grouped
         /\ l.grouped = {} => MainNeeds(l) = Needs(l)
         /\ Needs(l) = l.runtime \cup l.local
         /\ l.runtime \in SUBSET Package /\ l.local \in SUBSET Package
         /\ l.dev \in SUBSET Package /\ l.grouped \in SUBSET l.runtime
         /\ readRuntime(l) \in SUBSET Package /\ readDev(l) \in SUBSET Package
         /\ readDevOnly(l) \in SUBSET Package
         /\ readRuntime(l) \subseteq l.runtime \cup l.dev
         /\ l.edges \in [Package -> SUBSET Package] /\ l.real \in [Package -> Package]
         /\ l.repeated \in SUBSET Package /\ l.present \in SUBSET Package
         /\ l.sibling \in BOOLEAN /\ l.workspace \in BOOLEAN /\ l.flagged \in BOOLEAN
<1>1. /\ l.runtime \in SUBSET Package /\ l.local \in SUBSET Package /\ l.dev \in SUBSET Package
      /\ l.spread \in SUBSET Package /\ l.strayed \in SUBSET Package
      /\ l.repeated \in SUBSET Package /\ l.present \in SUBSET Package
      /\ l.edges \in [Package -> SUBSET Package] /\ l.real \in [Package -> Package]
      /\ l.sibling \in BOOLEAN /\ l.workspace \in BOOLEAN /\ l.flagged \in BOOLEAN
  BY DEF LockFile
<1>2. l.grouped \subseteq l.runtime /\ l.strayed \subseteq l.dev
  BY DEF Resolved, Declared
<1> QED BY <1>1, <1>2 DEF Needs, MainNeeds, readRuntime, readDev, readDevOnly

\* Which formats have what.
LEMMA Formats ==
  ASSUME NEW l \in LockFile, Resolved(l)
  PROVE  /\ l.local # {} => \/ l.format \in {"npm", "pnpm", "uv", "nuget", "cargo", "gradle"}
                            \/ l.format = "yarn" /\ l.workspace
         /\ l.grouped # {} => l.format \in {"poetry", "uv", "gem", "gradle"}
         /\ l.format \notin {"npm", "npm1", "yarn", "pnpm"} => ~Aliased(l)
         /\ l.format = "pnpm" /\ l.flagged => ~Aliased(l)
BY DEF Resolved, Declared, Aliased

\* Without an alias about, the wanted package goes by its name and no other
\* package does.
LEMMA OneName ==
  ASSUME NEW l \in LockFile, Resolved(l), ~Aliased(l), l.format = "pnpm" => ~l.flagged
  PROVE  /\ InRuntime(l) <=> Wanted \in Runtime(l)
         /\ l.present = Reachable(l.edges, Needs(l) \cup l.dev)
         /\ l.format = "pnpm" => \A x \in Package : l.real[x] = x
<1>1. \A x \in Package : l.real[x] = Wanted <=> x = Wanted
  BY DEF Aliased
<1>2. Runtime(l) \subseteq Package /\ Reachable(l.edges, Needs(l) \cup l.dev) \subseteq Package
  BY DEF Runtime, Reachable
<1>3. InRuntime(l) <=> Wanted \in Runtime(l)
  BY <1>1, <1>2 DEF InRuntime
<1>4. l.format = "pnpm" => \A x \in Package : l.real[x] = x
  BY DEF Aliased
<1>5. l.present = Keys(l, Reachable(l.edges, Needs(l) \cup l.dev))
  BY DEF Resolved, Locked
<1>6. Keys(l, Reachable(l.edges, Needs(l) \cup l.dev)) = Reachable(l.edges, Needs(l) \cup l.dev)
  BY <1>2, <1>4 DEF Keys
<1> QED BY <1>3, <1>4, <1>5, <1>6

\* The runtime closure without what only groups of their own need.
MainRuntime(l) == Reachable(l.edges, MainNeeds(l))

LEMMA MainIsRuntime ==
  ASSUME NEW l \in LockFile, Resolved(l)
  PROVE  /\ MainRuntime(l) \subseteq Runtime(l) /\ Runtime(l) \subseteq Package
         /\ l.grouped = {} => MainRuntime(l) = Runtime(l)
<1>1. /\ l.edges \in [Package -> SUBSET Package] /\ Needs(l) \in SUBSET Package
      /\ MainNeeds(l) \subseteq Needs(l) /\ (l.grouped = {} => MainNeeds(l) = Needs(l))
  BY Parts
<1>2. Reachable(l.edges, Needs(l)) \subseteq Package
  BY <1>1, ReachableStarts
<1>3. Reachable(l.edges, MainNeeds(l)) \subseteq Reachable(l.edges, Needs(l))
  BY <1>1, ReachableMono
<1> QED BY <1>1, <1>2, <1>3 DEF MainRuntime, Runtime

\* Whether some copy of the wanted package is not flagged tells whether the
\* main group needs it at run time.
LEMMA FlagOfWanted ==
  ASSUME NEW l \in LockFile, Resolved(l), Wanted \in l.present
  PROVE  /\ l.flags[Wanted] \in SUBSET BOOLEAN /\ l.flags[Wanted] # {}
         /\ l.format # "pnpm" => (FALSE \in l.flags[Wanted] <=> Wanted \in MainRuntime(l))
         /\ l.format = "pnpm" => (FALSE \in l.flags[Wanted] <=> InRuntime(l))
<1>1. l.flags[Wanted] \in SUBSET BOOLEAN
  BY DEF LockFile
<1>2. /\ l.flags[Wanted] # {}
      /\ FALSE \in l.flags[Wanted] <=> Wanted \in Keys(l, MainRuntime(l))
  BY DEF Resolved, Locked, MainRuntime
<1>3. l.format # "pnpm" => Keys(l, MainRuntime(l)) = MainRuntime(l)
  BY DEF Keys
<1>4. l.format = "pnpm" => (Wanted \in Keys(l, MainRuntime(l)) <=> InRuntime(l))
  <2> SUFFICES ASSUME l.format = "pnpm" PROVE Wanted \in Keys(l, MainRuntime(l)) <=> InRuntime(l)
    OBVIOUS
  <2>1. MainRuntime(l) = Runtime(l)
    BY MainIsRuntime, Formats
  <2>2. Keys(l, Runtime(l)) = {l.real[x] : x \in Runtime(l)}
    BY DEF Keys
  <2> QED BY <2>1, <2>2 DEF InRuntime
<1> QED BY <1>1, <1>2, <1>3, <1>4

\* Flags merged over the copies of a package are right.
LEMMA FlagsRight ==
  ASSUME NEW l \in LockFile, Resolved(l), Wanted \in l.present,
         l.format \notin {"poetry", "gem"}, l.format = "pnpm" => l.flagged,
         NEW g, g.devOnly = {x \in l.present : l.flags[x] = {TRUE}}
  PROVE  /\ Wanted \in g.devOnly => ~InRuntime(l) \/ Misread(l)
         /\ Wanted \notin g.devOnly => InRuntime(l) \/ Unseen(l)
<1>1. Wanted \in g.devOnly <=> FALSE \notin l.flags[Wanted]
  <2>1. l.flags[Wanted] \in SUBSET BOOLEAN /\ l.flags[Wanted] # {}
    BY FlagOfWanted
  <2>2. l.flags[Wanted] = {TRUE} <=> FALSE \notin l.flags[Wanted]
    BY <2>1
  <2> QED BY <2>2
<1>2. CASE l.format = "pnpm"
  BY <1>1, <1>2, FlagOfWanted
<1>3. CASE l.format # "pnpm"
  <2>1. FALSE \in l.flags[Wanted] <=> Wanted \in MainRuntime(l)
    BY <1>3, FlagOfWanted
  <2>2. ~Aliased(l) => (InRuntime(l) <=> Wanted \in Runtime(l))
    BY <1>3, OneName
  <2>3. Aliased(l) => Misread(l) /\ Unseen(l)
    BY DEF Misread, Unseen
  <2>4. Wanted \in Runtime(l) \ MainRuntime(l) => Misread(l)
    <3>1. Wanted \in Runtime(l) \ MainRuntime(l) => l.format \in {"uv", "gradle"}
      BY MainIsRuntime, Formats
    <3> QED BY <3>1 DEF Misread, MainRuntime
  <2>5. MainRuntime(l) \subseteq Runtime(l)
    BY MainIsRuntime
  <2> QED BY <1>1, <2>1, <2>2, <2>3, <2>4, <2>5
<1> QED BY <1>2, <1>3

\* A graph whose flags were merged over the copies.
LEMMA FlaggedGraph ==
  ASSUME NEW l \in LockFile, Resolved(l), NEW g \in Graph,
         l.format \notin {"poetry", "gem"}, l.format = "pnpm" => l.flagged,
         g.devFlags, g.devOnly = {x \in l.present : l.flags[x] = {TRUE}}
  PROVE  GraphOf(g, l)
BY FlagsRight DEF GraphOf, BySearch

LEMMA NpmGraph ==
  ASSUME NEW l \in LockFile, Resolved(l), l.format \in {"npm", "npm1"}
  PROVE  GraphOf(parsePackageLock(l), l)
<1> DEFINE g == withFlags(newGraph(l), l)
<1> HIDE DEF g
<1>1. g \in Graph /\ g.devFlags /\ g.devOnly = {x \in l.present : l.flags[x] = {TRUE}}
  BY NewGraph, WithFlags DEF g, Flagged
<1>2. ASSUME NEW r \in SUBSET Package, NEW d \in SUBSET Package
      PROVE  /\ GraphOf(withRoots(g, r, d), l)
             /\ GraphOf([withRoots(g, r, d) EXCEPT !.devSplit = ~l.workspace], l)
  <2> DEFINE h == withRoots(g, r, d)
             k == [h EXCEPT !.devSplit = ~l.workspace]
  <2>1. h \in Graph /\ h.devFlags /\ h.devOnly = {x \in l.present : l.flags[x] = {TRUE}}
    BY <1>1, WithRoots DEF Rooted
  <2> HIDE DEF h
  <2>2. k \in Graph /\ k.devFlags /\ k.devOnly = {x \in l.present : l.flags[x] = {TRUE}}
    BY <2>1, Parts DEF Graph
  <2> HIDE DEF k
  <2>3. GraphOf(h, l)
    BY <2>1, FlaggedGraph
  <2>4. GraphOf(k, l)
    BY <2>2, FlaggedGraph
  <2> QED BY <2>3, <2>4 DEF h, k
<1>3. GraphOf(g, l)
  BY <1>1, FlaggedGraph
<1>4. parsePackageLock(l) =
        IF l.format = "npm" THEN withRoots(g, Needs(l), l.dev)
        ELSE IF l.sibling THEN [withRoots(g, l.runtime, l.dev) EXCEPT !.devSplit = ~l.workspace]
        ELSE g
  BY DEF parsePackageLock, npmRootFromManifest, g
<1>5. CASE l.format = "npm"
  BY <1>2, <1>4, <1>5, Parts
<1>6. CASE l.format # "npm" /\ l.sibling
  <2>1. l.runtime \in SUBSET Package /\ l.dev \in SUBSET Package
    BY Parts
  <2>2. GraphOf([withRoots(g, l.runtime, l.dev) EXCEPT !.devSplit = ~l.workspace], l)
    BY <1>2, <2>1
  <2> QED BY <1>4, <1>6, <2>2
<1>7. CASE l.format # "npm" /\ ~l.sibling
  BY <1>3, <1>4, <1>7
<1> QED BY <1>5, <1>6, <1>7, Parts

LEMMA NothingBehindNothing == \A edges : Reachable(edges, {}) = {}
<1> SUFFICES ASSUME NEW edges, NEW x \in Reachable(edges, {}) PROVE FALSE
  OBVIOUS
<1>1. {} \subseteq {} /\ Closed(edges, {}) /\ {} \in SUBSET Package
  BY DEF Closed
<1> QED BY <1>1 DEF Reachable

\* A graph without flags has N of the needs among its runtime roots, and does
\* not have the development needs U as such: it answers right where the wanted
\* package is behind N, if needed at all, and not behind U.
LEMMA SplitGraph ==
  ASSUME NEW l \in LockFile, Resolved(l), l.format = "pnpm" => ~l.flagged,
         NEW g \in Graph, ~g.devFlags, ~Aliased(l) => g.edges = Selfless(l.edges),
         NEW N, N \subseteq g.root,
         ~Misread(l) /\ Wanted \in Runtime(l) => Wanted \in Reachable(l.edges, N),
         NEW U \in SUBSET Package,
         ~Unseen(l) => Wanted \notin Reachable(l.edges, U),
         g.root \subseteq Needs(l) \cup U,
         l.dev \subseteq (Needs(l) \cup g.rootDev) \cup U
  PROVE  GraphOf(g, l)
<1>1. /\ l.edges \in [Package -> SUBSET Package] /\ Needs(l) \in SUBSET Package
      /\ g.rootDev \in SUBSET Package
  BY Parts DEF Graph
<1>2. Reachable(l.edges, Needs(l) \cup U) \subseteq Runtime(l) \cup Reachable(l.edges, U)
  BY <1>1, ReachableUnion DEF Runtime
<1>3. Reachable(l.edges, Needs(l) \cup g.rootDev) \subseteq Runtime(l) \cup Reachable(l.edges, g.rootDev)
  BY <1>1, ReachableUnion DEF Runtime
<1>4. Reachable(l.edges, (Needs(l) \cup g.rootDev) \cup U)
        \subseteq Reachable(l.edges, Needs(l) \cup g.rootDev) \cup Reachable(l.edges, U)
  <2>1. Needs(l) \cup g.rootDev \in SUBSET Package
    BY <1>1
  <2> QED BY <1>1, <2>1, ReachableUnion
<1>5. ~Misread(l) /\ Wanted \in Runtime(l) => Wanted \in Reachable(l.edges, g.root)
  BY ReachableMono
<1>6. ~Unseen(l) /\ Wanted \in Reachable(l.edges, g.root) => Wanted \in Runtime(l)
  <2>1. Reachable(l.edges, g.root) \subseteq Reachable(l.edges, Needs(l) \cup U)
    BY ReachableMono
  <2> QED BY <1>2, <2>1
<1>7. ~Unseen(l) /\ Wanted \in Reachable(l.edges, l.dev) \ Runtime(l) =>
        Wanted \in Reachable(l.edges, g.rootDev)
  <2>1. Reachable(l.edges, l.dev) \subseteq Reachable(l.edges, (Needs(l) \cup g.rootDev) \cup U)
    BY ReachableMono
  <2> QED BY <1>3, <1>4, <2>1
<1>8. Recovers(g, l)
  BY <1>5, <1>6, <1>7 DEF Recovers
<1> QED BY <1>8 DEF GraphOf

\* And one whose roots are split as the lockfile or the manifest splits them
\* answers right, if its runtime roots are all needs or, in uv, the main ones.
LEMMA ExactGraph ==
  ASSUME NEW l \in LockFile, Resolved(l), l.format = "pnpm" => ~l.flagged,
         NEW g \in Graph, ~g.devFlags, ~Aliased(l) => g.edges = Selfless(l.edges),
         g.root = Needs(l) \/ (g.root = MainNeeds(l) /\ l.format = "uv"),
         l.dev \ Needs(l) \subseteq g.rootDev
  PROVE  GraphOf(g, l)
<1>1. ~Misread(l) /\ Wanted \in Runtime(l) => Wanted \in Reachable(l.edges, g.root)
  BY DEF Misread, Runtime
<1>2. Wanted \notin Reachable(l.edges, {})
  BY NothingBehindNothing
<1>3. g.root \subseteq Needs(l) \cup {}
  BY Parts
<1>4. l.dev \subseteq (Needs(l) \cup g.rootDev) \cup {}
  OBVIOUS
<1>5. g.root \subseteq g.root /\ {} \in SUBSET Package
  OBVIOUS
<1> QED BY <1>1, <1>2, <1>3, <1>4, <1>5, SplitGraph

\* A graph that answers nothing.
LEMMA SilentGraph ==
  ASSUME NEW l \in LockFile, NEW g \in Graph, ~g.devFlags, ~g.hasEdges \/ ~g.devSplit
  PROVE  GraphOf(g, l)
BY DEF GraphOf, BySearch

LEMMA YarnGraph ==
  ASSUME NEW l \in LockFile, Resolved(l), l.format = "yarn"
  PROVE  GraphOf(parseYarnLock(l), l)
<1> DEFINE h == withRoots(newGraph(l), l.runtime, l.dev)
           k == [h EXCEPT !.devSplit = ~l.workspace]
<1>1. CASE ~l.sibling
  <2>1. parseYarnLock(l) = newGraph(l)
    BY <1>1 DEF parseYarnLock, npmRootFromManifest
  <2> QED BY <2>1, NewGraph, SilentGraph
<1>2. CASE l.sibling
  <2>1. parseYarnLock(l) = k
    BY <1>2 DEF parseYarnLock, npmRootFromManifest
  <2>2. /\ h \in Graph /\ h.edges = Selfless(l.edges)
        /\ ~h.devFlags /\ h.root = l.runtime /\ h.rootDev = l.dev \ l.runtime
    <3>1. /\ newGraph(l) \in Graph
          /\ newGraph(l).edges = Selfless(l.edges) /\ ~newGraph(l).devFlags
          /\ l.runtime \subseteq Package /\ l.dev \subseteq Package
      BY NewGraph, Parts
    <3>2. Rooted(h, newGraph(l), l.runtime, l.dev)
      BY <3>1, WithRoots
    <3> QED BY <3>1, <3>2 DEF Rooted
  <2> HIDE DEF h
  <2>3. /\ k \in Graph /\ k.edges = Selfless(l.edges) /\ ~k.devFlags
        /\ k.root = h.root /\ k.rootDev = h.rootDev /\ k.devSplit = ~l.workspace
    BY <2>2, Parts DEF Graph
  <2> HIDE DEF k
  <2>4. CASE l.workspace
    BY <2>1, <2>3, <2>4, SilentGraph
  <2>5. CASE ~l.workspace
    <3>1. Needs(l) = l.runtime
      BY <2>5, Formats, Parts
    <3> QED BY <2>1, <2>2, <2>3, <3>1, ExactGraph
  <2> QED BY <2>4, <2>5, Parts
<1> QED BY <1>1, <1>2, Parts

LEMMA PnpmEdges ==
  ASSUME NEW l \in LockFile
  PROVE  [y \in Package |-> (UNION {l.edges[x] : x \in {z \in Package : l.real[z] = y}}) \ {y}]
           \in [Package -> SUBSET Package]
<1>1. l.edges \in [Package -> SUBSET Package]
  BY DEF LockFile
<1>2. ASSUME NEW y \in Package
      PROVE  (UNION {l.edges[x] : x \in {z \in Package : l.real[z] = y}}) \ {y} \in SUBSET Package
  <2> DEFINE Z == {z \in Package : l.real[z] = y}
  <2>1. \A x \in Z : l.edges[x] \subseteq Package
    BY <1>1
  <2> HIDE DEF Z
  <2>2. (UNION {l.edges[x] : x \in Z}) \subseteq Package
    BY <2>1
  <2> QED BY <2>2 DEF Z
<1> QED BY <1>2

LEMMA PnpmGraph ==
  ASSUME NEW l \in LockFile, Resolved(l), l.format = "pnpm"
  PROVE  GraphOf(parsePnpmLock(l), l)
<1> DEFINE g == newGraph(l)
           e == [y \in Package |-> (UNION {l.edges[x] : x \in {z \in Package : l.real[z] = y}}) \ {y}]
           w == withRoots(g, Needs(l), l.dev)
           h == [w EXCEPT !.edges = e]
           k == withFlags(h, l)
<1>1. g \in Graph /\ ~g.devFlags /\ Needs(l) \in SUBSET Package /\ l.dev \in SUBSET Package
  BY NewGraph, Parts
<1>2. parsePnpmLock(l) = IF l.flagged THEN k ELSE h
  BY DEF parsePnpmLock
<1>3. e \in [Package -> SUBSET Package]
  BY PnpmEdges
<1>4. ~Aliased(l) /\ ~l.flagged => e = Selfless(l.edges)
  <2> SUFFICES ASSUME ~Aliased(l), ~l.flagged, NEW y \in Package
               PROVE  (UNION {l.edges[x] : x \in {z \in Package : l.real[z] = y}}) \ {y} = l.edges[y] \ {y}
    BY DEF Selfless
  <2>1. {z \in Package : l.real[z] = y} = {y}
    BY OneName
  <2>2. UNION {l.edges[x] : x \in {y}} = l.edges[y]
    <3>1. {l.edges[x] : x \in {y}} = {l.edges[y]}
      OBVIOUS
    <3>2. UNION {l.edges[y]} = l.edges[y]
      OBVIOUS
    <3> QED BY <3>1, <3>2, Zenon
  <2> QED BY <2>1, <2>2, Zenon
<1> HIDE DEF g
<1>5. /\ w \in Graph /\ w.root = Needs(l) /\ w.rootDev = l.dev \ Needs(l) /\ ~w.devFlags
  BY <1>1, WithRoots DEF Rooted
<1> HIDE DEF w, e
<1>6. /\ h \in Graph /\ h.root = Needs(l) /\ h.rootDev = l.dev \ Needs(l) /\ ~h.devFlags
      /\ h.edges = e
  BY <1>3, <1>5 DEF Graph
<1> HIDE DEF h
<1>7. CASE l.flagged
  <2>1. k \in Graph /\ k.devFlags /\ k.devOnly = {x \in l.present : l.flags[x] = {TRUE}}
    BY <1>6, WithFlags DEF Flagged
  <2> HIDE DEF k
  <2> QED BY <1>2, <1>7, <2>1, FlaggedGraph
<1>8. CASE ~l.flagged
  BY <1>2, <1>4, <1>6, <1>8, ExactGraph
<1> QED BY <1>7, <1>8

LEMMA CargoGraph ==
  ASSUME NEW l \in LockFile, Resolved(l), l.format = "cargo"
  PROVE  GraphOf(cargoRootFromManifest(parseCargoLock(l), l), l)
<1> DEFINE g == parseCargoLock(l)
           D == readDevOnly(l)
           h == withRoots(g, g.root \ D, g.root \cap D)
           c == cargoRootFromManifest(g, l)
<1>1. /\ g \in Graph /\ g.edges = Selfless(l.edges)
      /\ g.root = (Needs(l) \cup l.dev) \ l.hyphened /\ ~g.devSplit /\ ~g.devFlags
  <2>1. (Needs(l) \cup l.dev) \ l.hyphened \in SUBSET Package
    BY Parts
  <2> QED BY <2>1, NewGraph DEF parseCargoLock, Graph
<1>2. c = g \/ c = h
  BY DEF cargoRootFromManifest
<1> HIDE DEF g, D
<1>3. GraphOf(g, l)
  BY <1>1, SilentGraph
<1>4. GraphOf(h, l)
  <2>1. g.root \cap D \in SUBSET Package /\ g.root \ D \in SUBSET Package
    BY <1>1 DEF Graph
  <2>2. /\ h \in Graph /\ h.edges = Selfless(l.edges)
        /\ ~h.devFlags /\ h.root = g.root \ D /\ h.rootDev = (g.root \cap D) \ (g.root \ D)
    <3>1. Rooted(h, g, g.root \ D, g.root \cap D)
      BY <1>1, <2>1, WithRoots
    <3> QED BY <1>1, <3>1 DEF Rooted
  <2> HIDE DEF h
  <2> DEFINE N == Needs(l) \ (D \cup l.hyphened)
             U == l.dev \ (D \ l.hyphened)
  <2>3. N \subseteq h.root
    BY <1>1, <2>2
  <2>4. ~Misread(l) /\ Wanted \in Runtime(l) => Wanted \in Reachable(l.edges, N)
    BY DEF D, Misread
  <2>5. ~Unseen(l) => Wanted \notin Reachable(l.edges, U)
    BY DEF D, Unseen
  <2>6. /\ U \in SUBSET Package /\ h.root \subseteq Needs(l) \cup U
        /\ l.dev \subseteq (Needs(l) \cup h.rootDev) \cup U
    BY <1>1, <2>2, Parts
  <2> HIDE DEF N, U
  <2> QED BY <2>2, <2>3, <2>4, <2>5, <2>6, SplitGraph
<1> QED BY <1>2, <1>3, <1>4 DEF g, h

LEMMA PoetryGraph ==
  ASSUME NEW l \in LockFile, Resolved(l), l.format = "poetry", NEW p \in parsePoetryLock(l)
  PROVE  GraphOf(pyRootFromManifest(p, l), l)
<1> DEFINE r == pyRootFromManifest(p, l)
           w == withRoots(p, readRuntime(l), readDev(l))
           h == [w EXCEPT !.repeated = l.repeated]
<1>1. r = p \/ r = h
  BY DEF pyRootFromManifest
<1>2. ASSUME p \in Graph
      PROVE  /\ h \in Graph /\ h.edges = p.edges /\ h.devFlags = p.devFlags /\ h.devOnly = p.devOnly
             /\ h.root = readRuntime(l) /\ h.rootDev = readDevOnly(l)
  <2>1. Rooted(w, p, readRuntime(l), readDev(l))
    BY <1>2, WithRoots, Parts
  <2> HIDE DEF w
  <2> QED BY <2>1, Parts DEF Rooted, Graph, readDevOnly
<1>3. CASE l.flagged
  <2>1. PICK E \in SUBSET l.present :
          /\ \A x \in l.present : (x \in E) \in l.flags[x]
          /\ p = [newGraph(l) EXCEPT !.devFlags = TRUE, !.devOnly = E]
    BY <1>3 DEF parsePoetryLock
  <2>2. p \in Graph /\ p.devFlags /\ p.devOnly = E
    <3>1. E \in SUBSET Package
      BY <2>1, Parts
    <3> QED BY <2>1, <3>1, NewGraph, Zenon DEF Graph
  <2>3. r \in Graph /\ r.devFlags /\ r.devOnly = E
    <3> HIDE DEF h
    <3> QED BY <1>1, <1>2, <2>2
  <2>4. ASSUME Wanted \in l.present
        PROVE  /\ Wanted \in E => ~InRuntime(l) \/ Misread(l)
               /\ Wanted \notin E => InRuntime(l) \/ Unseen(l)
    <3>1. /\ l.flags[Wanted] \in SUBSET BOOLEAN
          /\ FALSE \in l.flags[Wanted] <=> Wanted \in MainRuntime(l)
      BY <2>4, FlagOfWanted
    <3>2. (Wanted \in E) \in l.flags[Wanted]
      BY <2>1, <2>4
    <3>3. (InRuntime(l) <=> Wanted \in Runtime(l)) /\ MainRuntime(l) \subseteq Runtime(l)
      BY Formats, OneName, MainIsRuntime
    <3>4. CASE Wanted \in E
      <4>1. TRUE \in l.flags[Wanted]
        BY <3>2, <3>4
      <4>2. Wanted \in MainRuntime(l) => l.flags[Wanted] = BOOLEAN
        BY <3>1, <4>1
      <4>3. Wanted \in Runtime(l) => Misread(l)
        BY <1>3, <4>2 DEF Misread, MainRuntime
      <4> QED BY <3>3, <3>4, <4>3
    <3>5. CASE Wanted \notin E
      <4>1. (Wanted \in E) = FALSE
        BY <3>5
      <4>2. FALSE \in l.flags[Wanted]
        BY <3>2, <4>1, Zenon
      <4> QED BY <3>1, <3>3, <3>5, <4>2
    <3> QED BY <3>4, <3>5
  <2> HIDE DEF r
  <2>5. GraphOf(r, l)
    BY <2>3, <2>4 DEF GraphOf, BySearch
  <2> QED BY <2>5 DEF r
<1>4. CASE ~l.flagged
  <2>1. p = newGraph(l)
    BY <1>4 DEF parsePoetryLock
  <2>2. p \in Graph /\ p.edges = Selfless(l.edges) /\ ~p.devFlags /\ ~p.devSplit
    BY <2>1, NewGraph
  <2>3. GraphOf(p, l)
    BY <2>2, SilentGraph
  <2>4. /\ h \in Graph /\ h.edges = Selfless(l.edges) /\ ~h.devFlags
        /\ h.root = readRuntime(l) /\ h.rootDev = readDevOnly(l)
    BY <1>2, <2>2
  <2> HIDE DEF h
  <2> DEFINE N == Needs(l) \cap readRuntime(l)
             U == l.dev \ (readDevOnly(l) \ l.hyphened)
  <2>5. ~Misread(l) /\ Wanted \in Runtime(l) => Wanted \in Reachable(l.edges, N)
    BY <1>4 DEF Misread
  <2>6. ~Unseen(l) => Wanted \notin Reachable(l.edges, U)
    BY <1>4 DEF Unseen
  <2>7. GraphOf(h, l)
    <3>1. N \subseteq h.root
      BY <2>4
    <3>2. /\ U \in SUBSET Package /\ h.root \subseteq Needs(l) \cup U
          /\ l.dev \subseteq (Needs(l) \cup h.rootDev) \cup U
      BY <2>4, Parts DEF readRuntime, readDevOnly, Needs
    <3> HIDE DEF N, U
    <3> QED BY <2>4, <2>5, <2>6, <3>1, <3>2, SplitGraph
  <2> QED BY <1>1, <2>3, <2>7
<1> QED BY <1>3, <1>4, Parts

LEMMA GemGraph ==
  ASSUME NEW l \in LockFile, Resolved(l), l.format = "gem"
  PROVE  GraphOf(gemfileGroups(parseGemfileLock(l), l), l)
<1> DEFINE g == parseGemfileLock(l)
           D == readDevOnly(l)
           h == [g EXCEPT !.root = @ \ D, !.rootDev = g.root \cap D, !.devSplit = TRUE]
           k == gemfileGroups(g, l)
<1>1. l.runtime \subseteq Package /\ l.dev \subseteq Package /\ Needs(l) = l.runtime
  BY Parts, Formats
<1>2. /\ g \in Graph /\ g.edges = Selfless(l.edges)
      /\ g.root = l.runtime \cup l.dev /\ ~g.devSplit /\ ~g.devFlags
  BY <1>1, NewGraph DEF parseGemfileLock, newGraph, Graph
<1>3. k = IF l.sibling THEN h ELSE g
  BY DEF gemfileGroups
<1> HIDE DEF g, k, D
<1>4. GraphOf(g, l)
  BY <1>2, SilentGraph
<1>5. /\ h \in Graph /\ h.edges = Selfless(l.edges)
      /\ ~h.devFlags /\ h.root = g.root \ D /\ h.rootDev = g.root \cap D
  BY <1>1, <1>2 DEF Graph
<1> HIDE DEF h
<1> DEFINE N == Needs(l) \ (D \cup l.hyphened)
           U == l.dev \ (D \ l.hyphened)
<1>6. ~Misread(l) /\ Wanted \in Runtime(l) => Wanted \in Reachable(l.edges, N)
  BY DEF D, Misread
<1>7. ~Unseen(l) => Wanted \notin Reachable(l.edges, U)
  BY DEF D, Unseen
<1>8. GraphOf(h, l)
  <2>1. N \subseteq h.root
    BY <1>1, <1>2, <1>5
  <2>2. /\ U \in SUBSET Package /\ h.root \subseteq Needs(l) \cup U
        /\ l.dev \subseteq (Needs(l) \cup h.rootDev) \cup U
    BY <1>1, <1>2, <1>5
  <2> HIDE DEF N, U
  <2> QED BY <1>5, <1>6, <1>7, <2>1, <2>2, SplitGraph
<1>9. GraphOf(k, l)
  BY <1>3, <1>4, <1>8, Parts
<1> QED BY <1>9 DEF g, k

LEMMA UvGraph ==
  ASSUME NEW l \in LockFile, Resolved(l), l.format = "uv"
  PROVE  GraphOf(parseUvLock(l), l)
<1> DEFINE h == parseUvLock(l)
<1>1. Rooted(h, newGraph(l), MainNeeds(l), l.dev \cup l.grouped)
  BY NewGraph, Parts, WithRoots DEF parseUvLock
<1>2. /\ h \in Graph /\ h.edges = Selfless(l.edges) /\ ~h.devFlags
      /\ h.root = MainNeeds(l) /\ l.dev \ Needs(l) \subseteq h.rootDev
  BY <1>1, NewGraph, Parts DEF Rooted
<1> HIDE DEF h
<1>3. GraphOf(h, l)
  BY <1>2, ExactGraph, Parts
<1> QED BY <1>3 DEF h

LEMMA PipfileGraph ==
  ASSUME NEW l \in LockFile, Resolved(l), l.format = "pipfile"
  PROVE  GraphOf(pipfileRoot(parsePipfileLock(l), l), l)
<1> DEFINE p == withFlags(flatGraph(l), l)
           q == withRoots(p, l.runtime, l.dev)
<1>1. pipfileRoot(parsePipfileLock(l), l) = IF l.sibling THEN q ELSE p
  BY DEF pipfileRoot, parsePipfileLock
<1>2. p \in Graph /\ p.devFlags /\ p.devOnly = {x \in l.present : l.flags[x] = {TRUE}}
  BY NewGraph, WithFlags DEF Flagged
<1> HIDE DEF p
<1>3. Rooted(q, p, l.runtime, l.dev)
  BY <1>2, WithRoots, Parts
<1> HIDE DEF q
<1>4. GraphOf(p, l) /\ GraphOf(q, l)
  BY <1>2, <1>3, FlaggedGraph DEF Rooted
<1> QED BY <1>1, <1>4, Parts

LEMMA GradleGraph ==
  ASSUME NEW l \in LockFile, Resolved(l), l.format = "gradle"
  PROVE  GraphOf(parseGradleLockfile(l), l)
<1> DEFINE p == withFlags(flatGraph(l), l)
<1>1. p \in Graph /\ p.devFlags /\ p.devOnly = {x \in l.present : l.flags[x] = {TRUE}}
  BY NewGraph, WithFlags DEF Flagged
<1> HIDE DEF p
<1>2. GraphOf(p, l) /\ GraphOf(flatGraph(l), l)
  BY <1>1, NewGraph, FlaggedGraph, SilentGraph
<1> QED BY <1>2, Parts DEF parseGradleLockfile, p

LEMMA PubspecGraph ==
  ASSUME NEW l \in LockFile, Resolved(l)
  PROVE  GraphOf(parsePubspecLock(l), l)
<1> DEFINE f == flatGraph(l)
           s == [f EXCEPT !.root = l.runtime, !.rootDev = l.dev \ l.runtime, !.rootKnown = TRUE]
<1>1. f \in Graph /\ ~f.hasEdges /\ ~f.devFlags /\ l.runtime \subseteq Package /\ l.dev \subseteq Package
  BY NewGraph, Parts
<1>2. parsePubspecLock(l) = s
  BY DEF parsePubspecLock
<1> HIDE DEF f
<1>3. s \in Graph /\ ~s.hasEdges /\ ~s.devFlags
  BY <1>1 DEF Graph
<1> HIDE DEF s
<1> QED BY <1>2, <1>3, SilentGraph

LEMMA ComposerGraph ==
  ASSUME NEW l \in LockFile, Resolved(l), l.format = "composer"
  PROVE  GraphOf(composerRootFromManifest(parseComposerLock(l), l), l)
<1> DEFINE g == withFlags(newGraph(l), l)
           h == withRoots(g, l.runtime, l.dev)
<1>1. composerRootFromManifest(parseComposerLock(l), l) = IF l.sibling THEN h ELSE g
  BY DEF composerRootFromManifest, parseComposerLock
<1>2. g \in Graph /\ g.devFlags /\ g.devOnly = {x \in l.present : l.flags[x] = {TRUE}}
  BY NewGraph, WithFlags DEF Flagged
<1> HIDE DEF g
<1>3. Rooted(h, g, l.runtime, l.dev)
  BY <1>2, WithRoots, Parts
<1> HIDE DEF h
<1>4. GraphOf(g, l) /\ GraphOf(h, l)
  BY <1>2, <1>3, FlaggedGraph DEF Rooted
<1> QED BY <1>1, <1>4, Parts

LEMMA NugetGraph ==
  ASSUME NEW l \in LockFile, Resolved(l)
  PROVE  GraphOf(parseNugetLock(l), l)
<1> DEFINE g == parseNugetLock(l)
<1>1. Needs(l) \cup l.dev \in SUBSET Package
  BY Parts
<1>2. g \in Graph /\ ~g.devSplit /\ ~g.devFlags
  BY <1>1, NewGraph DEF parseNugetLock, Graph
<1> QED BY <1>2, SilentGraph

\* Whatever the format, the graph a loader returns recovers what it should:
\* its edges and roots where it answers by search, the flags where by flags.
LEMMA LoaderGraph ==
  ASSUME NEW l \in LockFile, Resolved(l), NEW g \in loadGraph(l)
  PROVE  GraphOf(g, l)
<1>1. l.format \in Format
  BY DEF LockFile
<1>2. CASE l.format \in {"npm", "npm1"}
  BY <1>2, NpmGraph DEF loadGraph
<1>3. CASE l.format = "yarn"
  BY <1>3, YarnGraph DEF loadGraph
<1>4. CASE l.format = "pnpm"
  BY <1>4, PnpmGraph DEF loadGraph
<1>5. CASE l.format = "cargo"
  BY <1>5, CargoGraph DEF loadGraph
<1>6. CASE l.format = "poetry"
  <2>1. loadGraph(l) = {pyRootFromManifest(p, l) : p \in parsePoetryLock(l)}
    BY <1>6 DEF loadGraph
  <2> QED BY <1>6, <2>1, PoetryGraph
<1>7. CASE l.format = "uv"
  BY <1>7, UvGraph DEF loadGraph
<1>8. CASE l.format = "pipfile"
  BY <1>8, PipfileGraph DEF loadGraph
<1>9. CASE l.format = "gem"
  BY <1>9, GemGraph DEF loadGraph
<1>10. CASE l.format = "composer"
  BY <1>10, ComposerGraph DEF loadGraph
<1>11. CASE l.format = "nuget"
  BY <1>11, NugetGraph DEF loadGraph
<1>12. CASE l.format = "pubspec"
  BY <1>12, PubspecGraph DEF loadGraph
<1>13. CASE l.format = "gradle"
  BY <1>13, GradleGraph DEF loadGraph
<1>14. CASE l.format = "unreadable"
  BY <1>14 DEF loadGraph
<1> QED
  BY <1>1, <1>2, <1>3, <1>4, <1>5, <1>6, <1>7, <1>8, <1>9, <1>10, <1>11, <1>12, <1>13, <1>14
  DEF Format

-----------------------------------------------------------------------------
(* Queues.                                                                 *)

LEMMA HeadTail ==
  ASSUME NEW q \in Seq(Package), q # << >>
  PROVE  /\ Head(q) \in Package /\ Tail(q) \in Seq(Package)
         /\ Elems(q) = {Head(q)} \cup Elems(Tail(q))
<1>1. /\ Head(q) \in Package /\ Tail(q) \in Seq(Package)
      /\ Len(q) \in Nat \ {0} /\ Len(Tail(q)) = Len(q) - 1
      /\ Head(q) = q[1] /\ \A i \in 1 .. Len(q) - 1 : Tail(q)[i] = q[i + 1]
  OBVIOUS
<1>2. DOMAIN q = 1 .. Len(q) /\ DOMAIN Tail(q) = 1 .. Len(q) - 1
  BY <1>1
<1>3. \A i \in 1 .. Len(q) : i = 1 \/ (i - 1 \in 1 .. Len(q) - 1 /\ q[i] = Tail(q)[i - 1])
  BY <1>1
<1>4. 1 \in 1 .. Len(q) /\ \A i \in 1 .. Len(q) - 1 : i + 1 \in 1 .. Len(q)
  BY <1>1
<1>5. ASSUME NEW x \in Elems(q)
      PROVE  x \in {Head(q)} \cup Elems(Tail(q))
  <2>1. PICK i \in 1 .. Len(q) : x = q[i]
    BY <1>2 DEF Elems
  <2>2. CASE i = 1
    BY <1>1, <2>1, <2>2
  <2>3. CASE i - 1 \in 1 .. Len(q) - 1 /\ q[i] = Tail(q)[i - 1]
    BY <1>2, <2>1, <2>3 DEF Elems
  <2> QED BY <1>3, <2>2, <2>3
<1>6. ASSUME NEW x \in {Head(q)} \cup Elems(Tail(q))
      PROVE  x \in Elems(q)
  <2>1. CASE x = Head(q)
    BY <1>1, <1>2, <1>4, <2>1 DEF Elems
  <2>2. CASE x \in Elems(Tail(q))
    <3>1. PICK i \in 1 .. Len(q) - 1 : x = Tail(q)[i]
      BY <1>2, <2>2 DEF Elems
    <3>2. x = q[i + 1] /\ i + 1 \in DOMAIN q
      BY <1>1, <1>2, <1>4, <3>1
    <3> QED BY <3>2 DEF Elems
  <2> QED BY <2>1, <2>2
<1> QED BY <1>1, <1>5, <1>6

LEMMA Concat ==
  ASSUME NEW q \in Seq(Package), NEW r \in Seq(Package)
  PROVE  q \o r \in Seq(Package) /\ Elems(q \o r) = Elems(q) \cup Elems(r)
<1>1. /\ q \o r \in Seq(Package) /\ Len(q) \in Nat /\ Len(r) \in Nat
      /\ Len(q \o r) = Len(q) + Len(r)
      /\ \A i \in 1 .. Len(q) : (q \o r)[i] = q[i]
      /\ \A i \in 1 .. Len(r) : (q \o r)[Len(q) + i] = r[i]
  OBVIOUS
<1>2. /\ Elems(q) = {q[i] : i \in 1 .. Len(q)} /\ Elems(r) = {r[i] : i \in 1 .. Len(r)}
      /\ Elems(q \o r) = {(q \o r)[i] : i \in 1 .. Len(q) + Len(r)}
  BY <1>1 DEF Elems
<1>3. \A i \in 1 .. Len(q) + Len(r) :
        i \in 1 .. Len(q) \/ (i - Len(q) \in 1 .. Len(r) /\ i = Len(q) + (i - Len(q)))
  BY <1>1
<1>4. \A i \in 1 .. Len(q) : i \in 1 .. Len(q) + Len(r)
  BY <1>1
<1>5. \A i \in 1 .. Len(r) : Len(q) + i \in 1 .. Len(q) + Len(r)
  BY <1>1
<1>6. Elems(q \o r) \subseteq Elems(q) \cup Elems(r)
  BY <1>1, <1>2, <1>3
<1>7. Elems(q) \cup Elems(r) \subseteq Elems(q \o r)
  BY <1>1, <1>2, <1>4, <1>5
<1> QED BY <1>1, <1>6, <1>7

LEMMA OrdersOf ==
  ASSUME NEW S \in SUBSET Package, NEW q \in Orders(S)
  PROVE  q \in Seq(Package) /\ Elems(q) = S
<1>1. Cardinality(S) \in Nat
  BY FS_Subset, FS_CardinalityType
<1>2. q \in [1 .. Cardinality(S) -> S] /\ \A x \in S : \E i \in DOMAIN q : q[i] = x
  BY DEF Orders
<1>3. q \in Seq(Package)
  BY <1>1, <1>2
<1> QED BY <1>2, <1>3 DEF Elems

LEMMA ListsOf ==
  ASSUME NEW S \in SUBSET Package, NEW T, NEW q \in Lists(S, T)
  PROVE  /\ q \in Seq(Package) /\ Elems(q) = S
         /\ \A i, j \in 1 .. Len(q) : q[i] = q[j] => i = j \/ q[i] \in T
<1>1. Cardinality(S) \in Nat
  BY FS_Subset, FS_CardinalityType
<1>2. PICK n \in Cardinality(S) .. Cardinality(S) + Repeats * Cardinality(S \cap T) : q \in [1 .. n -> S]
  BY DEF Lists
<1>3. n \in Nat
  <2>1. Cardinality(S \cap T) \in Nat /\ Repeats \in Nat
    BY FS_Subset, FS_CardinalityType, LimitAssumption
  <2> QED BY <1>1, <2>1
<1>4. q \in Seq(Package) /\ DOMAIN q = 1 .. Len(q)
  BY <1>2, <1>3
<1>5. Elems(q) = S /\ \A i, j \in DOMAIN q : q[i] = q[j] => i = j \/ q[i] \in T
  BY DEF Lists
<1> QED BY <1>4, <1>5

\* A search that looked at Limit packages of a set without the wanted one has
\* found the set to be larger.
LEMMA TooMany ==
  ASSUME NEW R \in SUBSET Package, NEW S \in SUBSET R, Wanted \in R \ S,
         ~(Cardinality(S) < Limit)
  PROVE  Cardinality(R) > Limit
<1>1. IsFiniteSet(R) /\ IsFiniteSet(S)
  BY FS_Subset
<1>2. IsFiniteSet(S \cup {Wanted}) /\ Cardinality(S \cup {Wanted}) = Cardinality(S) + 1
  BY <1>1, FS_AddElement
<1>3. S \cup {Wanted} \subseteq R
  OBVIOUS
<1>4. Cardinality(S \cup {Wanted}) <= Cardinality(R)
  BY <1>1, <1>3, FS_Subset
<1>5. Cardinality(S) \in Nat /\ Cardinality(R) \in Nat /\ Limit \in Nat
  BY <1>1, FS_CardinalityType, LimitAssumption
<1> QED BY <1>2, <1>4, <1>5

-----------------------------------------------------------------------------
(* The invariant.                                                          *)

\* Every lockfile is a resolved one, and the graph in hand is the lockfile's.
ScanInv ==
  /\ locks \in Seq(LockFile) /\ \A i \in 1 .. Len(locks) : Resolved(locks[i])
  /\ lock # NoLock => lock \in LockFile /\ Resolved(lock) /\ GraphOf(graph, lock)
  /\ lock = NoLock => graph = NoLock
  /\ pc = "scan" => devOnly = "unknown"
  /\ devOnly # "unknown" => lock # NoLock

From == IF pc = "runtime" THEN graph.root ELSE graph.rootDev

RuntimeRoots == Reachable(graph.edges, graph.root)

Missed(S) == Wanted \notin S \/ Cardinality(S) > Limit

\* Expanded packages and the queue together hold the starts and everything an
\* expanded package depends on, and nothing but what the starts reach; the
\* wanted package was not expanded, and the first search missed it.
SearchInv ==
  Searching =>
    /\ lock # NoLock /\ Wanted \in lock.present /\ BySearch(graph)
    /\ devOnly = "unknown"
    /\ queue \in Seq(Package) /\ seen \subseteq Package
    /\ From \subseteq seen \cup Elems(queue)
    /\ \A x \in seen : graph.edges[x] \subseteq seen \cup Elems(queue)
    /\ seen \cup Elems(queue) \subseteq Reachable(graph.edges, From)
    /\ Wanted \notin seen
    /\ pc = "dev" => Missed(RuntimeRoots)

GraphInv == ScanInv /\ SearchInv /\ RuntimeIsNeverDevOnly /\ DevOnlyIsFound

LEMMA GraphTypes ==
  ASSUME NEW l, NEW g, GraphOf(g, l)
  PROVE  /\ g.edges \in [Package -> SUBSET Package]
         /\ g.root \in SUBSET Package /\ g.rootDev \in SUBSET Package
         /\ g.repeated \in SUBSET Package
BY DEF GraphOf, Graph

\* What the closures of a graph that answers by search have to do with those
\* of its lockfile, if that has the wanted package.
LEMMA Closures ==
  ASSUME NEW l \in LockFile, Resolved(l), NEW g, GraphOf(g, l), BySearch(g), Wanted \in l.present
  PROVE  /\ ~Misread(l) /\ InRuntime(l) => Wanted \in Reachable(g.edges, g.root)
         /\ ~Unseen(l) /\ Wanted \in Reachable(g.edges, g.root) => InRuntime(l)
         /\ ~Unseen(l) /\ ~InRuntime(l) => Wanted \in Reachable(g.edges, g.rootDev)
<1>1. Recovers(g, l) /\ g.root \in SUBSET Package /\ g.rootDev \in SUBSET Package
  BY GraphTypes DEF GraphOf
<1>2. (Misread(l) /\ Unseen(l)) \/ ~Aliased(l)
  BY DEF Misread, Unseen
<1>3. CASE Misread(l) /\ Unseen(l)
  BY <1>3
<1>4. CASE ~Aliased(l)
  <2>1. /\ InRuntime(l) <=> Wanted \in Runtime(l)
        /\ l.present = Reachable(l.edges, Needs(l) \cup l.dev)
    BY <1>1, <1>4, OneName DEF Recovers
  <2>2. /\ Reachable(g.edges, g.root) = Reachable(l.edges, g.root)
        /\ Reachable(g.edges, g.rootDev) = Reachable(l.edges, g.rootDev)
    <3>1. g.edges = Selfless(l.edges) /\ l.edges \in [Package -> SUBSET Package]
      BY <1>1, <1>4, Parts DEF Recovers
    <3> QED BY <1>1, <3>1, ReachableSelfless
  <2>3. ~Misread(l) /\ InRuntime(l) => Wanted \in Reachable(g.edges, g.root)
    BY <1>1, <2>1, <2>2 DEF Recovers
  <2>4. ~Unseen(l) /\ Wanted \in Reachable(g.edges, g.root) => InRuntime(l)
    BY <1>1, <2>1, <2>2 DEF Recovers
  <2>5. ~Unseen(l) /\ ~InRuntime(l) => Wanted \in Reachable(l.edges, g.rootDev)
    <3> SUFFICES ASSUME ~Unseen(l), ~InRuntime(l) PROVE Wanted \in Reachable(l.edges, g.rootDev)
      OBVIOUS
    <3>1. Wanted \in Runtime(l) \cup Reachable(l.edges, l.dev)
      <4>1. /\ l.edges \in [Package -> SUBSET Package]
            /\ Needs(l) \in SUBSET Package /\ l.dev \in SUBSET Package
        BY Parts
      <4>2. Reachable(l.edges, Needs(l) \cup l.dev) \subseteq Runtime(l) \cup Reachable(l.edges, l.dev)
        BY <4>1, ReachableUnion DEF Runtime
      <4> QED BY <2>1, <4>2
    <3> QED BY <1>1, <2>1, <3>1 DEF Recovers
  <2> QED BY <2>1, <2>2, <2>3, <2>4, <2>5
<1> QED BY <1>2, <1>3, <1>4

\* A search that ends without the wanted package has missed it.
LEMMA EndedMissed ==
  ASSUME ScanInv, SearchInv, Searching, ~Gives
  PROVE  Missed(Reachable(graph.edges, From))
<1> DEFINE R == Reachable(graph.edges, From)
<1>1. /\ lock \in LockFile /\ Resolved(lock) /\ GraphOf(graph, lock) /\ BySearch(graph)
  BY DEF ScanInv, SearchInv
<1>2. graph.edges \in [Package -> SUBSET Package] /\ From \in SUBSET Package
  BY <1>1, GraphTypes DEF From
<1>3. R \in SUBSET Package
  BY <1>2, ReachableStarts
<1>4. CASE queue = << >>
  <2>1. Elems(queue) = {}
    BY <1>4 DEF Elems
  <2>2. seen \in SUBSET Package /\ From \subseteq seen /\ Closed(graph.edges, seen) /\ Wanted \notin seen
    BY <2>1 DEF SearchInv, Closed
  <2>3. R \subseteq seen
    BY <1>2, <2>2, ReachableLeast
  <2> QED BY <2>2, <2>3 DEF Missed
<1>5. CASE ~(Cardinality(seen) < Limit)
  <2>1. seen \in SUBSET R /\ Wanted \notin seen
    BY DEF SearchInv
  <2> QED BY <1>3, <1>5, <2>1, TooMany DEF Missed
<1> QED BY <1>4, <1>5 DEF Gives

-----------------------------------------------------------------------------
(* The steps.                                                              *)

LEMMA InitInv == Init => GraphInv
<1> SUFFICES ASSUME Init PROVE GraphInv
  OBVIOUS
<1>1. locks \in Seq(LockFile) /\ \A i \in 1 .. Len(locks) : Resolved(locks[i])
  BY CheckoutAssumption DEF Init
<1>2. ScanInv
  BY <1>1 DEF Init, ScanInv
<1> QED BY <1>2 DEF Init, GraphInv, SearchInv, Searching, RuntimeIsNeverDevOnly, DevOnlyIsFound

LEMMA ReadInv == GraphInv /\ Read => GraphInv'
<1> SUFFICES ASSUME GraphInv, Read PROVE GraphInv'
  OBVIOUS
<1> DEFINE l == Head(locks)
<1>1. /\ pc = "scan" /\ pc' = pc /\ devOnly' = devOnly /\ devOnly = "unknown"
      /\ locks # << >> /\ locks' = Tail(locks)
      /\ locks \in Seq(LockFile) /\ \A i \in 1 .. Len(locks) : Resolved(locks[i])
  BY DEF Read, GraphInv, ScanInv
<1>2. l \in LockFile /\ Resolved(l)
  BY <1>1
<1>3. locks' \in Seq(LockFile) /\ \A i \in 1 .. Len(locks') : Resolved(locks'[i])
  <2>1. /\ Tail(locks) \in Seq(LockFile) /\ Len(Tail(locks)) = Len(locks) - 1
        /\ Len(locks) \in Nat
        /\ \A i \in 1 .. Len(locks) - 1 : Tail(locks)[i] = locks[i + 1] /\ i + 1 \in 1 .. Len(locks)
    BY <1>1
  <2> QED BY <1>1, <2>1
<1>4. \/ lock' = l /\ graph' \in loadGraph(l)
      \/ lock' = lock /\ graph' = graph
  BY DEF Read
<1>5. /\ lock' # NoLock => lock' \in LockFile /\ Resolved(lock') /\ GraphOf(graph', lock')
      /\ lock' = NoLock => graph' = NoLock
  BY <1>2, <1>4, LoaderGraph, NoLockAssumption DEF GraphInv, ScanInv
<1>6. ScanInv'
  BY <1>1, <1>3, <1>5 DEF ScanInv
<1> QED BY <1>1, <1>6 DEF GraphInv, SearchInv, Searching, RuntimeIsNeverDevOnly, DevOnlyIsFound

\* The start of a search.
LEMMA SearchStartsFrom ==
  ASSUME GraphInv, UNCHANGED <<checkout, locks, lock, graph>>, UNCHANGED devOnly,
         lock # NoLock, Wanted \in lock.present, BySearch(graph), devOnly = "unknown",
         NEW stage \in {"runtime", "dev"}, NEW S, Search(stage, S),
         S = IF stage = "runtime" THEN graph.root ELSE graph.rootDev,
         stage = "dev" => Missed(RuntimeRoots)
  PROVE  GraphInv'
<1>1. /\ lock \in LockFile /\ Resolved(lock) /\ GraphOf(graph, lock)
  BY DEF GraphInv, ScanInv
<1>2. /\ graph.edges \in [Package -> SUBSET Package] /\ S \in SUBSET Package
  BY <1>1, GraphTypes
<1>3. pc' = stage /\ seen' = {} /\ queue' \in Lists(S, graph.repeated)
  BY DEF Search
<1>4. queue' \in Seq(Package) /\ Elems(queue') = S
  BY <1>2, <1>3, ListsOf
<1>5. From' = S
  BY <1>3 DEF From
<1>6. S \subseteq Reachable(graph.edges, S)
  BY <1>2, ReachableStarts
<1>7. RuntimeRoots' = RuntimeRoots /\ (Missed(RuntimeRoots))' = Missed(RuntimeRoots)
  BY DEF RuntimeRoots, Missed
<1>8. Elems(queue)' = S
  BY <1>4 DEF Elems
<1>9. SearchInv'
  <2>1. seen' \subseteq Package /\ Wanted \notin seen' /\ BySearch(graph)'
    BY <1>3 DEF BySearch
  <2>2. /\ From' \subseteq seen' \cup Elems(queue)'
        /\ \A x \in seen' : graph.edges[x] \subseteq seen' \cup Elems(queue)'
    BY <1>3, <1>5, <1>8
  <2>3. seen' \cup Elems(queue)' \subseteq Reachable(graph.edges, From)'
    BY <1>3, <1>5, <1>6, <1>8 DEF Reachable, Closed
  <2>4. pc' = "dev" => (Missed(RuntimeRoots))'
    BY <1>3, <1>7
  <2> QED BY <1>3, <1>4, <2>1, <2>2, <2>3, <2>4 DEF SearchInv, Searching
<1>10. ScanInv'
  BY <1>3 DEF GraphInv, ScanInv
<1>11. RuntimeIsNeverDevOnly' /\ DevOnlyIsFound'
  BY DEF RuntimeIsNeverDevOnly, DevOnlyIsFound
<1> QED BY <1>9, <1>10, <1>11 DEF GraphInv

LEMMA SearchStarts ==
  ASSUME GraphInv, UNCHANGED <<checkout, locks, lock, graph>>, UNCHANGED devOnly,
         lock # NoLock, Wanted \in lock.present, BySearch(graph), devOnly = "unknown",
         \/ Search("runtime", graph.root)
         \/ Search("dev", graph.rootDev) /\ Missed(RuntimeRoots)
  PROVE  GraphInv'
<1>1. CASE Search("runtime", graph.root)
  BY <1>1, SearchStartsFrom
<1>2. CASE Search("dev", graph.rootDev) /\ Missed(RuntimeRoots)
  BY <1>2, SearchStartsFrom
<1> QED BY <1>1, <1>2

\* The end of one, or an answer without.
LEMMA Concluding ==
  ASSUME GraphInv, UNCHANGED <<checkout, locks, lock, graph>>, NEW v, Conclude(v),
         v = "unknown" \/ lock # NoLock,
         v = "dev" => ~InRuntime(lock) \/ Misread(lock) \/ GaveUp(graph.root),
         v = "runtime" => InRuntime(lock) \/ Unseen(lock) \/ GaveUp(graph.rootDev)
  PROVE  GraphInv'
<1>1. devOnly' = v /\ pc' = "ask"
  BY DEF Conclude
<1>2. ScanInv'
  BY <1>1 DEF GraphInv, ScanInv
<1>3. SearchInv'
  BY <1>1 DEF SearchInv, Searching
<1>4. RuntimeIsNeverDevOnly' /\ DevOnlyIsFound'
  BY <1>1 DEF RuntimeIsNeverDevOnly, DevOnlyIsFound, GaveUp
<1> QED BY <1>2, <1>3, <1>4 DEF GraphInv

LEMMA DevOnlyInv == GraphInv /\ DevOnly => GraphInv'
<1> SUFFICES ASSUME GraphInv, DevOnly PROVE GraphInv'
  OBVIOUS
<1>1. UNCHANGED <<checkout, locks, lock, graph>> /\ devOnly = "unknown"
  BY DEF DevOnly, scanVars, GraphInv, ScanInv
<1>2. lock # NoLock => lock \in LockFile /\ Resolved(lock) /\ GraphOf(graph, lock)
  BY DEF GraphInv, ScanInv
<1>3. CASE has /\ graph.devFlags
  <2>1. Conclude(IF Wanted \in graph.devOnly THEN "dev" ELSE "runtime")
    BY <1>3 DEF DevOnly
  <2>2. /\ Wanted \in graph.devOnly => ~InRuntime(lock) \/ Misread(lock)
        /\ Wanted \notin graph.devOnly => InRuntime(lock) \/ Unseen(lock)
    BY <1>2, <1>3 DEF has, GraphOf
  <2>3. CASE Wanted \in graph.devOnly
    BY <1>1, <1>3, <2>1, <2>2, <2>3, Concluding DEF has
  <2>4. CASE Wanted \notin graph.devOnly
    BY <1>1, <1>3, <2>1, <2>2, <2>4, Concluding DEF has
  <2> QED BY <2>3, <2>4
<1>4. CASE ~(has /\ graph.devFlags) /\ has /\ graph.hasEdges /\ graph.rootKnown /\ graph.devSplit
  <2>1. Search("runtime", graph.root) /\ UNCHANGED devOnly
    BY <1>4 DEF DevOnly
  <2> QED BY <1>1, <1>4, <2>1, SearchStarts DEF has, BySearch
<1>5. CASE ~(has /\ graph.devFlags) /\ ~(has /\ graph.hasEdges /\ graph.rootKnown /\ graph.devSplit)
  <2>1. Conclude("unknown")
    BY <1>5 DEF DevOnly
  <2> QED BY <1>1, <2>1, Concluding
<1> QED BY <1>3, <1>4, <1>5

LEMMA ExpandInv == GraphInv /\ Expand => GraphInv'
<1> SUFFICES ASSUME GraphInv, Expand PROVE GraphInv'
  OBVIOUS
<1> DEFINE h == Head(queue)
           t == Tail(queue)
<1>1. /\ Searching /\ queue # << >> /\ h # Wanted
      /\ UNCHANGED <<checkout, locks, lock, graph, pc, devOnly>>
  BY DEF Expand, Gives, scanVars
<1>2. SearchInv /\ ScanInv
  BY DEF GraphInv
<1>3. /\ lock \in LockFile /\ Resolved(lock) /\ GraphOf(graph, lock) /\ BySearch(graph)
      /\ queue \in Seq(Package) /\ seen \subseteq Package
  BY <1>1, <1>2 DEF ScanInv, SearchInv
<1>4. /\ graph.edges \in [Package -> SUBSET Package]
      /\ graph.root \in SUBSET Package /\ graph.rootDev \in SUBSET Package
  BY <1>3, GraphTypes
<1>5. h \in Package /\ t \in Seq(Package) /\ Elems(queue) = {h} \cup Elems(t)
  BY <1>1, <1>3, HeadTail
<1>6. /\ queue' \in Seq(Package) /\ seen' \subseteq Package /\ Wanted \notin seen'
      /\ From \subseteq seen' \cup Elems(queue')
      /\ \A x \in seen' : graph.edges[x] \subseteq seen' \cup Elems(queue')
      /\ seen' \cup Elems(queue') \subseteq Reachable(graph.edges, From)
  <2>1. /\ From \subseteq seen \cup Elems(queue) /\ Wanted \notin seen
        /\ \A x \in seen : graph.edges[x] \subseteq seen \cup Elems(queue)
        /\ seen \cup Elems(queue) \subseteq Reachable(graph.edges, From)
    BY <1>1, <1>2 DEF SearchInv
  <2>2. CASE h \in seen
    <3>1. queue' = t /\ seen' = seen
      BY <2>2 DEF Expand
    <3> QED BY <1>3, <1>5, <2>1, <2>2, <3>1
  <2>3. CASE h \notin seen
    <3>1. seen' = seen \cup {h} /\ \E q \in Orders(graph.edges[h]) : queue' = t \o q
      BY <2>3 DEF Expand
    <3>2. PICK q \in Orders(graph.edges[h]) : queue' = t \o q
      BY <3>1
    <3>3. q \in Seq(Package) /\ Elems(q) = graph.edges[h]
      BY <1>4, <1>5, OrdersOf
    <3>4. queue' \in Seq(Package) /\ Elems(queue') = Elems(t) \cup graph.edges[h]
      BY <1>5, <3>2, <3>3, Concat
    <3>5. graph.edges[h] \subseteq Reachable(graph.edges, From)
      BY <1>4, <1>5, <2>1, ReachableClosed DEF Closed
    <3> QED BY <1>1, <1>3, <1>5, <2>1, <3>1, <3>4, <3>5
  <2> QED BY <2>2, <2>3
<1>7. SearchInv'
  BY <1>1, <1>2, <1>6 DEF SearchInv, Searching, From, BySearch, RuntimeRoots, Missed
<1>8. ScanInv'
  BY <1>1, <1>2 DEF ScanInv
<1>9. RuntimeIsNeverDevOnly' /\ DevOnlyIsFound'
  BY <1>1 DEF GraphInv, RuntimeIsNeverDevOnly, DevOnlyIsFound, GaveUp
<1> QED BY <1>7, <1>8, <1>9 DEF GraphInv

LEMMA FoundInv == GraphInv /\ Found => GraphInv'
<1> SUFFICES ASSUME GraphInv, Found PROVE GraphInv'
  OBVIOUS
<1>1. /\ Searching /\ queue # << >> /\ Head(queue) = Wanted
      /\ UNCHANGED <<checkout, locks, lock, graph>>
  BY DEF Found, Gives, scanVars
<1>2. /\ lock # NoLock /\ lock \in LockFile /\ Resolved(lock) /\ GraphOf(graph, lock) /\ BySearch(graph)
      /\ Wanted \in lock.present
      /\ queue \in Seq(Package) /\ Elems(queue) \subseteq Reachable(graph.edges, From)
      /\ pc = "dev" => Missed(RuntimeRoots)
  BY <1>1 DEF GraphInv, ScanInv, SearchInv
<1>3. Wanted \in Reachable(graph.edges, From)
  BY <1>1, <1>2, HeadTail
<1>4. CASE pc = "runtime"
  <2>1. Conclude("runtime")
    BY <1>4 DEF Found
  <2>2. InRuntime(lock) \/ Unseen(lock)
    BY <1>2, <1>3, <1>4, Closures DEF From
  <2> QED BY <1>1, <1>2, <2>1, <2>2, Concluding
<1>5. CASE pc = "dev"
  <2>1. Conclude("dev")
    BY <1>5 DEF Found
  <2>2. ~InRuntime(lock) \/ Misread(lock) \/ GaveUp(graph.root)
    <3>1. InRuntime(lock) /\ ~Misread(lock) => Wanted \in RuntimeRoots
      BY <1>2, Closures DEF RuntimeRoots
    <3>2. Wanted \in RuntimeRoots => GaveUp(graph.root)
      BY <1>2, <1>5 DEF Missed, RuntimeRoots, GaveUp, BySearch
    <3> QED BY <3>1, <3>2
  <2> QED BY <1>1, <1>2, <2>1, <2>2, Concluding
<1> QED BY <1>1, <1>4, <1>5 DEF Searching

LEMMA NotFoundInv == GraphInv /\ NotFound => GraphInv'
<1> SUFFICES ASSUME GraphInv, NotFound PROVE GraphInv'
  OBVIOUS
<1>1. /\ Searching /\ ~Gives
      /\ UNCHANGED <<checkout, locks, lock, graph>>
  BY DEF NotFound, scanVars
<1>2. /\ lock # NoLock /\ lock \in LockFile /\ Resolved(lock) /\ GraphOf(graph, lock) /\ BySearch(graph)
      /\ Wanted \in lock.present /\ devOnly = "unknown"
      /\ pc = "dev" => Missed(RuntimeRoots)
  BY <1>1 DEF GraphInv, ScanInv, SearchInv
<1>3. Missed(Reachable(graph.edges, From))
  BY <1>1, EndedMissed DEF GraphInv
<1>4. CASE pc = "runtime"
  <2>1. Search("dev", graph.rootDev) /\ UNCHANGED devOnly
    BY <1>4 DEF NotFound
  <2>2. Missed(RuntimeRoots)
    BY <1>3, <1>4 DEF From, RuntimeRoots
  <2> QED BY <1>1, <1>2, <2>1, <2>2, SearchStarts
<1>5. CASE pc = "dev"
  <2>1. Conclude("runtime")
    BY <1>5 DEF NotFound
  <2>2. InRuntime(lock) \/ Unseen(lock) \/ GaveUp(graph.rootDev)
    <3>1. ~InRuntime(lock) /\ ~Unseen(lock) => Wanted \in Reachable(graph.edges, graph.rootDev)
      BY <1>2, Closures
    <3>2. Wanted \in Reachable(graph.edges, graph.rootDev) => GaveUp(graph.rootDev)
      BY <1>2, <1>3, <1>5 DEF From, Missed, GaveUp, BySearch
    <3> QED BY <3>1, <3>2
  <2> QED BY <1>1, <1>2, <2>1, <2>2, Concluding
<1> QED BY <1>1, <1>4, <1>5 DEF Searching

\* What follows the verdict leaves it alone.
LEMMA RestInv ==
  ASSUME GraphInv, UNCHANGED <<checkout, locks, lock, graph, devOnly>>,
         pc' \notin {"scan", "runtime", "dev"}
  PROVE  GraphInv'
BY DEF GraphInv, ScanInv, SearchInv, Searching, RuntimeIsNeverDevOnly, DevOnlyIsFound, GaveUp

LEMMA StepInv == GraphInv /\ [Next]_vars => GraphInv'
<1> SUFFICES ASSUME GraphInv, [Next]_vars PROVE GraphInv'
  OBVIOUS
<1>1. CASE Read
  BY <1>1, ReadInv
<1>2. CASE DevOnly
  BY <1>2, DevOnlyInv
<1>3. CASE Expand
  BY <1>3, ExpandInv
<1>4. CASE Found
  BY <1>4, FoundInv
<1>5. CASE NotFound
  BY <1>5, NotFoundInv
<1>6. CASE PathsTo
  BY <1>6, RestInv DEF PathsTo, scanVars
<1>7. CASE NextStart
  BY <1>7, RestInv DEF NextStart, scanVars
<1>8. CASE Walk
  BY <1>8, RestInv DEF Walk, Walks, BackToPaths, scanVars
<1>9. CASE NoPath
  BY <1>9, RestInv DEF NoPath, BackToPaths, scanVars
<1>10. CASE Done
  BY <1>10, RestInv DEF Done, scanVars
<1>11. CASE UNCHANGED vars
  BY <1>11 DEF vars, scanVars, GraphInv, ScanInv, SearchInv, Searching, BySearch, From,
               RuntimeRoots, Missed, RuntimeIsNeverDevOnly, DevOnlyIsFound, GaveUp
<1> QED
  BY <1>1, <1>2, <1>3, <1>4, <1>5, <1>6, <1>7, <1>8, <1>9, <1>10, <1>11 DEF Next

\* However a lockfile's searches go, the conclusions drawn from them hold.
LEMMA GraphInvariant == Spec => []GraphInv
BY InitInv, StepInv, PTL DEF Spec

\* Of every lockfile, in every format, however long its chains of dependencies
\* and whatever the reader of the manifest makes of it: a package of the runtime
\* closure is called development only in none, apart from those Misread names
\* and runtime closures beyond the search limit (lockgraph.go:149-186).
THEOREM DevOnlyIsSound == Spec => []RuntimeIsNeverDevOnly
<1>1. GraphInv => RuntimeIsNeverDevOnly
  BY DEF GraphInv
<1> QED BY <1>1, GraphInvariant, PTL

\* A package only development needs is called runtime by no graph, apart from
\* the needs Unseen names and development closures beyond the search limit
\* (lockgraph.go:149-186).
THEOREM DevOnlyIsComplete == Spec => []DevOnlyIsFound
<1>1. GraphInv => DevOnlyIsFound
  BY DEF GraphInv
<1> QED BY <1>1, GraphInvariant, PTL

-----------------------------------------------------------------------------
(* The choice of the lockfile.                                             *)

LEMMA Outside == ASSUME NEW x, NEW S, x \notin S PROVE (x \in S) = FALSE
OBVIOUS

\* A resolved lockfile is readable but for its format.
LEMMA Readable ==
  ASSUME NEW l \in LockFile, Resolved(l), l.format # "unreadable"
  PROVE  loadGraph(l) # {}
<1>1. l.format \in Format \ {"unreadable"}
  BY DEF LockFile
<1>2. CASE l.format = "poetry"
  <2> DEFINE D == {x \in l.present : TRUE \in l.flags[x]}
  <2>1. l.present \subseteq Package /\ l.flags \in [Package -> SUBSET BOOLEAN]
    BY DEF LockFile
  <2>2. \A x \in l.present : l.flags[x] # {} /\ l.flags[x] \subseteq BOOLEAN
    BY <2>1 DEF Resolved, Locked
  <2>5. D \subseteq l.present
    OBVIOUS
  <2>3. \A x \in l.present : (x \in D) \in l.flags[x]
    <3> SUFFICES ASSUME NEW x \in l.present PROVE (x \in D) \in l.flags[x]
      OBVIOUS
    <3>1. CASE TRUE \in l.flags[x]
      <4>1. (x \in D) = TRUE
        BY <3>1
      <4> QED BY <3>1, <4>1
    <3>2. CASE TRUE \notin l.flags[x]
      <4>0. x \notin D
        BY <3>2
      <4>1. (x \in D) = FALSE
        BY <4>0, Outside
      <4>2. FALSE \in l.flags[x]
        BY <2>2, <3>2
      <4> QED BY <4>1, <4>2
    <3> QED BY <3>1, <3>2
  <2> DEFINE Flags == {F \in SUBSET l.present : \A x \in l.present : (x \in F) \in l.flags[x]}
             g(F)  == [newGraph(l) EXCEPT !.devFlags = TRUE, !.devOnly = F]
  <2>4. parsePoetryLock(l) # {}
    <3>1. D \in Flags
      <4> HIDE DEF D
      <4> QED BY <2>3, <2>5
    <3>2. CASE l.flagged
      <4>1. parsePoetryLock(l) = {g(F) : F \in Flags}
        BY <3>2, Zenon DEF parsePoetryLock
      <4> HIDE DEF Flags, g, D
      <4> QED BY <3>1, <4>1
    <3>3. CASE ~l.flagged
      BY <3>3, Zenon DEF parsePoetryLock
    <3> QED BY <3>2, <3>3
  <2> QED BY <1>2, <2>4 DEF loadGraph
<1>3. CASE l.format # "poetry"
  BY <1>1, <1>3 DEF loadGraph, Format
<1> QED BY <1>2, <1>3

\* What is left is the end of the checkout; the lockfile in hand is one of the
\* others.
LeftInv ==
  /\ checkout \in Seq(LockFile) /\ locks \in Seq(LockFile)
  /\ Len(locks) <= Len(checkout)
  /\ \A i \in 1 .. Len(locks) : locks[i] = checkout[Len(checkout) - Len(locks) + i]
  /\ lock # NoLock => \E j \in 1 .. Len(checkout) - Len(locks) : lock = checkout[j]

ChoiceInv == LeftInv /\ ShallowestWins

LEMMA ChoiceInit == Init => ChoiceInv
<1> SUFFICES ASSUME Init PROVE ChoiceInv
  OBVIOUS
<1>1. checkout \in Seq(LockFile) /\ locks = checkout /\ lock = NoLock
  BY CheckoutAssumption DEF Init
<1>2. Len(checkout) \in Nat
  BY <1>1
<1>3. LeftInv
  BY <1>1, <1>2 DEF LeftInv
<1>4. 1 .. Len(checkout) - Len(locks) = {}
  BY <1>1, <1>2
<1> QED BY <1>3, <1>4 DEF ChoiceInv, ShallowestWins

LEMMA ChoiceRead == GraphInv /\ ChoiceInv /\ Read => ChoiceInv'
<1> SUFFICES ASSUME GraphInv, ChoiceInv, Read PROVE ChoiceInv'
  OBVIOUS
<1> DEFINE l == Head(locks)
           n == Len(checkout) - Len(locks)
<1>1. /\ checkout' = checkout /\ locks' = Tail(locks) /\ locks # << >>
      /\ checkout \in Seq(LockFile) /\ locks \in Seq(LockFile)
      /\ Len(locks) \in Nat \ {0} /\ Len(checkout) \in Nat /\ Len(locks) <= Len(checkout)
  BY DEF Read, ChoiceInv, LeftInv
<1>2. /\ Tail(locks) \in Seq(LockFile) /\ Len(Tail(locks)) = Len(locks) - 1
      /\ \A i \in 1 .. Len(locks) - 1 : Tail(locks)[i] = locks[i + 1] /\ i + 1 \in 1 .. Len(locks)
      /\ l = locks[1] /\ 1 \in 1 .. Len(locks)
  BY <1>1
<1>3. /\ n \in Nat /\ Len(checkout') - Len(locks') = n + 1
      /\ l = checkout[n + 1] /\ l \in LockFile
  <2>1. l = checkout[n + 1]
    BY <1>2 DEF ChoiceInv, LeftInv
  <2> QED BY <1>1, <1>2, <2>1
<1>4. \A i \in 1 .. Len(locks') : locks'[i] = checkout'[n + 1 + i]
  <2> SUFFICES ASSUME NEW i \in 1 .. Len(locks) - 1
               PROVE  Tail(locks)[i] = checkout[n + 1 + i]
    BY <1>1, <1>2
  <2>1. locks[i + 1] = checkout[n + (i + 1)]
    BY <1>2 DEF ChoiceInv, LeftInv
  <2>2. n + (i + 1) = n + 1 + i
    BY <1>3
  <2> QED BY <1>2, <2>1, <2>2
<1>5. Resolved(l)
  BY <1>2 DEF GraphInv, ScanInv
<1>6. \/ lock' = l /\ ~has
      \/ lock' = lock /\ (has \/ loadGraph(l) = {} \/ Wanted \notin l.present)
  BY DEF Read
<1>7. lock # NoLock => \E j \in 1 .. n : lock = checkout[j]
  BY DEF ChoiceInv, LeftInv
<1>8. lock' # NoLock => \E j \in 1 .. n + 1 : lock' = checkout'[j]
  <2>1. CASE lock' = l
    BY <1>1, <1>3, <2>1
  <2>2. CASE lock' = lock
    BY <1>1, <1>3, <1>7, <2>2
  <2> QED BY <1>6, <2>1, <2>2
<1>9. LeftInv'
  BY <1>1, <1>2, <1>3, <1>4, <1>8 DEF LeftInv
<1>10. ASSUME NEW i \in 1 .. n + 1, Wanted \in checkout[i].present, checkout[i].format # "unreadable"
       PROVE  has' /\ \E j \in 1 .. i : lock' = checkout[j]
  <2>1. CASE i \in 1 .. n
    <3>1. has /\ \E j \in 1 .. i : lock = checkout[j]
      BY <1>10, <2>1 DEF ChoiceInv, ShallowestWins
    <3>2. lock' = lock
      BY <1>6, <3>1
    <3> QED BY <3>1, <3>2 DEF has
  <2>2. CASE i = n + 1
    <3>1. loadGraph(l) # {} /\ Wanted \in l.present
      BY <1>3, <1>5, <1>10, <2>2, Readable
    <3>2. CASE has
      BY <1>3, <1>6, <1>7, <2>2, <3>2 DEF has
    <3>3. CASE ~has
      <4>1. lock' = l
        BY <1>6, <3>1, <3>3
      <4>2. l # NoLock
        BY <1>3, NoLockAssumption
      <4>3. has'
        BY <3>1, <4>1, <4>2 DEF has
      <4> QED BY <1>3, <2>2, <4>1, <4>3
    <3> QED BY <3>2, <3>3
  <2> QED BY <1>3, <2>1, <2>2
<1>11. ShallowestWins'
  BY <1>1, <1>3, <1>10 DEF ShallowestWins
<1> QED BY <1>9, <1>11 DEF ChoiceInv

LEMMA ChoiceRest == ChoiceInv /\ UNCHANGED scanVars => ChoiceInv'
BY DEF ChoiceInv, LeftInv, ShallowestWins, has, scanVars

LEMMA OnlyReadChooses == [Next]_vars => Read \/ UNCHANGED scanVars
BY DEF Next, vars, DevOnly, Expand, Found, NotFound, PathsTo, NextStart, Walk, NoPath, Done

\* In every checkout, whatever lies about in it, the graph is that of the
\* shallowest readable lockfile with the package (ecosystem.go:358-380).
THEOREM ShallowestAlwaysWins == Spec => []ShallowestWins
<1>1. GraphInv /\ ChoiceInv /\ [Next]_vars => ChoiceInv'
  BY ChoiceRead, ChoiceRest, OnlyReadChooses
<1>2. ChoiceInv => ShallowestWins
  BY DEF ChoiceInv
<1> QED BY <1>1, <1>2, ChoiceInit, GraphInvariant, PTL DEF Spec

-----------------------------------------------------------------------------
(* Paths.                                                                  *)

Apart(g) == g.root \cap g.rootDev = {}

LEMMA RootedApart ==
  ASSUME NEW g \in Graph, NEW r \in SUBSET Package, NEW d \in SUBSET Package
  PROVE  Apart(withRoots(g, r, d)) /\ withRoots(g, r, d) \in Graph
BY DEF Apart, withRoots, Graph

\* No loader takes a package for a root of both kinds.
LEMMA RootsApart ==
  ASSUME NEW l \in LockFile, Resolved(l), NEW g \in loadGraph(l)
  PROVE  Apart(g)
<1>1. l.format \in Format \ {"unreadable"}
  BY DEF LockFile, loadGraph
<1>2. /\ newGraph(l) \in Graph /\ flatGraph(l) \in Graph
      /\ Apart(newGraph(l)) /\ Apart(flatGraph(l))
  BY NewGraph DEF newGraph, flatGraph, Apart
<1>3. /\ l.runtime \in SUBSET Package /\ l.dev \in SUBSET Package
      /\ Needs(l) \in SUBSET Package /\ MainNeeds(l) \in SUBSET Package
      /\ readRuntime(l) \in SUBSET Package /\ readDev(l) \in SUBSET Package
      /\ l.grouped \in SUBSET Package /\ l.repeated \in SUBSET Package
  BY Parts
<1>4. ASSUME NEW h \in Graph, Apart(h)
      PROVE  withFlags(h, l) \in Graph /\ Apart(withFlags(h, l))
  <2>1. {x \in l.present : l.flags[x] = {TRUE}} \in SUBSET Package
    BY DEF LockFile
  <2> QED BY <1>4, <2>1 DEF withFlags, Graph, Apart
<1>5. ASSUME NEW h \in Graph, Apart(h) PROVE Apart(npmRootFromManifest(h, l))
  <2>1. withRoots(h, l.runtime, l.dev) \in Graph /\ Apart(withRoots(h, l.runtime, l.dev))
    BY <1>3, RootedApart
  <2> DEFINE k == withRoots(h, l.runtime, l.dev)
  <2>2. Apart([k EXCEPT !.devSplit = ~l.workspace])
    <3> HIDE DEF k
    <3>1. k \in Graph /\ Apart(k)
      BY <2>1 DEF k
    <3> QED BY <3>1 DEF Graph, Apart
  <2> QED BY <1>5, <2>2 DEF npmRootFromManifest
<1>6. CASE l.format \in {"npm", "npm1"}
  <2>1. g = parsePackageLock(l)
    BY <1>6 DEF loadGraph
  <2> QED BY <1>2, <1>3, <1>4, <1>5, <2>1, RootedApart DEF parsePackageLock
<1>7. CASE l.format = "yarn"
  BY <1>2, <1>5, <1>7 DEF loadGraph, parseYarnLock
<1>8. CASE l.format = "pnpm"
  <2> DEFINE e == [y \in Package |-> (UNION {l.edges[x] : x \in {z \in Package : l.real[z] = y}}) \ {y}]
             w == withRoots(newGraph(l), Needs(l), l.dev)
             h == [w EXCEPT !.edges = e]
  <2>1. g = h \/ g = withFlags(h, l)
    BY <1>8 DEF loadGraph, parsePnpmLock
  <2>2. w \in Graph /\ Apart(w) /\ e \in [Package -> SUBSET Package]
    BY <1>2, <1>3, PnpmEdges, RootedApart
  <2> HIDE DEF w, e
  <2>3. h \in Graph /\ Apart(h)
    BY <2>2 DEF Graph, Apart
  <2> HIDE DEF h
  <2> QED BY <1>4, <2>1, <2>3
<1>9. CASE l.format = "cargo"
  <2> DEFINE h == parseCargoLock(l)
  <2>1. h \in Graph /\ Apart(h) /\ h.root \in SUBSET Package
    BY <1>2, <1>3 DEF parseCargoLock, Apart, Graph, newGraph
  <2>2. g = cargoRootFromManifest(h, l)
    BY <1>9 DEF loadGraph
  <2> HIDE DEF h
  <2> DEFINE D == readDevOnly(l)
  <2>3. g = h \/ g = withRoots(h, h.root \ D, h.root \cap D)
    BY <2>2 DEF cargoRootFromManifest
  <2>4. h.root \ D \in SUBSET Package /\ h.root \cap D \in SUBSET Package
    BY <2>1
  <2> HIDE DEF D
  <2> QED BY <2>1, <2>3, <2>4, RootedApart
<1>10. CASE l.format = "poetry"
  <2>1. PICK h \in parsePoetryLock(l) : g = pyRootFromManifest(h, l)
    BY <1>10 DEF loadGraph
  <2>2. h \in Graph /\ Apart(h)
    <3>1. l.present \in SUBSET Package
      BY DEF LockFile
    <3>2. CASE l.flagged
      <4>1. PICK F \in SUBSET l.present : h = [newGraph(l) EXCEPT !.devFlags = TRUE, !.devOnly = F]
        BY <3>2, Zenon DEF parsePoetryLock
      <4>2. F \in SUBSET Package
        BY <3>1
      <4> QED BY <1>2, <4>1, <4>2 DEF Graph, Apart
    <3>3. CASE ~l.flagged
      BY <1>2, <3>3 DEF parsePoetryLock
    <3> QED BY <3>2, <3>3
  <2> DEFINE w == withRoots(h, readRuntime(l), readDev(l))
  <2>3. g = h \/ g = [w EXCEPT !.repeated = l.repeated]
    BY <2>1 DEF pyRootFromManifest
  <2>4. w \in Graph /\ Apart(w)
    BY <1>3, <2>2, RootedApart
  <2> HIDE DEF w
  <2> QED BY <2>2, <2>3, <2>4 DEF Graph, Apart
<1>11. CASE l.format = "uv"
  BY <1>2, <1>3, <1>11, RootedApart DEF loadGraph, parseUvLock
<1>12. CASE l.format = "pipfile"
  <2>1. g = pipfileRoot(withFlags(flatGraph(l), l), l)
    BY <1>12 DEF loadGraph, parsePipfileLock
  <2> QED BY <1>2, <1>3, <1>4, <2>1, RootedApart DEF pipfileRoot
<1>13. CASE l.format = "gem"
  <2> DEFINE h == parseGemfileLock(l)
             D == readDevOnly(l)
  <2>1. h \in Graph /\ h.rootDev = {}
    BY <1>3 DEF parseGemfileLock, Graph, newGraph, LockFile
  <2>2. g = gemfileGroups(h, l)
    BY <1>13 DEF loadGraph
  <2> HIDE DEF h
  <2>3. \/ g = h
        \/ g.root = h.root \ D /\ g.rootDev = h.root \cap D
    BY <2>1, <2>2 DEF gemfileGroups, Graph
  <2> QED BY <2>1, <2>3 DEF Apart
<1>14. CASE l.format = "composer"
  <2>1. g = composerRootFromManifest(withFlags(newGraph(l), l), l)
    BY <1>14 DEF loadGraph, parseComposerLock
  <2> QED BY <1>2, <1>3, <1>4, <2>1, RootedApart DEF composerRootFromManifest
<1>15. CASE l.format = "nuget"
  BY <1>2, <1>15 DEF loadGraph, parseNugetLock, newGraph, Apart
<1>16. CASE l.format = "pubspec"
  BY <1>2, <1>16 DEF loadGraph, parsePubspecLock, flatGraph, newGraph, Apart
<1>17. CASE l.format = "gradle"
  BY <1>2, <1>4, <1>17 DEF loadGraph, parseGradleLockfile
<1> QED BY <1>1, <1>6, <1>7, <1>8, <1>9, <1>10, <1>11, <1>12, <1>13, <1>14, <1>15, <1>16, <1>17 DEF Format

\* A way from s to x.
IsWay(w, s, x) ==
  /\ w \in Seq(Package) /\ w # << >>
  /\ w[1] = s /\ w[Len(w)] = x /\ IsChain(w)

LEMMA OneMore ==
  ASSUME NEW w, NEW s, NEW x, IsWay(w, s, x), NEW y \in Package, y \in graph.edges[x]
  PROVE  IsWay(Append(w, y), s, y) /\ Len(Append(w, y)) = Len(w) + 1
<1> DEFINE v == Append(w, y)
<1>1. w \in Seq(Package) /\ Len(w) \in Nat \ {0} /\ w[1] = s /\ w[Len(w)] = x
  BY DEF IsWay
<1>2. /\ v \in Seq(Package) /\ Len(v) = Len(w) + 1 /\ v[Len(w) + 1] = y
      /\ \A i \in 1 .. Len(w) : v[i] = w[i]
  BY <1>1
<1>3. v # << >> /\ v[1] = s /\ v[Len(v)] = y
  BY <1>1, <1>2
<1>4. ASSUME NEW i \in 1 .. Len(v) - 1 PROVE v[i + 1] \in graph.edges[v[i]]
  <2>1. CASE i = Len(w)
    BY <1>1, <1>2, <2>1
  <2>2. CASE i \in 1 .. Len(w) - 1
    <3>1. w[i + 1] \in graph.edges[w[i]]
      BY <2>2 DEF IsWay, IsChain
    <3>2. i \in 1 .. Len(w) /\ i + 1 \in 1 .. Len(w)
      BY <1>1, <2>2
    <3> QED BY <1>2, <3>1, <3>2
  <2> QED BY <1>1, <1>2, <2>1, <2>2
<1>5. IsChain(v)
  BY <1>4 DEF IsChain
<1> QED BY <1>2, <1>3, <1>5 DEF IsWay

\* The breadth-first search from s: it knows a way to whatever it has come to,
\* its queue goes from near to far, no farther than one step beyond its head,
\* and what is not queued any more has been looked at with all its
\* dependencies, none of which is farther than one step from it.
Ways(s) ==
  /\ way \in [Package -> Seq(Package)] /\ queue \in Seq(Package)
  /\ s \in Package /\ way[s] = <<s>>
  /\ Elems(queue) \subseteq Walked /\ Wanted \notin Walked
  /\ \A x \in Walked : IsWay(way[x], s, x)
  /\ \A i, j \in 1 .. Len(queue) : i <= j => Len(way[queue[i]]) <= Len(way[queue[j]])
  /\ \A x \in Walked : \A i \in 1 .. Len(queue) : Len(way[x]) <= Len(way[queue[i]]) + 1
  /\ \A x \in Walked \ Elems(queue) : \A y \in graph.edges[x] :
        y \in Walked /\ Len(way[y]) <= Len(way[x]) + 1

\* What is at most as far as the queue's head has been come to.
LEMMA Near ==
  ASSUME NEW s, Ways(s), graph.edges \in [Package -> SUBSET Package], queue # << >>,
         NEW n \in Nat \ {0}, n <= Len(way[Head(queue)]),
         NEW q \in [1 .. n -> Package], q[1] = s,
         \A i \in 1 .. n - 1 : q[i + 1] \in graph.edges[q[i]]
  PROVE  q[n] \in Walked
<1> DEFINE Good(k) == q[k] \in Walked /\ Len(way[q[k]]) <= k
           Bad     == {k \in 1 .. n : ~Good(k)}
<1>1. SUFFICES ASSUME Bad # {} PROVE FALSE
  <2>1. n \in 1 .. n
    OBVIOUS
  <2> QED BY <1>1, <2>1
<1>2. Bad \subseteq Nat
  OBVIOUS
<1>3. PICK k \in Bad : \A j \in Bad : ~(<<j, k>> \in OpToRel(<, Nat))
  <2> HIDE DEF Bad
  <2> QED BY <1>1, <1>2, WFMin, NatLessThanWellFounded, Zenon
<1>4. k \in 1 .. n /\ ~Good(k) /\ \A j \in 1 .. n : j < k => Good(j)
  <2>1. \A j \in Bad : ~(j < k)
    <3> HIDE DEF Bad
    <3> QED BY <1>2, <1>3, Zenon DEF OpToRel
  <2> QED BY <2>1
<1>5. Good(1)
  <2>1. way[s] = <<s>> /\ s \in Package /\ q[1] = s
    BY DEF Ways
  <2>2. way[s] # << >> /\ Len(way[s]) <= 1
    BY <2>1
  <2> QED BY <2>1, <2>2 DEF Walked
<1>6. k - 1 \in 1 .. n - 1 /\ k - 1 \in 1 .. n /\ k - 1 < k
  BY <1>4, <1>5
<1>7. Good(k - 1) /\ q[k] \in graph.edges[q[k - 1]] /\ q[k - 1] \in Package
  <2>1. q[(k - 1) + 1] \in graph.edges[q[k - 1]] /\ (k - 1) + 1 = k
    BY <1>4, <1>6
  <2> QED BY <1>4, <1>6, <2>1
<1>8. q[k - 1] \notin Elems(queue)
  <2>1. SUFFICES ASSUME NEW i \in DOMAIN queue, queue[i] = q[k - 1] PROVE FALSE
    BY DEF Elems
  <2>2. /\ queue \in Seq(Package) /\ Len(queue) \in Nat \ {0} /\ DOMAIN queue = 1 .. Len(queue)
        /\ Head(queue) = queue[1]
    BY DEF Ways
  <2>3. Len(way[queue[1]]) <= Len(way[queue[i]])
    BY <2>2 DEF Ways
  <2>4. way[queue[i]] \in Seq(Package) /\ way[queue[1]] \in Seq(Package)
    BY <2>2 DEF Ways
  <2>5. Len(way[queue[i]]) \in Nat /\ Len(way[queue[1]]) \in Nat
    BY <2>4
  <2> QED BY <1>4, <1>6, <1>7, <2>1, <2>2, <2>3, <2>5
<1>9. q[k] \in Walked /\ Len(way[q[k]]) <= Len(way[q[k - 1]]) + 1
  BY <1>7, <1>8 DEF Ways
<1>10. Len(way[q[k - 1]]) \in Nat /\ Len(way[q[k]]) \in Nat
  <2>1. way[q[k - 1]] \in Seq(Package) /\ way[q[k]] \in Seq(Package)
    BY <1>4, <1>7 DEF Ways
  <2> QED BY <2>1
<1> QED BY <1>4, <1>6, <1>7, <1>9, <1>10

\* A step of the search that does not come to the wanted package.
Onward(s, fresh, r) ==
  /\ Ways(s) /\ graph.edges \in [Package -> SUBSET Package] /\ queue # << >>
  /\ graph' = graph
  /\ fresh = graph.edges[Head(queue)] \ Walked /\ Wanted \notin fresh
  /\ r \in Orders(fresh) /\ queue' = Tail(queue) \o r
  /\ way' = [x \in Package |-> IF x \in fresh THEN Append(way[Head(queue)], x) ELSE way[x]]

\* It keeps all of this.
LEMMA WalkOn ==
  ASSUME NEW s, NEW fresh, NEW r, Onward(s, fresh, r)
  PROVE  Ways(s)'
<1> DEFINE cur == Head(queue)
           t   == Tail(queue)
           d   == Len(way[cur])
<1>1. /\ way \in [Package -> Seq(Package)] /\ queue \in Seq(Package)
      /\ s \in Package /\ way[s] = <<s>> /\ s \in Walked
      /\ Elems(queue) \subseteq Walked /\ Wanted \notin Walked
      /\ \A x \in Walked : IsWay(way[x], s, x)
  <2>1. way[s] = <<s>> /\ s \in Package
    BY DEF Onward, Ways
  <2>2. way[s] # << >>
    BY <2>1
  <2> QED BY <2>1, <2>2 DEF Onward, Ways, Walked
<1>2. /\ cur \in Package /\ t \in Seq(Package)
      /\ Elems(queue) = {cur} \cup Elems(t)
  BY <1>1, HeadTail DEF Onward
<1>3. /\ Len(queue) \in Nat \ {0} /\ Len(t) = Len(queue) - 1 /\ cur = queue[1]
      /\ \A i \in 1 .. Len(t) : t[i] = queue[i + 1] /\ i + 1 \in 1 .. Len(queue)
      /\ 1 \in 1 .. Len(queue)
  BY <1>1 DEF Onward
<1>4. /\ fresh \in SUBSET Package /\ cur \in Walked /\ cur \notin fresh /\ s \notin fresh
      /\ \A x \in fresh : x \in graph.edges[cur] /\ x \notin Walked
  BY <1>1, <1>2 DEF Onward
<1>5. r \in Seq(Package) /\ Elems(r) = fresh
  BY <1>4, OrdersOf DEF Onward
<1>6. queue' \in Seq(Package) /\ Elems(queue') = Elems(t) \cup fresh
  BY <1>2, <1>5, Concat DEF Onward
<1>7. way[cur] \in Seq(Package) /\ d \in Nat
  BY <1>1, <1>2
<1>8. \A x \in Package : Append(way[cur], x) \in Seq(Package) /\ Append(way[cur], x) # << >>
                         /\ Len(Append(way[cur], x)) = d + 1
  <2> DEFINE w == way[cur]
  <2>1. w \in Seq(Package)
    BY <1>7
  <2> HIDE DEF w
  <2>2. \A x \in Package : Append(w, x) \in Seq(Package) /\ Append(w, x) # << >>
                           /\ Len(Append(w, x)) = Len(w) + 1
    BY <2>1, AppendProperties
  <2> QED BY <2>2 DEF w
<1>9. /\ way' \in [Package -> Seq(Package)]
      /\ \A x \in fresh : way'[x] = Append(way[cur], x) /\ Len(way'[x]) = d + 1 /\ way'[x] # << >>
      /\ \A x \in Package \ fresh : way'[x] = way[x]
  BY <1>1, <1>4, <1>8 DEF Onward
<1>10. Walked' = Walked \cup fresh
  BY <1>4, <1>9 DEF Walked
<1>11. Walked \in SUBSET Package /\ \A x \in Walked : x \notin fresh /\ way'[x] = way[x] /\ Len(way[x]) \in Nat
  BY <1>1, <1>4, <1>9 DEF Walked
<1> DEFINE Far(x) == Len(way'[x])
<1>23. /\ \A x \in fresh : Far(x) = d + 1
       /\ \A x \in Walked : Far(x) = Len(way[x]) /\ Far(x) \in Nat
       /\ d \in Nat /\ d = Len(way[cur])
  BY <1>7, <1>9, <1>11
<1> HIDE DEF cur, t, d, Far
<1>12. ASSUME NEW x \in Walked' PROVE IsWay(way[x], s, x)'
  <2>1. IsWay(way'[x], s, x)
    <3>1. CASE x \in Walked
      BY <1>1, <1>11, <3>1
    <3>2. CASE x \in fresh
      <4>1. IsWay(way[cur], s, cur) /\ x \in Package /\ x \in graph.edges[cur]
        BY <1>1, <1>4, <3>2
      <4> QED BY <1>9, <3>2, <4>1, OneMore
    <3> QED BY <1>10, <3>1, <3>2
  <2> QED BY <2>1 DEF Onward, IsWay, IsChain
<1>13. \A x \in Walked : Len(way[x]) <= d + 1
  BY <1>3, <1>23 DEF Onward, Ways
<1>14. \A i \in 1 .. Len(t) : t[i] \in Walked /\ d <= Far(t[i]) /\ Far(t[i]) <= d + 1
  <2> SUFFICES ASSUME NEW i \in 1 .. Len(t)
               PROVE  t[i] \in Walked /\ d <= Far(t[i]) /\ Far(t[i]) <= d + 1
    OBVIOUS
  <2>1. t[i] = queue[i + 1] /\ i + 1 \in 1 .. Len(queue) /\ 1 <= i + 1
    BY <1>3
  <2>2. t[i] \in Walked
    <3>1. queue[i + 1] \in Elems(queue)
      BY <1>1, <2>1 DEF Elems
    <3> QED BY <1>1, <2>1, <3>1
  <2>3. Len(way[queue[1]]) <= Len(way[queue[i + 1]])
    BY <1>3, <2>1 DEF Onward, Ways
  <2>4. Far(t[i]) = Len(way[t[i]])
    BY <1>23, <2>2
  <2> QED BY <1>3, <1>13, <1>23, <2>1, <2>2, <2>3, <2>4
<1>15. /\ Len(r) \in Nat /\ Len(t) \in Nat /\ Len(queue') = Len(t) + Len(r)
       /\ \A i \in 1 .. Len(t) : queue'[i] = t[i]
       /\ \A i \in 1 .. Len(r) : queue'[Len(t) + i] = r[i] /\ r[i] \in fresh
  <2>1. \A i \in 1 .. Len(r) : r[i] \in fresh
    BY <1>5 DEF Elems
  <2> QED BY <1>2, <1>5, <2>1 DEF Onward, t
<1>16. \A i \in 1 .. Len(queue') :
          \/ i <= Len(t) /\ i \in 1 .. Len(t) /\ Far(queue'[i]) = Far(t[i])
          \/ i > Len(t) /\ Far(queue'[i]) = d + 1
  <2> SUFFICES ASSUME NEW i \in 1 .. Len(queue')
               PROVE  \/ i <= Len(t) /\ i \in 1 .. Len(t) /\ Far(queue'[i]) = Far(t[i])
                      \/ i > Len(t) /\ Far(queue'[i]) = d + 1
    OBVIOUS
  <2>1. CASE i <= Len(t)
    <3>1. i \in 1 .. Len(t)
      BY <1>15, <2>1
    <3>2. queue'[i] = t[i] /\ t[i] \in Walked
      BY <1>14, <1>15, <3>1
    <3> QED BY <2>1, <3>1, <3>2
  <2>2. CASE i > Len(t)
    <3>1. i - Len(t) \in 1 .. Len(r) /\ Len(t) + (i - Len(t)) = i
      BY <1>15, <2>2
    <3>2. queue'[i] \in fresh
      BY <1>15, <3>1
    <3> QED BY <1>23, <2>2, <3>2
  <2> QED BY <1>15, <2>1, <2>2
<1>17. ASSUME NEW i \in 1 .. Len(queue'), NEW j \in 1 .. Len(queue'), i <= j
       PROVE  Far(queue'[i]) <= Far(queue'[j])
  <2>1. CASE j <= Len(t)
    <3>1. i \in 1 .. Len(t) /\ j \in 1 .. Len(t)
      BY <1>15, <1>17, <2>1
    <3>2. /\ i + 1 \in 1 .. Len(queue) /\ j + 1 \in 1 .. Len(queue) /\ i + 1 <= j + 1
          /\ t[i] = queue[i + 1] /\ t[j] = queue[j + 1]
      BY <1>3, <1>17, <3>1
    <3>3. Far(t[i]) <= Far(t[j])
      <4>1. Len(way[t[i]]) <= Len(way[t[j]])
        BY <3>2 DEF Onward, Ways
      <4> QED BY <1>14, <1>23, <3>1, <4>1
    <3>4. Far(queue'[i]) = Far(t[i]) /\ Far(queue'[j]) = Far(t[j])
      <4>1. \A m \in 1 .. Len(t) : queue'[m] = t[m]
        BY <1>15
      <4> QED BY <3>1, <4>1
    <3> QED BY <3>3, <3>4
  <2>2. CASE j > Len(t)
    <3>1. Far(queue'[j]) = d + 1
      BY <1>15, <1>16, <2>2
    <3>2. Far(queue'[i]) <= d + 1
      BY <1>14, <1>16, <1>23
    <3> QED BY <3>1, <3>2
  <2> QED BY <1>15, <2>1, <2>2
<1>18. \A x \in Walked' : Far(x) <= d + 1
  BY <1>10, <1>13, <1>23
<1>19. \A i \in 1 .. Len(queue') : d <= Far(queue'[i]) /\ Far(queue'[i]) \in Nat
  <2> SUFFICES ASSUME NEW i \in 1 .. Len(queue')
               PROVE  d <= Far(queue'[i]) /\ Far(queue'[i]) \in Nat
    OBVIOUS
  <2>1. CASE i <= Len(t)
    <3>1. i \in 1 .. Len(t) /\ Far(queue'[i]) = Far(t[i])
      BY <1>15, <1>16, <2>1
    <3>2. t[i] \in Walked /\ d <= Far(t[i])
      BY <1>14, <3>1
    <3> QED BY <1>23, <3>1, <3>2
  <2>2. CASE i > Len(t)
    BY <1>15, <1>16, <1>23, <2>2
  <2> QED BY <1>15, <2>1, <2>2
<1>20. ASSUME NEW x \in Walked', NEW i \in 1 .. Len(queue')
       PROVE  Far(x) <= Far(queue'[i]) + 1
  <2>1. Far(x) \in Nat
    BY <1>10, <1>23
  <2> QED BY <1>18, <1>19, <1>23, <2>1
<1>21. ASSUME NEW x \in Walked' \ Elems(queue'), NEW y \in graph.edges[x]
       PROVE  y \in Walked' /\ Far(y) <= Far(x) + 1
  <2>1. x \in Walked /\ x \notin Elems(t)
    BY <1>6, <1>10
  <2>2. CASE x = cur
    <3>1. y \in fresh \/ y \in Walked
      BY <2>2 DEF Onward, cur
    <3>2. y \in Walked'
      BY <1>10, <3>1
    <3>3. Far(x) = d
      BY <1>23, <2>1, <2>2
    <3> QED BY <1>18, <3>2, <3>3
  <2>3. CASE x # cur
    <3>1. x \in Walked \ Elems(queue)
      BY <1>2, <2>1, <2>3
    <3>2. y \in Walked /\ Len(way[y]) <= Len(way[x]) + 1
      BY <3>1 DEF Onward, Ways
    <3> QED BY <1>10, <1>23, <2>1, <3>2
  <2> QED BY <2>2, <2>3
<1>22. way'[s] = <<s>> /\ Wanted \notin Walked' /\ Elems(queue') \subseteq Walked'
  <2>1. Wanted \notin fresh
    BY DEF Onward
  <2> QED BY <1>1, <1>2, <1>4, <1>6, <1>9, <1>10, <2>1
<1> QED BY <1>1, <1>6, <1>9, <1>12, <1>17, <1>20, <1>21, <1>22 DEF Onward, Ways, Far

Roots == graph.root \cup graph.rootDev
Used  == {paths[i][1] : i \in 1 .. Len(paths)}

\* Nothing but members of T comes again.
Once(q, T) == \A i, j \in 1 .. Len(q) : q[i] = q[j] => i = j \/ q[i] \in T

\* What PathsAreShortest says of one path, for any graph.
ChainIn(g, p) == \A i \in 1 .. Len(p) - 1 : p[i + 1] \in g.edges[p[i]]

ShortestIn(g, p) ==
  /\ p[1] \in g.root \cup g.rootDev /\ p[Len(p)] = Wanted
  /\ ChainIn(g, p)
  /\ \A n \in 1 .. Len(p) - 1 : \A q \in [1 .. n -> Package] :
       ~(q[1] = p[1] /\ q[n] = Wanted /\ ChainIn(g, q))

Shortest(p) == ShortestIn(graph, p)

StartsInv ==
  /\ starts \in Seq(Package) /\ Once(starts, graph.repeated)
  /\ Elems(starts) \subseteq Roots /\ Elems(starts) \cap Used \subseteq graph.repeated

FoundPaths ==
  /\ paths \in Seq(Seq(Package))
  /\ \A i \in 1 .. Len(paths) : Shortest(paths[i])
  /\ \A i, j \in 1 .. Len(paths) :
       paths[i][1] = paths[j][1] => i = j \/ paths[i][1] \in graph.repeated

\* Neither due again nor done with, unless listed twice.
Due(s) == s \in Elems(starts) \cup Used => s \in graph.repeated

Early == pc \in {"scan", "runtime", "dev", "ask"}

\* The searches start with one root after the other; none has a path yet or is
\* searched from again but one that is listed twice.
PathInv ==
  /\ lock # NoLock => Apart(graph)
  /\ Early => starts = << >> /\ paths = << >>
  /\ starts # << >> \/ pc = "walk" => lock # NoLock
  /\ StartsInv /\ FoundPaths
  /\ pc = "walk" => \E s \in Roots : Due(s) /\ Ways(s)

LEMMA GraphParts ==
  ASSUME GraphInv, lock # NoLock
  PROVE  /\ graph.edges \in [Package -> SUBSET Package]
         /\ graph.root \in SUBSET Package /\ graph.rootDev \in SUBSET Package
BY DEF GraphInv, ScanInv, GraphOf, Graph

LEMMA NoStarts ==
  ASSUME starts = << >>
  PROVE  StartsInv
BY DEF StartsInv, Once, Elems

LEMMA NoPaths ==
  ASSUME paths = << >>
  PROVE  FoundPaths /\ Used = {}
BY DEF FoundPaths, Used

LEMMA TailOnce ==
  ASSUME NEW T, NEW q \in Seq(Package), q # << >>, Once(q, T)
  PROVE  Once(Tail(q), T) /\ (Head(q) \in Elems(Tail(q)) => Head(q) \in T)
<1>1. /\ Tail(q) \in Seq(Package) /\ Len(q) \in Nat \ {0} /\ Len(Tail(q)) = Len(q) - 1
      /\ Head(q) = q[1] /\ \A i \in 1 .. Len(q) - 1 : Tail(q)[i] = q[i + 1]
  BY HeadTailProperties
<1>2. Once(Tail(q), T)
  <2> SUFFICES ASSUME NEW i \in 1 .. Len(q) - 1, NEW j \in 1 .. Len(q) - 1, Tail(q)[i] = Tail(q)[j]
               PROVE  i = j \/ Tail(q)[i] \in T
    BY <1>1 DEF Once
  <2>1. /\ q[i + 1] = q[j + 1] /\ i + 1 \in 1 .. Len(q) /\ j + 1 \in 1 .. Len(q)
        /\ Tail(q)[i] = q[i + 1]
    BY <1>1
  <2>2. i + 1 = j + 1 \/ q[i + 1] \in T
    BY <2>1 DEF Once
  <2> QED BY <1>1, <2>2
<1>3. ASSUME Head(q) \in Elems(Tail(q)) PROVE Head(q) \in T
  <2>1. PICK i \in 1 .. Len(q) - 1 : Tail(q)[i] = Head(q)
    BY <1>1, <1>3 DEF Elems
  <2>2. q[i + 1] = q[1] /\ i + 1 \in 1 .. Len(q) /\ 1 \in 1 .. Len(q)
    BY <1>1, <2>1
  <2>3. i + 1 = 1 \/ q[i + 1] \in T
    BY <2>2 DEF Once
  <2> QED BY <1>1, <2>2, <2>3
<1> QED BY <1>2, <1>3

LEMMA ConcatOnce ==
  ASSUME NEW T, NEW q \in Seq(Package), NEW r \in Seq(Package), Once(q, T), Once(r, T),
         Elems(q) \cap Elems(r) = {}
  PROVE  Once(q \o r, T)
<1> DEFINE v == q \o r
<1>1. /\ Len(q) \in Nat /\ Len(r) \in Nat /\ Len(v) = Len(q) + Len(r)
      /\ \A i \in 1 .. Len(q) : v[i] = q[i]
      /\ \A i \in 1 .. Len(r) : v[Len(q) + i] = r[i]
  OBVIOUS
<1> HIDE DEF v
<1>2. ASSUME NEW i \in 1 .. Len(v), i > Len(q)
      PROVE  v[i] = r[i - Len(q)] /\ i - Len(q) \in 1 .. Len(r)
  <2>1. i - Len(q) \in 1 .. Len(r) /\ Len(q) + (i - Len(q)) = i
    BY <1>1, <1>2
  <2> QED BY <1>1, <2>1
<1>3. ASSUME NEW i \in 1 .. Len(q), NEW j \in 1 .. Len(r) PROVE q[i] # r[j]
  <2>1. q[i] \in Elems(q) /\ r[j] \in Elems(r)
    BY DEF Elems
  <2> QED BY <2>1
<1>4. ASSUME NEW i \in 1 .. Len(v), NEW j \in 1 .. Len(v), v[i] = v[j] PROVE i = j \/ v[i] \in T
  <2>1. CASE i <= Len(q) /\ j <= Len(q)
    <3>1. i \in 1 .. Len(q) /\ j \in 1 .. Len(q) /\ q[i] = q[j] /\ v[i] = q[i]
      BY <1>1, <1>4, <2>1
    <3> QED BY <3>1 DEF Once
  <2>2. CASE i > Len(q) /\ j > Len(q)
    <3>1. i - Len(q) = j - Len(q) \/ v[i] \in T
      BY <1>2, <1>4, <2>2 DEF Once
    <3> QED BY <1>1, <3>1
  <2>3. CASE i <= Len(q) /\ j > Len(q)
    <3>1. i \in 1 .. Len(q) /\ v[i] = q[i]
      BY <1>1, <2>3
    <3> QED BY <1>2, <1>3, <1>4, <2>3, <3>1
  <2>4. CASE i > Len(q) /\ j <= Len(q)
    <3>1. j \in 1 .. Len(q) /\ v[j] = q[j]
      BY <1>1, <2>4
    <3> QED BY <1>2, <1>3, <1>4, <2>4, <3>1
  <2> QED BY <1>1, <2>1, <2>2, <2>3, <2>4
<1> QED BY <1>4 DEF Once, v

\* One more path, from a root that has none or is listed twice.
LEMMA OnePath ==
  ASSUME FoundPaths, NEW p \in Seq(Package), Shortest(p), p[1] \in Used => p[1] \in graph.repeated,
         paths' = Append(paths, p), graph' = graph
  PROVE  FoundPaths' /\ Used' = Used \cup {p[1]}
<1>1. paths \in Seq(Seq(Package)) /\ Len(paths) \in Nat
  BY DEF FoundPaths
<1>2. /\ paths' \in Seq(Seq(Package)) /\ Len(paths') = Len(paths) + 1
      /\ \A i \in 1 .. Len(paths) : paths'[i] = paths[i]
      /\ paths'[Len(paths) + 1] = p
  BY <1>1, AppendProperties
<1>3. \A i \in 1 .. Len(paths') : i \in 1 .. Len(paths) \/ i = Len(paths) + 1
  BY <1>1, <1>2
<1>4. \A i \in 1 .. Len(paths) : paths[i][1] \in Used
  BY DEF Used
<1>5. Used' = Used \cup {p[1]}
  <2>1. Used' = {paths'[i][1] : i \in 1 .. Len(paths')}
    BY DEF Used
  <2>2. Used' \subseteq Used \cup {p[1]}
    BY <1>2, <1>3, <1>4, <2>1
  <2>3. p[1] \in Used'
    BY <1>1, <1>2, <2>1
  <2>4. ASSUME NEW i \in 1 .. Len(paths) PROVE paths[i][1] \in Used'
    BY <1>1, <1>2, <2>1
  <2> QED BY <2>2, <2>3, <2>4 DEF Used
<1>6. \A i \in 1 .. Len(paths') : Shortest(paths'[i])
  BY <1>2, <1>3 DEF FoundPaths
<1>7. \A i \in 1 .. Len(paths') : Shortest(paths[i])'
  BY <1>6 DEF Shortest
<1>8. \A i, j \in 1 .. Len(paths') :
        paths'[i][1] = paths'[j][1] => i = j \/ paths'[i][1] \in graph.repeated
  BY <1>2, <1>3, <1>4 DEF FoundPaths
<1> QED BY <1>2, <1>5, <1>7, <1>8 DEF FoundPaths

LEMMA PathInit == Init => PathInv
<1> SUFFICES ASSUME Init PROVE PathInv
  OBVIOUS
<1>1. starts = << >> /\ paths = << >> /\ lock = NoLock /\ pc = "scan"
  BY DEF Init
<1> QED BY <1>1, NoStarts, NoPaths DEF PathInv

\* What the paths found say does not change with the scan's other variables.
LEMMA PathsKept ==
  ASSUME graph' = graph, paths' = paths
  PROVE  /\ Roots' = Roots /\ Used' = Used
         /\ FoundPaths => FoundPaths'
BY DEF Roots, Used, FoundPaths, Shortest

LEMMA StartsKept ==
  ASSUME graph' = graph, paths' = paths, starts' = starts, StartsInv
  PROVE  StartsInv'
BY PathsKept DEF StartsInv, Once, Elems

LEMMA PathQuiet ==
  ASSUME PathInv, UNCHANGED <<scanVars, starts, paths>>, pc' # "walk", Early' => Early
  PROVE  PathInv'
<1>1. graph' = graph /\ lock' = lock /\ paths' = paths /\ starts' = starts
  BY DEF scanVars
<1>2. StartsInv' /\ FoundPaths'
  BY <1>1, PathsKept, StartsKept DEF PathInv
<1>3. lock' # NoLock => Apart(graph')
  BY <1>1 DEF PathInv
<1>4. Early' => starts' = << >> /\ paths' = << >>
  BY <1>1 DEF PathInv
<1>5. starts' # << >> \/ pc' = "walk" => lock' # NoLock
  BY <1>1 DEF PathInv
<1> QED BY <1>2, <1>3, <1>4, <1>5 DEF PathInv, Apart

LEMMA PathStutter == PathInv /\ UNCHANGED vars => PathInv'
<1> SUFFICES ASSUME PathInv, UNCHANGED vars PROVE PathInv'
  OBVIOUS
<1>1. /\ graph' = graph /\ lock' = lock /\ paths' = paths /\ starts' = starts
      /\ pc' = pc /\ way' = way /\ queue' = queue
  BY DEF vars, scanVars, pathVars
<1>2. CASE pc # "walk"
  BY <1>1, <1>2, PathQuiet DEF Early, vars
<1>3. CASE pc = "walk"
  <2>1. StartsInv' /\ FoundPaths' /\ Roots' = Roots /\ Used' = Used
    BY <1>1, PathsKept, StartsKept DEF PathInv
  <2>2. PICK s \in Roots : Due(s) /\ Ways(s)
    BY <1>3 DEF PathInv
  <2>3. Ways(s)'
    BY <1>1, <2>2 DEF Ways, Walked, Elems, IsWay, IsChain
  <2>4. s \in Roots' /\ Due(s)'
    BY <1>1, <2>1, <2>2 DEF Due, Elems
  <2> QED BY <1>1, <1>3, <2>1, <2>3, <2>4 DEF PathInv, Early, Apart
<1> QED BY <1>2, <1>3

LEMMA PathRead == GraphInv /\ PathInv /\ Read => PathInv'
<1> SUFFICES ASSUME GraphInv, PathInv, Read PROVE PathInv'
  OBVIOUS
<1> DEFINE l == Head(locks)
<1>1. pc = "scan" /\ pc' = "scan" /\ starts' = starts /\ paths' = paths /\ locks # << >>
  BY DEF Read, pathVars
<1>2. starts' = << >> /\ paths' = << >>
  BY <1>1 DEF PathInv, Early
<1>3. StartsInv' /\ FoundPaths'
  BY <1>2, NoStarts, NoPaths DEF StartsInv, Once, Elems, FoundPaths, Shortest, Used, Roots
<1>4. lock' # NoLock => Apart(graph')
  <2>1. CASE UNCHANGED <<lock, graph>>
    BY <2>1 DEF PathInv
  <2>2. CASE graph' \in loadGraph(l) /\ lock' = l
    <3>1. l \in LockFile /\ Resolved(l)
      BY <1>1 DEF GraphInv, ScanInv
    <3> QED BY <2>2, <3>1, RootsApart
  <2> QED BY <2>1, <2>2 DEF Read
<1> QED BY <1>1, <1>2, <1>3, <1>4 DEF PathInv, Early, Apart

LEMMA PathStarts == GraphInv /\ PathInv /\ PathsTo => PathInv'
<1> SUFFICES ASSUME GraphInv, PathInv, PathsTo PROVE PathInv'
  OBVIOUS
<1>1. /\ graph' = graph /\ lock' = lock /\ paths' = paths /\ pc = "ask" /\ pc' = "paths"
      /\ paths = << >>
  BY DEF PathsTo, scanVars, PathInv, Early
<1>2. FoundPaths' /\ Used' = {} /\ Roots' = Roots
  BY <1>1, PathsKept, NoPaths DEF PathInv
<1>3. CASE has /\ graph.hasEdges /\ graph.rootKnown
  <2>1. PICK r \in Lists(graph.root, graph.repeated), d \in Lists(graph.rootDev, graph.repeated) :
          starts' = r \o d
    BY <1>3 DEF PathsTo
  <2>2. lock # NoLock
    BY <1>3 DEF has
  <2>3. graph.root \in SUBSET Package /\ graph.rootDev \in SUBSET Package /\ Apart(graph)
    BY <2>2, GraphParts DEF PathInv
  <2>4. /\ r \in Seq(Package) /\ Elems(r) = graph.root /\ Once(r, graph.repeated)
        /\ d \in Seq(Package) /\ Elems(d) = graph.rootDev /\ Once(d, graph.repeated)
    BY <2>3, ListsOf DEF Once
  <2>5. starts' \in Seq(Package) /\ Elems(starts') = Roots /\ Once(starts', graph.repeated)
    BY <2>1, <2>3, <2>4, Concat, ConcatOnce DEF Apart, Roots
  <2>6. StartsInv'
    BY <1>1, <1>2, <2>5 DEF StartsInv, Once, Elems
  <2> QED BY <1>1, <1>2, <2>2, <2>3, <2>6 DEF PathInv, Early, Apart
<1>4. CASE ~(has /\ graph.hasEdges /\ graph.rootKnown)
  <2>1. starts' = << >>
    BY <1>4 DEF PathsTo
  <2>2. StartsInv'
    BY <2>1 DEF StartsInv, Once, Elems
  <2> QED BY <1>1, <1>2, <2>1, <2>2 DEF PathInv, Early, Apart
<1> QED BY <1>3, <1>4

LEMMA PathNextStart == GraphInv /\ PathInv /\ NextStart => PathInv'
<1> SUFFICES ASSUME GraphInv, PathInv, NextStart PROVE PathInv'
  OBVIOUS
<1>0. starts \in Seq(Package) /\ starts # << >>
  BY DEF NextStart, PathInv, StartsInv
<1>9. PICK s \in Package : s = Head(starts)
  BY <1>0, HeadTail
<1>1. /\ graph' = graph /\ lock' = lock /\ pc = "paths" /\ starts # << >> /\ starts' = Tail(starts)
      /\ Roots' = Roots
  BY DEF NextStart, scanVars, Roots
<1>2. lock # NoLock /\ Apart(graph) /\ StartsInv /\ FoundPaths
  BY <1>1 DEF PathInv
<1>3. /\ s \in Package /\ starts' \in Seq(Package) /\ Elems(starts) = {s} \cup Elems(starts')
      /\ Once(starts', graph.repeated) /\ (s \in Elems(starts') => s \in graph.repeated)
  BY <1>9, <1>1, <1>2, HeadTail, TailOnce DEF StartsInv
<1>4. /\ s \in Roots /\ (s \in Used => s \in graph.repeated)
      /\ Elems(starts') \subseteq Roots /\ Elems(starts') \cap Used \subseteq graph.repeated
  BY <1>2, <1>3 DEF StartsInv
<1>5. Once(starts, graph.repeated)' /\ Elems(starts)' = Elems(starts')
  BY <1>1, <1>3 DEF Once, Elems
<1>6. CASE s = Wanted
  <2>1. paths' = Append(paths, <<Wanted>>) /\ pc' = pc
    BY <1>9, <1>6 DEF NextStart
  <2> DEFINE p == <<Wanted>>
  <2>2. p \in Seq(Package) /\ Len(p) = 1 /\ p[1] = Wanted
    OBVIOUS
  <2>3. Shortest(p)
    <3> HIDE DEF p
    <3>1. 1 .. Len(p) - 1 = {}
      BY <2>2
    <3> QED BY <1>4, <1>6, <2>2, <3>1 DEF Shortest, ShortestIn, ChainIn, Roots
  <2>4. FoundPaths' /\ Used' = Used \cup {s}
    <3> HIDE DEF p
    <3>1. paths' = Append(paths, p) /\ p[1] = s
      BY <1>6, <2>1, <2>2 DEF p
    <3> QED BY <1>1, <1>2, <1>4, <2>2, <2>3, <3>1, OnePath
  <2>5. StartsInv'
    BY <1>1, <1>3, <1>4, <1>5, <2>4 DEF StartsInv
  <2> QED BY <1>1, <1>2, <2>1, <2>4, <2>5 DEF PathInv, Early, Apart
<1>7. CASE s # Wanted
  <2>1. /\ queue' = <<s>> /\ way' = [NoWay EXCEPT ![s] = <<s>>] /\ pc' = "walk" /\ paths' = paths
    BY <1>9, <1>7 DEF NextStart
  <2>2. FoundPaths' /\ Used' = Used
    BY <1>1, <1>2, <2>1, PathsKept
  <2>3. StartsInv'
    BY <1>1, <1>3, <1>4, <1>5, <2>2 DEF StartsInv
  <2>4. /\ way' \in [Package -> Seq(Package)] /\ way'[s] = <<s>>
        /\ \A x \in Package : x # s => way'[x] = << >>
        /\ queue' \in Seq(Package) /\ Len(queue') = 1 /\ queue'[1] = s
        /\ Elems(queue') = {s}
    <3>1. NoWay \in [Package -> Seq(Package)] /\ \A x \in Package : NoWay[x] = << >>
      BY DEF NoWay
    <3>2. <<s>> \in Seq(Package)
      OBVIOUS
    <3>3. /\ way' \in [Package -> Seq(Package)] /\ way'[s] = <<s>>
          /\ \A x \in Package : x # s => way'[x] = << >>
      <4> HIDE DEF NoWay
      <4> QED BY <2>1, <3>1, <3>2
    <3>4. queue' \in Seq(Package) /\ Len(queue') = 1 /\ queue'[1] = s /\ DOMAIN queue' = {1}
      BY <2>1
    <3> QED BY <3>3, <3>4 DEF Elems
  <2>5. Walked' = {s}
    <3>1. Walked' = {x \in Package : way'[x] # << >>}
      BY DEF Walked
    <3>2. way'[s] # << >>
      BY <2>4
    <3> QED BY <1>3, <2>4, <3>1, <3>2
  <2>6. IsWay(way[s], s, s)'
    <3> DEFINE w == <<s>>
    <3>1. w \in Seq(Package) /\ w # << >> /\ Len(w) = 1 /\ w[1] = s
      BY <1>3
    <3> HIDE DEF w
    <3>2. 1 .. Len(w) - 1 = {}
      BY <3>1
    <3>3. way'[s] = w
      BY <2>4 DEF w
    <3> QED BY <3>1, <3>2, <3>3 DEF IsWay, IsChain
  <2>7. Ways(s)'
    <3>1. Len(way'[s]) = 1
      BY <2>4
    <3> DEFINE Far(x) == Len(way'[x])
    <3>2. \A i, j \in 1 .. Len(queue') : i <= j => Far(queue'[i]) <= Far(queue'[j])
      BY <2>4, <3>1
    <3>3. \A x \in Walked' : \A i \in 1 .. Len(queue') : Far(x) <= Far(queue'[i]) + 1
      BY <2>4, <2>5, <3>1
    <3>4. Walked' \ Elems(queue') = {}
      BY <2>4, <2>5
    <3>5. Elems(queue') \subseteq Walked' /\ Wanted \notin Walked'
      BY <1>7, <2>4, <2>5
    <3>6. \A x \in Walked' : x = s
      BY <2>5
    <3> QED BY <1>3, <2>4, <2>6, <3>2, <3>3, <3>4, <3>5, <3>6 DEF Ways
  <2>8. s \in Roots' /\ Due(s)'
    BY <1>1, <1>3, <1>4, <1>5, <2>2 DEF Due
  <2> QED BY <1>1, <1>2, <2>1, <2>2, <2>3, <2>7, <2>8 DEF PathInv, Early, Apart
<1> QED BY <1>6, <1>7

LEMMA PathWalk == GraphInv /\ PathInv /\ Walk => PathInv'
<1> SUFFICES ASSUME GraphInv, PathInv, Walk PROVE PathInv'
  OBVIOUS
<1>1. /\ graph' = graph /\ lock' = lock /\ starts' = starts /\ pc = "walk" /\ queue # << >>
      /\ Roots' = Roots
  BY DEF Walk, Walks, scanVars, Roots
<1>2. lock # NoLock /\ Apart(graph) /\ StartsInv /\ FoundPaths
  BY <1>1 DEF PathInv
<1>3. PICK s \in Roots : Due(s) /\ Ways(s)
  BY <1>1 DEF PathInv
<1>4. graph.edges \in [Package -> SUBSET Package]
  BY <1>2, GraphParts
<1>5. PICK cur \in Package : cur = Head(queue)
  BY <1>1, <1>3, HeadTail DEF Ways
<1>6. PICK fresh : fresh = graph.edges[cur] \ Walked
  OBVIOUS
<1>7. CASE Wanted \in fresh
  <2> DEFINE p == Append(way[cur], Wanted)
  <2>1. paths' = Append(paths, p) /\ pc' = "paths"
    BY <1>5, <1>6, <1>7 DEF Walk, BackToPaths
  <2>2. IsWay(way[cur], s, cur) /\ way[cur] \in Seq(Package)
    <3>1. cur \in Elems(queue)
      BY <1>1, <1>3, <1>5, HeadTail DEF Ways
    <3> QED BY <1>3, <3>1 DEF Ways, IsWay
  <2>3. IsWay(p, s, Wanted) /\ Len(p) = Len(way[cur]) + 1
    BY <1>6, <1>7, <2>2, OneMore
  <2>4. p \in Seq(Package) /\ p[1] = s /\ p[Len(p)] = Wanted /\ ChainIn(graph, p)
    <3> HIDE DEF p
    <3> QED BY <2>3 DEF IsWay, IsChain, ChainIn
  <2>5. ASSUME NEW n \in 1 .. Len(p) - 1, NEW q \in [1 .. n -> Package],
               q[1] = s, q[n] = Wanted, ChainIn(graph, q)
        PROVE  FALSE
    <3>1. Len(way[cur]) \in Nat
      BY <2>2
    <3>2. n \in Nat \ {0} /\ n <= Len(way[Head(queue)]) /\ Len(q) = n
      BY <1>5, <2>3, <3>1
    <3>3. \A i \in 1 .. n - 1 : q[i + 1] \in graph.edges[q[i]]
      BY <2>5, <3>2 DEF ChainIn
    <3>4. q[n] \in Walked
      BY <1>1, <1>3, <1>4, <2>5, <3>2, <3>3, Near
    <3> QED BY <1>3, <2>5, <3>4 DEF Ways
  <2> HIDE DEF p
  <2>6. Shortest(p)
    BY <1>3, <2>4, <2>5 DEF Shortest, ShortestIn, Roots
  <2>7. FoundPaths' /\ Used' = Used \cup {s}
    BY <1>1, <1>2, <1>3, <2>1, <2>4, <2>6, OnePath DEF Due
  <2>8. /\ Elems(starts') = Elems(starts) /\ Elems(starts) \cap Used \subseteq graph.repeated
        /\ s \in Elems(starts) => s \in graph.repeated
    BY <1>1, <1>2, <1>3 DEF StartsInv, Due
  <2>9. StartsInv'
    BY <1>1, <1>2, <2>7, <2>8 DEF StartsInv, Once, Elems
  <2> QED BY <1>1, <1>2, <2>1, <2>7, <2>9 DEF PathInv, Early, Apart
<1>8. CASE Wanted \notin fresh
  <2>1. PICK r \in Orders(fresh) : queue' = Tail(queue) \o r
    BY <1>5, <1>6, <1>8 DEF Walk
  <2>2. /\ way' = [x \in Package |-> IF x \in fresh THEN Append(way[cur], x) ELSE way[x]]
        /\ pc' = pc /\ paths' = paths
    BY <1>5, <1>6, <1>8 DEF Walk
  <2>3. Onward(s, fresh, r)
    BY <1>1, <1>3, <1>4, <1>5, <1>6, <1>8, <2>1, <2>2 DEF Onward
  <2>4. Ways(s)'
    BY <2>3, WalkOn
  <2>5. FoundPaths' /\ Used' = Used /\ StartsInv'
    BY <1>1, <1>2, <2>2, PathsKept, StartsKept
  <2>6. s \in Roots' /\ Due(s)'
    BY <1>1, <1>3, <2>5 DEF Due, Elems
  <2> QED BY <1>1, <1>2, <2>2, <2>4, <2>5, <2>6 DEF PathInv, Early, Apart
<1> QED BY <1>7, <1>8

LEMMA PathRest ==
  PathInv /\ (DevOnly \/ Expand \/ Found \/ NotFound \/ NoPath \/ Done) => PathInv'
<1> SUFFICES ASSUME PathInv, DevOnly \/ Expand \/ Found \/ NotFound \/ NoPath \/ Done
             PROVE  PathInv'
  OBVIOUS
<1>1. /\ UNCHANGED <<scanVars, starts, paths>> /\ pc' # "walk"
      /\ Early' => Early
  <2>1. CASE DevOnly
    BY <2>1 DEF DevOnly, Search, Conclude, pathVars, Early
  <2>2. CASE Expand \/ Found \/ NotFound
    BY <2>2 DEF Expand, Found, NotFound, Gives, Searching, Search, Conclude, pathVars, Early
  <2>3. CASE NoPath
    BY <2>3 DEF NoPath, BackToPaths, Early
  <2>4. CASE Done
    BY <2>4 DEF Done, pathVars, Early
  <2> QED BY <2>1, <2>2, <2>3, <2>4
<1> QED BY <1>1, PathQuiet

LEMMA PathStep == GraphInv /\ PathInv /\ [Next]_vars => PathInv'
<1> SUFFICES ASSUME GraphInv, PathInv, [Next]_vars PROVE PathInv'
  OBVIOUS
<1>1. CASE Read
  BY <1>1, PathRead
<1>2. CASE PathsTo
  BY <1>2, PathStarts
<1>3. CASE NextStart
  BY <1>3, PathNextStart
<1>4. CASE Walk
  BY <1>4, PathWalk
<1>5. CASE DevOnly \/ Expand \/ Found \/ NotFound \/ NoPath \/ Done
  BY <1>5, PathRest
<1>6. CASE UNCHANGED vars
  BY <1>6, PathStutter
<1> QED BY <1>1, <1>2, <1>3, <1>4, <1>5, <1>6 DEF Next

LEMMA PathInvariant == Spec => [](GraphInv /\ PathInv)
<1>1. Init => GraphInv /\ PathInv
  BY InitInv, PathInit
<1>2. GraphInv /\ PathInv /\ [Next]_vars => (GraphInv /\ PathInv)'
  BY StepInv, PathStep
<1> QED BY <1>1, <1>2, PTL DEF Spec

\* In every graph, whatever cycles it has and in whatever order its edges come,
\* every path is one and none from the same direct dependency is shorter; two
\* start at one direct dependency only if the manifest declares it twice, as
\* pyRootFromManifest lists it then (lockgraph.go:103-147, 726-727).
THEOREM PathsAreAlwaysShortest == Spec => []PathsAreShortest
<1>1. PathInv => PathsAreShortest
  <2> SUFFICES ASSUME PathInv, NEW i \in 1 .. Len(paths)
               PROVE  LET p == paths[i]
                      IN /\ p[1] \in graph.root \cup graph.rootDev /\ p[Len(p)] = Wanted
                         /\ IsChain(p)
                         /\ \A n \in 1 .. Len(p) - 1 : \A q \in [1 .. n -> Package] :
                              ~(q[1] = p[1] /\ q[n] = Wanted /\ IsChain(q))
                         /\ \A j \in 1 .. i - 1 : paths[j][1] = p[1] => p[1] \in graph.repeated
    BY DEF PathsAreShortest
  <2>1. ShortestIn(graph, paths[i])
    BY DEF PathInv, FoundPaths, Shortest
  <2>2. \A j \in 1 .. i - 1 : paths[j][1] = paths[i][1] => paths[i][1] \in graph.repeated
    <3>1. \A j \in 1 .. i - 1 : j \in 1 .. Len(paths) /\ j # i
      BY DEF PathInv, FoundPaths
    <3> QED BY <3>1 DEF PathInv, FoundPaths
  <2>3. \A q : ChainIn(graph, q) <=> IsChain(q)
    BY DEF ChainIn, IsChain
  <2> QED BY <2>1, <2>2, <2>3 DEF ShortestIn
<1> QED BY <1>1, PathInvariant, PTL

-----------------------------------------------------------------------------
(* No root is passed over.                                                 *)

Answers == has /\ graph.hasEdges /\ graph.rootKnown

NoWayFrom(r) ==
  \/ Wanted \notin Reachable(graph.edges, {r})
  \/ Cardinality(Reachable(graph.edges, {r})) > PathLimit

\* Every root is still to come, has a path, has none that could be found, or
\* is the one the search is under way from.
AskedInv ==
  /\ Answers /\ pc \in {"paths", "walk", "done"} =>
       \A r \in Roots :
         r \in Elems(starts) \cup Used \/ NoWayFrom(r) \/ (pc = "walk" /\ Ways(r))
  /\ pc = "done" => starts = << >> \/ Len(paths) >= MaxPaths

\* There is one search at a time.
LEMMA OneSearch ==
  ASSUME NEW r, NEW s, Ways(r), Ways(s)
  PROVE  r = s
<1>1. r \in Package /\ way[r] = <<r>> /\ way[r] # << >>
  BY DEF Ways
<1>2. r \in Walked
  BY <1>1 DEF Walked
<1>3. way[r][1] = s
  BY <1>2 DEF Ways, IsWay
<1> QED BY <1>1, <1>3

\* A chain does not leave a closed set.
LEMMA ChainStays ==
  ASSUME NEW S, NEW edges, Closed(edges, S),
         NEW w \in Seq(Package), w # << >>, w[1] \in S,
         \A i \in 1 .. Len(w) - 1 : w[i + 1] \in edges[w[i]]
  PROVE  w[Len(w)] \in S
<1> DEFINE Bad == {k \in 1 .. Len(w) : w[k] \notin S}
<1>0. Len(w) \in Nat \ {0}
  OBVIOUS
<1>1. SUFFICES ASSUME Bad # {} PROVE FALSE
  BY <1>0
<1>2. Bad \subseteq Nat
  BY <1>0
<1>3. PICK k \in Bad : \A j \in Bad : ~(<<j, k>> \in OpToRel(<, Nat))
  <2> HIDE DEF Bad
  <2> QED BY <1>1, <1>2, WFMin, NatLessThanWellFounded, Zenon
<1>4. k \in 1 .. Len(w) /\ w[k] \notin S /\ \A j \in 1 .. Len(w) : j < k => w[j] \in S
  <2>1. \A j \in Bad : ~(j < k)
    <3> HIDE DEF Bad
    <3> QED BY <1>2, <1>3, Zenon DEF OpToRel
  <2> QED BY <2>1
<1>5. k - 1 \in 1 .. Len(w) - 1 /\ k - 1 \in 1 .. Len(w) /\ k - 1 < k
  BY <1>0, <1>4
<1>6. w[k - 1] \in S /\ w[(k - 1) + 1] \in edges[w[k - 1]] /\ (k - 1) + 1 = k
  BY <1>4, <1>5
<1> QED BY <1>4, <1>6 DEF Closed

\* What a search has come to can be reached from its start.
LEMMA WalkedReached ==
  ASSUME NEW s, Ways(s), graph.edges \in [Package -> SUBSET Package]
  PROVE  Walked \subseteq Reachable(graph.edges, {s})
<1> SUFFICES ASSUME NEW x \in Walked PROVE x \in Reachable(graph.edges, {s})
  OBVIOUS
<1>1. IsWay(way[x], s, x) /\ s \in Package
  BY DEF Ways
<1>2. Closed(graph.edges, Reachable(graph.edges, {s})) /\ s \in Reachable(graph.edges, {s})
  BY <1>1, ReachableClosed, ReachableStarts
<1> QED BY <1>1, <1>2, ChainStays DEF IsWay, IsChain

\* A search that ends without the wanted package could not find it.
LEMMA WalkMissed ==
  ASSUME NEW s, Ways(s), graph.edges \in [Package -> SUBSET Package], pc = "walk", ~Walks
  PROVE  NoWayFrom(s)
<1> DEFINE R == Reachable(graph.edges, {s})
<1>1. s \in Package /\ Walked \in SUBSET Package /\ Wanted \notin Walked /\ s \in Walked
  <2>1. s \in Package /\ way[s] = <<s>> /\ Wanted \notin Walked
    BY DEF Ways
  <2>2. way[s] # << >>
    BY <2>1
  <2> QED BY <2>1, <2>2 DEF Walked
<1>2. R \in SUBSET Package /\ Walked \subseteq R
  BY <1>1, ReachableStarts, WalkedReached
<1>3. CASE queue = << >>
  <2>1. Elems(queue) = {}
    BY <1>3 DEF Elems
  <2>2. Closed(graph.edges, Walked)
    BY <2>1 DEF Ways, Closed
  <2>3. R \subseteq Walked
    BY <1>1, <2>2, ReachableLeast
  <2> QED BY <1>1, <2>3 DEF NoWayFrom
<1>4. CASE ~(Cardinality(Walked) < PathLimit)
  <2> SUFFICES ASSUME Wanted \in R PROVE Cardinality(R) > PathLimit
    BY DEF NoWayFrom
  <2>1. IsFiniteSet(R) /\ IsFiniteSet(Walked)
    BY <1>1, <1>2, FS_Subset
  <2>2. IsFiniteSet(Walked \cup {Wanted}) /\ Cardinality(Walked \cup {Wanted}) = Cardinality(Walked) + 1
    BY <1>1, <2>1, FS_AddElement
  <2>3. Cardinality(Walked \cup {Wanted}) <= Cardinality(R)
    BY <1>2, <2>1, FS_Subset
  <2>4. Cardinality(Walked) \in Nat /\ Cardinality(R) \in Nat /\ PathLimit \in Nat
    BY <2>1, FS_CardinalityType, LimitAssumption
  <2> QED BY <1>4, <2>2, <2>3, <2>4
<1> QED BY <1>3, <1>4 DEF Walks

\* What is known of a root does not change with the lists around it.
LEMMA AskedKept ==
  ASSUME scanVars' = scanVars
  PROVE  Answers' = Answers /\ Roots' = Roots /\ \A r : NoWayFrom(r)' = NoWayFrom(r)
BY DEF scanVars, Answers, has, Roots, NoWayFrom

LEMMA AskedStarts == GraphInv /\ PathInv /\ PathsTo => AskedInv'
<1> SUFFICES ASSUME GraphInv, PathInv, PathsTo PROVE AskedInv'
  OBVIOUS
<1>1. Answers' = Answers /\ Roots' = Roots /\ pc' = "paths"
  BY AskedKept DEF PathsTo
<1>2. ASSUME Answers PROVE Elems(starts') = Roots
  <2>1. PICK r \in Lists(graph.root, graph.repeated), d \in Lists(graph.rootDev, graph.repeated) :
          starts' = r \o d
    BY <1>2 DEF PathsTo, Answers
  <2>2. graph.root \in SUBSET Package /\ graph.rootDev \in SUBSET Package
    BY <1>2, GraphParts DEF Answers, has
  <2>3. /\ r \in Seq(Package) /\ Elems(r) = graph.root
        /\ d \in Seq(Package) /\ Elems(d) = graph.rootDev
    BY <2>2, ListsOf
  <2> QED BY <2>1, <2>3, Concat DEF Roots
<1>3. Elems(starts)' = Elems(starts')
  BY DEF Elems
<1> QED BY <1>1, <1>2, <1>3 DEF AskedInv

LEMMA AskedNextStart == PathInv /\ PathInv' /\ AskedInv /\ NextStart => AskedInv'
<1> SUFFICES ASSUME PathInv, PathInv', AskedInv, NextStart PROVE AskedInv'
  OBVIOUS
<1>1. /\ starts \in Seq(Package) /\ starts # << >> /\ starts' = Tail(starts) /\ pc = "paths"
      /\ pc' \in {"paths", "walk"} /\ graph' = graph
  BY DEF NextStart, PathInv, StartsInv, scanVars
<1>2. Answers' = Answers /\ Roots' = Roots /\ \A r : NoWayFrom(r)' = NoWayFrom(r)
  BY AskedKept DEF NextStart
<1>3. PICK s \in Package : s = Head(starts) /\ Elems(starts) = {s} \cup Elems(starts')
  BY <1>1, HeadTail
<1>4. Elems(starts)' = Elems(starts')
  BY DEF Elems
<1>5. ASSUME s = Wanted PROVE Used \cup {s} \subseteq Used'
  <2>1. paths' = Append(paths, <<Wanted>>) /\ paths \in Seq(Seq(Package)) /\ <<Wanted>> \in Seq(Package)
    BY <1>3, <1>5 DEF NextStart, PathInv, FoundPaths
  <2>2. /\ Len(paths) \in Nat /\ Len(paths') = Len(paths) + 1 /\ paths'[Len(paths) + 1] = <<Wanted>>
        /\ \A i \in 1 .. Len(paths) : paths'[i] = paths[i]
    BY <2>1, AppendProperties
  <2>3. Used' = {paths'[i][1] : i \in 1 .. Len(paths')}
    BY DEF Used
  <2>4. paths'[Len(paths) + 1][1] = s /\ Len(paths) + 1 \in 1 .. Len(paths')
    BY <1>5, <2>2
  <2>5. \A i \in 1 .. Len(paths) : i \in 1 .. Len(paths')
    BY <2>2
  <2> QED BY <2>2, <2>3, <2>4, <2>5 DEF Used
<1>6. ASSUME s # Wanted PROVE Used' = Used /\ pc' = "walk" /\ Ways(s)'
  <2>1. paths' = paths /\ pc' = "walk" /\ way' = [NoWay EXCEPT ![s] = <<s>>]
    BY <1>3, <1>6 DEF NextStart
  <2>2. PICK r \in Roots' : Ways(r)'
    BY <2>1 DEF PathInv
  <2>3. r \in Package /\ way'[r] = <<r>>
    BY <2>2 DEF Ways
  <2>4. \A x \in Package : x # s => way'[x] = << >>
    BY <2>1 DEF NoWay
  <2>5. <<r>> # << >>
    OBVIOUS
  <2>6. r = s
    BY <2>3, <2>4, <2>5
  <2> QED BY <1>1, <2>1, <2>2, <2>6, PathsKept
<1>7. ASSUME NEW r \in Roots, Answers
      PROVE  r \in Elems(starts') \cup Used' \/ NoWayFrom(r) \/ (pc' = "walk" /\ Ways(r)')
  <2>1. r \in Elems(starts) \cup Used \/ NoWayFrom(r)
    BY <1>1, <1>7 DEF AskedInv
  <2>2. Used \subseteq Used'
    BY <1>5, <1>6
  <2> QED BY <1>3, <1>5, <1>6, <2>1, <2>2
<1> QED BY <1>1, <1>2, <1>4, <1>7 DEF AskedInv

LEMMA AskedWalk == GraphInv /\ PathInv /\ AskedInv /\ Walk => AskedInv'
<1> SUFFICES ASSUME GraphInv, PathInv, AskedInv, Walk PROVE AskedInv'
  OBVIOUS
<1>1. /\ pc = "walk" /\ queue # << >> /\ starts' = starts /\ pc' \in {"paths", "walk"} /\ graph' = graph
  BY DEF Walk, Walks, BackToPaths, scanVars
<1>2. Answers' = Answers /\ Roots' = Roots /\ \A r : NoWayFrom(r)' = NoWayFrom(r)
  BY AskedKept DEF Walk
<1>3. PICK s \in Roots : Due(s) /\ Ways(s)
  BY <1>1 DEF PathInv
<1>4. Elems(starts)' = Elems(starts)
  BY <1>1 DEF Elems
<1>5. graph.edges \in [Package -> SUBSET Package]
  BY <1>1, GraphParts DEF PathInv
<1>6. PICK cur \in Package : cur = Head(queue) /\ cur \in Elems(queue)
  BY <1>1, <1>3, HeadTail DEF Ways
<1>7. PICK fresh : fresh = graph.edges[cur] \ Walked
  OBVIOUS
<1>8. ASSUME Wanted \in fresh PROVE Used \cup {s} \subseteq Used'
  <2>1. PICK p \in Seq(Package) : p = Append(way[cur], Wanted) /\ p[1] = s
    <3>1. IsWay(way[cur], s, cur)
      BY <1>3, <1>6 DEF Ways
    <3> DEFINE p == Append(way[cur], Wanted)
    <3>2. IsWay(p, s, Wanted)
      BY <1>7, <1>8, <3>1, OneMore
    <3> HIDE DEF p
    <3>3. p \in Seq(Package) /\ p[1] = s
      BY <3>2 DEF IsWay
    <3> QED BY <3>3 DEF p
  <2>2. paths' = Append(paths, p) /\ paths \in Seq(Seq(Package))
    BY <1>6, <1>7, <1>8, <2>1 DEF Walk, PathInv, FoundPaths
  <2>3. /\ Len(paths) \in Nat /\ Len(paths') = Len(paths) + 1 /\ paths'[Len(paths) + 1] = p
        /\ \A i \in 1 .. Len(paths) : paths'[i] = paths[i]
    BY <2>2, AppendProperties
  <2>4. Used' = {paths'[i][1] : i \in 1 .. Len(paths')}
    BY DEF Used
  <2>5. paths'[Len(paths) + 1][1] = s /\ Len(paths) + 1 \in 1 .. Len(paths')
    BY <2>1, <2>3
  <2>6. \A i \in 1 .. Len(paths) : i \in 1 .. Len(paths')
    BY <2>3
  <2> QED BY <2>3, <2>4, <2>5, <2>6 DEF Used
<1>9. ASSUME Wanted \notin fresh PROVE Used' = Used /\ pc' = "walk" /\ Ways(s)'
  <2>1. PICK r \in Orders(fresh) : queue' = Tail(queue) \o r
    BY <1>6, <1>7, <1>9 DEF Walk
  <2>2. /\ way' = [x \in Package |-> IF x \in fresh THEN Append(way[cur], x) ELSE way[x]]
        /\ pc' = pc /\ paths' = paths
    BY <1>6, <1>7, <1>9 DEF Walk
  <2>3. Onward(s, fresh, r)
    BY <1>1, <1>3, <1>5, <1>6, <1>7, <1>9, <2>1, <2>2 DEF Onward
  <2> QED BY <1>1, <2>2, <2>3, WalkOn, PathsKept
<1>10. ASSUME NEW r \in Roots, Answers
       PROVE  r \in Elems(starts) \cup Used' \/ NoWayFrom(r) \/ (pc' = "walk" /\ Ways(r)')
  <2>1. r \in Elems(starts) \cup Used \/ NoWayFrom(r) \/ Ways(r)
    BY <1>1, <1>10 DEF AskedInv
  <2>2. Ways(r) => r = s
    BY <1>3, OneSearch
  <2>3. Used \subseteq Used'
    BY <1>8, <1>9
  <2> QED BY <1>8, <1>9, <2>1, <2>2, <2>3
<1> QED BY <1>1, <1>2, <1>4, <1>10 DEF AskedInv

LEMMA AskedNoPath == GraphInv /\ PathInv /\ AskedInv /\ NoPath => AskedInv'
<1> SUFFICES ASSUME GraphInv, PathInv, AskedInv, NoPath PROVE AskedInv'
  OBVIOUS
<1>1. pc = "walk" /\ ~Walks /\ pc' = "paths" /\ starts' = starts /\ paths' = paths /\ graph' = graph
  BY DEF NoPath, BackToPaths, scanVars
<1>2. Answers' = Answers /\ Roots' = Roots /\ \A r : NoWayFrom(r)' = NoWayFrom(r)
  BY AskedKept DEF NoPath
<1>3. graph.edges \in [Package -> SUBSET Package]
  BY <1>1, GraphParts DEF PathInv
<1>4. \A r : Ways(r) => NoWayFrom(r)
  BY <1>1, <1>3, WalkMissed
<1>5. Elems(starts)' = Elems(starts) /\ Used' = Used
  BY <1>1 DEF Elems, Used
<1> QED BY <1>1, <1>2, <1>4, <1>5 DEF AskedInv

LEMMA AskedDone == PathInv /\ AskedInv /\ Done => AskedInv'
<1> SUFFICES ASSUME PathInv, AskedInv, Done PROVE AskedInv'
  OBVIOUS
<1>1. pc = "paths" /\ pc' = "done" /\ starts' = starts /\ paths' = paths
      /\ (starts = << >> \/ Len(paths) >= MaxPaths)
  BY DEF Done, pathVars
<1>2. Answers' = Answers /\ Roots' = Roots /\ \A r : NoWayFrom(r)' = NoWayFrom(r)
  BY AskedKept DEF Done
<1>3. Elems(starts)' = Elems(starts) /\ Used' = Used
  BY <1>1 DEF Elems, Used
<1> QED BY <1>1, <1>2, <1>3 DEF AskedInv

LEMMA AskedRest ==
  AskedInv /\ (Read \/ DevOnly \/ Expand \/ Found \/ NotFound \/ UNCHANGED vars) => AskedInv'
<1> SUFFICES ASSUME AskedInv, Read \/ DevOnly \/ Expand \/ Found \/ NotFound \/ UNCHANGED vars
             PROVE  AskedInv'
  OBVIOUS
<1>1. CASE UNCHANGED vars
  <2>1. /\ scanVars' = scanVars /\ pc' = pc /\ starts' = starts /\ paths' = paths
        /\ way' = way /\ queue' = queue /\ graph' = graph
    BY <1>1 DEF vars, scanVars, pathVars
  <2>2. Answers' = Answers /\ Roots' = Roots /\ \A r : NoWayFrom(r)' = NoWayFrom(r)
    BY <2>1, AskedKept
  <2>3. \A r : Ways(r) => Ways(r)'
    BY <2>1 DEF Ways, Walked, Elems, IsWay, IsChain
  <2>4. Elems(starts)' = Elems(starts) /\ Used' = Used
    BY <2>1 DEF Elems, Used
  <2> QED BY <2>1, <2>2, <2>3, <2>4 DEF AskedInv
<1>2. CASE ~UNCHANGED vars
  <2>1. pc' \notin {"paths", "walk", "done"}
    BY <1>2 DEF Read, DevOnly, Expand, Found, NotFound, Search, Conclude, Gives, Searching
  <2> QED BY <2>1 DEF AskedInv
<1> QED BY <1>1, <1>2

\* The three paths a statement may cite are not a selection: whoever sees fewer
\* sees a path from every direct dependency that brings the package in, in
\* graphs no larger than the search's limit (lockgraph.go:103-147).
THEOREM NoRootIsEverPassedOver == Spec => []NoRootIsPassedOver
<1>1. Init => AskedInv
  BY DEF Init, AskedInv
<1>2. GraphInv /\ PathInv /\ PathInv' /\ AskedInv /\ [Next]_vars => AskedInv'
  BY AskedStarts, AskedNextStart, AskedWalk, AskedNoPath, AskedDone, AskedRest DEF Next
<1>3. PathInv /\ AskedInv => NoRootIsPassedOver
  <2> SUFFICES ASSUME PathInv, AskedInv, pc = "done", Answers, Len(paths) < MaxPaths,
                      NEW r \in Roots, ~NoWayFrom(r)
               PROVE  \E i \in 1 .. Len(paths) : paths[i][1] = r
    BY DEF NoRootIsPassedOver, Answers, Roots, NoWayFrom
  <2>1. Elems(starts) = {}
    <3>1. Len(paths) \in Nat /\ MaxPaths \in Nat
      BY LimitAssumption DEF PathInv, FoundPaths
    <3>2. starts = << >>
      BY <3>1 DEF AskedInv
    <3> QED BY <3>2 DEF Elems
  <2> QED BY <2>1 DEF AskedInv, Used
<1> QED BY <1>1, <1>2, <1>3, PathInvariant, PTL DEF Spec

-----------------------------------------------------------------------------
(* Types.                                                                  *)

\* What the invariants above leave open.
RestOK ==
  /\ pc \in {"scan", "runtime", "dev", "ask", "paths", "walk", "done"}
  /\ queue \in Seq(Package) /\ seen \subseteq Package
  /\ devOnly \in Verdict
  /\ way \in [Package -> Seq(Package)]

LEMMA NoWayType == NoWay \in [Package -> Seq(Package)] /\ << >> \in Seq(Package)
BY DEF NoWay

LEMMA ConcludeType ==
  ASSUME RestOK, NEW v \in Verdict, Conclude(v), way' = way
  PROVE  RestOK'
BY DEF RestOK, Conclude

LEMMA SearchType ==
  ASSUME RestOK, NEW stage \in {"runtime", "dev"}, NEW S \in SUBSET Package,
         Search(stage, S), way' = way, devOnly' = devOnly
  PROVE  RestOK'
BY ListsOf DEF RestOK, Search

LEMMA RestStep ==
  ASSUME GraphInv, PathInv, RestOK, PathInv', [Next]_vars
  PROVE  RestOK'
<1>1. CASE Read \/ PathsTo \/ Done \/ UNCHANGED vars
  BY <1>1 DEF Read, PathsTo, Done, vars, pathVars, RestOK
<1>2. CASE DevOnly
  <2>1. way' = way
    BY <1>2 DEF DevOnly, pathVars
  <2>2. CASE has /\ graph.devFlags
    BY <1>2, <2>1, <2>2, ConcludeType DEF DevOnly, Verdict
  <2>3. CASE ~(has /\ graph.devFlags) /\ has /\ graph.hasEdges /\ graph.rootKnown /\ graph.devSplit
    <3>1. graph.root \in SUBSET Package
      BY <2>3, GraphParts DEF has
    <3> QED BY <1>2, <2>1, <2>3, <3>1, SearchType DEF DevOnly
  <2>4. CASE ~(has /\ graph.devFlags) /\ ~(has /\ graph.hasEdges /\ graph.rootKnown /\ graph.devSplit)
    BY <1>2, <2>1, <2>4, ConcludeType DEF DevOnly, Verdict
  <2> QED BY <2>2, <2>3, <2>4
<1>3. CASE Expand
  <2>1. /\ lock # NoLock /\ queue # << >> /\ queue \in Seq(Package)
        /\ pc' = pc /\ devOnly' = devOnly /\ way' = way
    BY <1>3 DEF Expand, Gives, GraphInv, SearchInv, pathVars
  <2>2. Head(queue) \in Package /\ Tail(queue) \in Seq(Package)
    BY <2>1, HeadTail
  <2>3. graph.edges[Head(queue)] \in SUBSET Package
    BY <2>1, <2>2, GraphParts
  <2>4. queue' \in Seq(Package) /\ seen' \subseteq Package
    <3>1. CASE Head(queue) \in seen
      BY <1>3, <2>2, <3>1 DEF Expand, RestOK
    <3>2. CASE Head(queue) \notin seen
      <4>1. PICK q \in Orders(graph.edges[Head(queue)]) : queue' = Tail(queue) \o q
        BY <1>3, <3>2 DEF Expand
      <4>2. q \in Seq(Package)
        BY <2>3, <4>1, OrdersOf
      <4>3. queue' \in Seq(Package)
        BY <2>2, <4>1, <4>2, Concat
      <4> QED BY <1>3, <2>2, <3>2, <4>3 DEF Expand, RestOK
    <3> QED BY <3>1, <3>2
  <2> QED BY <2>1, <2>4 DEF RestOK
<1>4. CASE Found
  BY <1>4, ConcludeType DEF Found, Verdict, pathVars
<1>5. CASE NotFound
  <2>1. way' = way
    BY <1>5 DEF NotFound, pathVars
  <2>2. CASE pc = "runtime"
    <3>1. graph.rootDev \in SUBSET Package
      BY <1>5, GraphParts DEF NotFound, GraphInv, SearchInv
    <3> QED BY <1>5, <2>1, <2>2, <3>1, SearchType DEF NotFound
  <2>3. CASE pc # "runtime"
    BY <1>5, <2>1, <2>3, ConcludeType DEF NotFound, Verdict
  <2> QED BY <2>2, <2>3
<1>6. CASE NextStart \/ Walk
  <2>1. seen' = seen /\ devOnly' = devOnly /\ pc' \in {"paths", "walk"}
    BY <1>6 DEF NextStart, Walk, Walks, BackToPaths
  <2>2. CASE pc' = "walk"
    <3>1. way' \in [Package -> Seq(Package)] /\ queue' \in Seq(Package)
      BY <2>2 DEF PathInv, Ways
    <3> QED BY <2>1, <2>2, <3>1 DEF RestOK
  <2>3. CASE pc' # "walk"
    <3>1. /\ way' = NoWay \/ way' = way
          /\ queue' = << >> \/ queue' = queue
      BY <1>6, <2>1, <2>3 DEF NextStart, Walk, Walks, BackToPaths
    <3> QED BY <2>1, <3>1, NoWayType DEF RestOK
  <2> QED BY <2>2, <2>3
<1>7. CASE NoPath
  BY <1>7, NoWayType DEF NoPath, BackToPaths, RestOK
<1> QED BY <1>1, <1>2, <1>3, <1>4, <1>5, <1>6, <1>7 DEF Next

\* Every variable of a scan keeps its type, whatever the lockfiles say.
THEOREM TypeCorrect == Spec => []TypeOK
<1>1. Init => RestOK
  BY NoWayType DEF Init, RestOK, Verdict
<1>2. GraphInv /\ ChoiceInv /\ [Next]_vars => ChoiceInv'
  BY ChoiceRead, ChoiceRest, OnlyReadChooses
<1>3. GraphInv /\ PathInv /\ RestOK /\ PathInv' /\ [Next]_vars => RestOK'
  BY RestStep
<1>4. GraphInv /\ ChoiceInv /\ PathInv /\ RestOK => TypeOK
  <2> SUFFICES ASSUME GraphInv, ChoiceInv, PathInv, RestOK PROVE TypeOK
    OBVIOUS
  <2>1. lock \in LockFile \cup {NoLock} /\ IF lock = NoLock THEN graph = NoLock ELSE graph \in Graph
    BY DEF GraphInv, ScanInv, GraphOf
  <2>2. checkout \in Seq(LockFile) /\ locks \in Seq(LockFile)
    BY DEF ChoiceInv, LeftInv
  <2>3. starts \in Seq(Package) /\ paths \in Seq(Seq(Package))
    BY DEF PathInv, StartsInv, FoundPaths
  <2> QED BY <2>1, <2>2, <2>3 DEF RestOK, TypeOK
<1> QED BY <1>1, <1>2, <1>3, <1>4, ChoiceInit, PathInvariant, PTL DEF Spec

-----------------------------------------------------------------------------
(* The safety half of ScanEnds: no scan goes on for ever.                  *)

Less   == OpToRel(<, Nat)
Pair   == Nat \X Nat
Fewer  == LexPairOrdering(Less, Less, Nat, Nat)
Lower  == LexPairOrdering(Fewer, Fewer, Pair, Pair)

\* What is left of a scan: the stages to come; the lockfiles to read or the
\* roots to ask, and whether one of them is being asked; the packages a search
\* has not come to; the queue.
Stage ==
  CASE pc = "scan" -> 5 [] pc = "runtime" -> 4 [] pc = "dev" -> 3 [] pc = "ask" -> 2
    [] pc \in {"paths", "walk"} -> 1 [] OTHER -> 0
Jobs ==
  CASE pc = "scan" -> Len(locks) [] pc = "paths" -> 2 * Len(starts)
    [] pc = "walk" -> 2 * Len(starts) + 1 [] OTHER -> 0
Beyond == Cardinality(Package \ (IF pc = "walk" THEN Walked ELSE seen))
Rest   == <<<<Stage, Jobs>>, <<Beyond, Len(queue)>>>>

LeavesLess == <<Rest', Rest>> \in Lower

\* Such a rest cannot shrink for ever.
LEMMA LowerIsWellFounded == IsWellFoundedOn(Lower, Pair \X Pair)
<1>1. IsWellFoundedOn(Less, Nat)
  BY NatLessThanWellFounded DEF Less
<1>2. IsWellFoundedOn(Fewer, Pair)
  BY <1>1, WFLexPairOrdering DEF Fewer, Pair
<1> QED BY <1>2, WFLexPairOrdering DEF Lower

LEMMA LessThan ==
  ASSUME NEW m \in Nat, NEW n \in Nat, m < n
  PROVE  <<m, n>> \in Less
<1>1. <<m, n>> \in Nat \X Nat /\ <<m, n>>[1] < <<m, n>>[2]
  OBVIOUS
<1> QED BY <1>1, Zenon DEF Less, OpToRel

LEMMA LowerThan ==
  ASSUME NEW a \in Nat, NEW b \in Nat, NEW c \in Nat, NEW d \in Nat,
         NEW e \in Nat, NEW f \in Nat, NEW g \in Nat, NEW h \in Nat,
         \/ e < a
         \/ e = a /\ f < b
         \/ e = a /\ f = b /\ g < c
         \/ e = a /\ f = b /\ g = c /\ h < d
  PROVE  <<<<<<e, f>>, <<g, h>>>>, <<<<a, b>>, <<c, d>>>>>> \in Lower
<1>1. CASE e < a \/ (e = a /\ f < b)
  <2>1. <<<<e, f>>, <<a, b>>>> \in Fewer
    BY <1>1, LessThan DEF Fewer, LexPairOrdering
  <2> QED BY <2>1 DEF Lower, LexPairOrdering, Pair
<1>2. CASE e = a /\ f = b /\ (g < c \/ (g = c /\ h < d))
  <2>1. <<<<g, h>>, <<c, d>>>> \in Fewer
    BY <1>2, LessThan DEF Fewer, LexPairOrdering
  <2> QED BY <1>2, <2>1 DEF Lower, LexPairOrdering, Pair
<1> QED BY <1>1, <1>2

\* A search that comes to more packages has fewer of them before it.
LEMMA FewerBeyond ==
  ASSUME NEW S \in SUBSET Package, NEW T \in SUBSET Package
  PROVE  /\ Cardinality(Package \ S) \in Nat
         /\ S \subseteq T /\ S # T => Cardinality(Package \ T) < Cardinality(Package \ S)
<1>1. IsFiniteSet(Package \ S) /\ IsFiniteSet(Package \ T)
  BY FS_Subset
<1>2. Cardinality(Package \ S) \in Nat /\ Cardinality(Package \ T) \in Nat
  BY <1>1, FS_CardinalityType
<1>3. ASSUME S \subseteq T, S # T PROVE Cardinality(Package \ T) < Cardinality(Package \ S)
  <2>1. Package \ T \subseteq Package \ S /\ Package \ T # Package \ S
    BY <1>3
  <2>2. Cardinality(Package \ T) <= Cardinality(Package \ S)
    BY <1>1, <2>1, FS_Subset
  <2>3. Cardinality(Package \ T) # Cardinality(Package \ S)
    BY <1>1, <2>1, FS_Subset
  <2> QED BY <1>2, <2>2, <2>3
<1> QED BY <1>2, <1>3

ScanOK == GraphInv /\ PathInv /\ RestOK

Counts == Stage \in Nat /\ Jobs \in Nat /\ Beyond \in Nat /\ Len(queue) \in Nat

LEMMA RestType ==
  ASSUME ScanOK
  PROVE  /\ Counts
         /\ Len(locks) \in Nat /\ Len(starts) \in Nat
         /\ Walked \in SUBSET Package /\ seen \in SUBSET Package /\ queue \in Seq(Package)
<1>1. /\ locks \in Seq(LockFile) /\ starts \in Seq(Package) /\ queue \in Seq(Package)
      /\ seen \in SUBSET Package
  BY DEF ScanOK, GraphInv, ScanInv, PathInv, StartsInv, RestOK
<1>2. Len(locks) \in Nat /\ Len(starts) \in Nat /\ Len(queue) \in Nat
  BY <1>1
<1>3. Walked \in SUBSET Package
  BY DEF Walked
<1>4. Beyond \in Nat
  BY <1>1, <1>3, FewerBeyond DEF Beyond
<1> QED BY <1>1, <1>2, <1>3, <1>4 DEF Counts, Stage, Jobs

\* The two ends of a queue.
LEMMA Shorter ==
  ASSUME NEW T, NEW q \in Seq(T), q # << >>
  PROVE  Tail(q) \in Seq(T) /\ Len(Tail(q)) = Len(q) - 1 /\ Len(q) \in Nat /\ Len(Tail(q)) \in Nat
OBVIOUS

LEMMA NoOrders == \A q \in Orders({}) : q = << >>
<1> SUFFICES ASSUME NEW q \in Orders({}) PROVE q = << >>
  OBVIOUS
<1>1. q \in [1 .. 0 -> {}]
  BY FS_EmptySet DEF Orders
<1> QED BY <1>1

LEMMA ExpandLowers == ScanOK /\ Expand => <<Beyond', Beyond>> \in Less \/ (Beyond' = Beyond /\ <<Len(queue'), Len(queue)>> \in Less)
<1> SUFFICES ASSUME ScanOK, Expand
             PROVE  <<Beyond', Beyond>> \in Less \/ (Beyond' = Beyond /\ <<Len(queue'), Len(queue)>> \in Less)
  OBVIOUS
<1>1. pc' = pc /\ pc # "walk" /\ queue # << >> /\ queue \in Seq(Package) /\ seen \in SUBSET Package
  BY RestType DEF Expand, Gives, Searching
<1>2. Beyond = Cardinality(Package \ seen) /\ Beyond' = Cardinality(Package \ seen')
  BY <1>1 DEF Beyond
<1>3. CASE Head(queue) \in seen
  <2>1. queue' = Tail(queue) /\ seen' = seen
    BY <1>3 DEF Expand
  <2> QED BY <1>1, <1>2, <2>1, Shorter, LessThan
<1>4. CASE Head(queue) \notin seen
  <2>1. seen' = seen \cup {Head(queue)} /\ Head(queue) \in Package
    BY <1>1, <1>4, HeadTail DEF Expand
  <2>2. seen' \in SUBSET Package /\ seen \subseteq seen' /\ seen # seen'
    BY <1>1, <1>4, <2>1
  <2> QED BY <1>1, <1>2, <2>2, FewerBeyond, LessThan
<1> QED BY <1>3, <1>4

LEMMA WalkLowers ==
  ScanOK /\ Walk /\ pc' = "walk" =>
    <<Beyond', Beyond>> \in Less \/ (Beyond' = Beyond /\ <<Len(queue'), Len(queue)>> \in Less)
<1> SUFFICES ASSUME ScanOK, Walk, pc' = "walk"
             PROVE  <<Beyond', Beyond>> \in Less \/ (Beyond' = Beyond /\ <<Len(queue'), Len(queue)>> \in Less)
  OBVIOUS
<1>1. /\ pc = "walk" /\ queue # << >> /\ queue \in Seq(Package) /\ lock # NoLock
      /\ way \in [Package -> Seq(Package)]
  BY RestType DEF Walk, Walks, ScanOK, PathInv, RestOK
<1>2. Beyond = Cardinality(Package \ Walked) /\ Beyond' = Cardinality(Package \ Walked')
  BY <1>1 DEF Beyond
<1>3. PICK cur \in Package : cur = Head(queue)
  BY <1>1, HeadTail
<1>4. PICK fresh : fresh = graph.edges[cur] \ Walked
  OBVIOUS
<1>5. fresh \in SUBSET Package
  BY <1>1, <1>4, GraphParts DEF ScanOK
<1>6. PICK q \in Orders(fresh) :
        /\ queue' = Tail(queue) \o q
        /\ way' = [x \in Package |-> IF x \in fresh THEN Append(way[cur], x) ELSE way[x]]
  BY <1>3, <1>4 DEF Walk, BackToPaths
<1>7. Walked' = Walked \cup fresh
  <2>1. Walked' = {x \in Package : way'[x] # << >>}
    BY DEF Walked
  <2>2. ASSUME NEW x \in fresh PROVE Append(way[cur], x) # << >>
    <3>1. way[cur] \in Seq(Package) /\ x \in Package
      BY <1>1, <1>3, <1>5
    <3>2. Len(Append(way[cur], x)) = Len(way[cur]) + 1 /\ Len(way[cur]) \in Nat
      BY <3>1
    <3> QED BY <3>2
  <2> QED BY <1>5, <1>6, <2>1, <2>2 DEF Walked
<1>8. CASE fresh = {}
  <2>1. q = << >> /\ Tail(queue) \in Seq(Package)
    BY <1>1, <1>6, <1>8, NoOrders, Shorter
  <2>2. queue' = Tail(queue)
    BY <1>6, <2>1
  <2> QED BY <1>1, <1>2, <1>7, <1>8, <2>2, Shorter, LessThan
<1>9. CASE fresh # {}
  <2>1. Walked \in SUBSET Package /\ Walked' \in SUBSET Package /\ Walked \subseteq Walked' /\ Walked # Walked'
    BY <1>4, <1>5, <1>7, <1>9 DEF Walked
  <2> QED BY <1>2, <2>1, FewerBeyond, LessThan
<1> QED BY <1>8, <1>9

\* Whatever the lockfile says and however its packages depend on each other,
\* every step of a scan leaves less to do, in an order that has no infinite
\* descent: the searches end on cycles, even where no limit stops them
\* (lockgraph.go:122-167).
THEOREM EveryStepLeavesLess ==
  IsWellFoundedOn(Lower, Pair \X Pair) /\ (Spec => [][LeavesLess]_vars)
<1>0. ScanOK => Counts
  BY RestType
<1>1. ScanOK /\ Counts' /\ [Next]_vars => [LeavesLess]_vars
  <2> SUFFICES ASSUME ScanOK, Counts', Next PROVE LeavesLess
    OBVIOUS
  <2>0. Counts
    BY RestType
  <2> SUFFICES \/ Stage' < Stage
               \/ Stage' = Stage /\ Jobs' < Jobs
               \/ Stage' = Stage /\ Jobs' = Jobs /\ Beyond' < Beyond
               \/ Stage' = Stage /\ Jobs' = Jobs /\ Beyond' = Beyond /\ Len(queue') < Len(queue)
    BY <2>0, LowerThan DEF Counts, LeavesLess, Rest
  <2>1. CASE Read
    <3>1. pc = "scan" /\ pc' = pc /\ locks' = Tail(locks) /\ locks # << >> /\ locks \in Seq(LockFile)
      BY <2>1 DEF Read, ScanOK, GraphInv, ScanInv
    <3> QED BY <3>1, Shorter DEF Stage, Jobs
  <2>2. CASE DevOnly \/ Found \/ NotFound \/ PathsTo \/ Done
    BY <2>2 DEF DevOnly, Found, Gives, NotFound, PathsTo, Done, Search, Conclude, Searching, Stage
  <2>3. CASE Expand
    <3>1. pc' = pc /\ pc \in {"runtime", "dev"} /\ starts' = starts
      BY <2>3 DEF Expand, Gives, Searching, pathVars
    <3>2. Stage' = Stage /\ Jobs' = Jobs
      BY <3>1 DEF Stage, Jobs
    <3>3. \A m, n : <<m, n>> \in Less => m < n
      BY Zenon DEF Less, OpToRel
    <3> QED BY <2>3, <3>2, <3>3, ExpandLowers
  <2>4. CASE NextStart
    <3>1. /\ pc = "paths" /\ pc' \in {"paths", "walk"} /\ starts' = Tail(starts) /\ starts # << >>
          /\ starts \in Seq(Package)
      BY <2>4 DEF NextStart, ScanOK, PathInv, StartsInv
    <3> QED BY <3>1, Shorter DEF Stage, Jobs
  <2>5. CASE Walk \/ NoPath
    <3>1. pc = "walk" /\ pc' \in {"paths", "walk"} /\ starts' = starts /\ Len(starts) \in Nat
      BY <2>5, RestType DEF Walk, Walks, NoPath, BackToPaths
    <3>2. CASE pc' = "paths"
      BY <3>1, <3>2 DEF Stage, Jobs
    <3>3. CASE pc' = "walk"
      <4>1. Walk /\ Stage' = Stage /\ Jobs' = Jobs
        BY <2>5, <3>1, <3>3 DEF NoPath, BackToPaths, Stage, Jobs
      <4>2. \A m, n : <<m, n>> \in Less => m < n
        BY Zenon DEF Less, OpToRel
      <4> QED BY <3>3, <4>1, <4>2, WalkLowers
    <3> QED BY <3>1, <3>2, <3>3
  <2> QED BY <2>1, <2>2, <2>3, <2>4, <2>5 DEF Next
<1>2. Init => RestOK
  BY NoWayType DEF Init, RestOK, Verdict
<1>3. GraphInv /\ PathInv /\ RestOK /\ PathInv' /\ [Next]_vars => RestOK'
  BY RestStep
<1>4. GraphInv /\ PathInv /\ RestOK => ScanOK
  BY DEF ScanOK
<1>5. Spec => [][LeavesLess]_vars
  BY <1>0, <1>1, <1>2, <1>3, <1>4, PathInvariant, PTL DEF Spec
<1> QED BY <1>5, LowerIsWellFounded
=============================================================================
