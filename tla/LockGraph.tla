------------------------------ MODULE LockGraph ------------------------------
(***************************************************************************)
(* internal/evidence/lockgraph.go: what a product's lockfiles say of one   *)
(* package.  The scan of a checkout picks a lockfile (shallowest first),   *)
(* its loader recovers the dependency graph and the product's direct       *)
(* dependencies, and two breadth-first searches over the graph answer      *)
(* whether the package is in the runtime closure (evidence the guardrails  *)
(* accept for not_affected) and along which paths it enters the product.   *)
(*                                                                         *)
(* A lockfile is taken as what its package manager resolved, and the       *)
(* loaders as what they recover of it: not their scanning of text, but     *)
(* where it loses a declaration, takes it for one of the other kind or     *)
(* reads it twice.  Names stand for normalised names; the copies of a      *)
(* package (several versions, several places) share one name, as in the    *)
(* code, unless one is installed under an alias.                           *)
(***************************************************************************)
EXTENDS Integers, Sequences, FiniteSets

CONSTANTS
  Package,    \* packages a lockfile may name
  Wanted,     \* the package of the finding
  NoLock,     \* no lockfile, no graph
  Checkouts,  \* the lockfiles of a checkout, shallowest first
  Limit,      \* packages reachableFrom looks at before it gives up (20000)
  PathLimit,  \* packages shortestPath comes to before it gives up (20000)
  MaxPaths,   \* dependency paths asked for (3)
  Repeats     \* bound: further mentions of each name a list repeats

Format ==
  {"npm", "npm1", "yarn", "pnpm", "cargo", "poetry", "uv", "pipfile", "gem",
   "composer", "nuget", "pubspec", "gradle", "unreadable"}

LockFile ==
  [format    : Format,
   edges     : [Package -> SUBSET Package],  \* dependencies it lists for every package
   real      : [Package -> Package],         \* the package installed under a name
   present   : SUBSET Package,               \* packages it locks
   runtime   : SUBSET Package,               \* what the product's manifest needs at run time
   tabled    : SUBSET Package,               \* of these: out of the manifest reader's sight
   grouped   : SUBSET Package,               \* of these: in groups of their own
   spread    : SUBSET Package,               \* of these: in what it takes for a development group
   dev       : SUBSET Package,               \* what it needs for development and tests only
   tabledDev : SUBSET Package,               \* of these: out of the reader's sight
   strayed   : SUBSET Package,               \* of these: under what it takes for a run-time heading
   repeated  : SUBSET Package,               \* needs declared more than once
   local     : SUBSET Package,               \* run-time needs of its other local packages
  hyphened  : SUBSET Package,               \* crates whose key is not their name
   flags     : [Package -> SUBSET BOOLEAN],  \* "development only", for every copy
   flagged   : BOOLEAN,                      \* such flags are written
   sibling   : BOOLEAN,                      \* the manifest lies beside it
   workspace : BOOLEAN]                      \* and declares workspace members

-----------------------------------------------------------------------------
(* Reachability, by closed sets: x can be reached if no set that contains  *)
(* the starts and everything its members depend on is without x.           *)

Closed(edges, S) == \A x \in S : edges[x] \subseteq S

Reachable(edges, starts) ==
  {x \in Package :
     \A S \in SUBSET Package : starts \subseteq S /\ Closed(edges, S) => x \in S}

Needs(l)     == l.runtime \cup l.local
MainNeeds(l) == (l.runtime \ l.grouped) \cup l.local
Runtime(l)   == Reachable(l.edges, Needs(l))

\* The product needs the wanted package at run time, under whatever name.
InRuntime(l) == \E x \in Runtime(l) : l.real[x] = Wanted

\* Packages are locked under the names they are needed by, aliases included;
\* only pnpm's keys have the package's own name.
Keys(l, S) == {IF l.format = "pnpm" THEN l.real[x] ELSE x : x \in S}

\* What package managers write: everything the product needs and nothing else,
\* and a copy that is not flagged for exactly the packages behind the needs of
\* the main group.
Locked(l) ==
  /\ l.present = Keys(l, Reachable(l.edges, Needs(l) \cup l.dev))
  /\ LET main == Keys(l, Reachable(l.edges, MainNeeds(l)))
     IN \A x \in l.present : l.flags[x] # {} /\ (FALSE \in l.flags[x] <=> x \in main)

\* And what manifests hold: aliases, groups, and local packages where their
\* tool has them and, apart from Cargo's path dependencies, declares them.
Declared(l) ==
  /\ l.tabled \cup l.grouped \cup l.spread \subseteq l.runtime
  /\ l.tabledDev \cup l.strayed \subseteq l.dev
  /\ \A x \in Package : l.real[l.real[x]] = l.real[x]
  /\ (\E x \in Package : l.real[x] # x) => l.format \in {"npm", "npm1", "yarn", "pnpm"}
  /\ l.hyphened # {} => l.format = "cargo"
  /\ l.grouped # {} => l.format \in {"poetry", "uv", "gem", "gradle"}
  /\ l.local # {} => \/ l.format \in {"npm", "pnpm", "uv", "nuget", "cargo", "gradle"}
                     \/ l.format = "yarn" /\ l.workspace

Resolved(l) == Locked(l) /\ Declared(l)

ASSUME WantedAssumption   == Wanted \in Package /\ IsFiniteSet(Package)
ASSUME LimitAssumption    == {Limit, PathLimit, MaxPaths, Repeats} \subseteq Nat
ASSUME NoLockAssumption   == NoLock \notin LockFile
ASSUME CheckoutAssumption ==
  \A c \in Checkouts :
    c \in Seq(LockFile) /\ \A i \in 1 .. Len(c) : Resolved(c[i])

-----------------------------------------------------------------------------
(* The loaders.                                                            *)

\* newGraph and add: no package depends on itself.
newGraph(l) ==
  [edges     |-> [x \in Package |-> l.edges[x] \ {x}],
   hasEdges  |-> TRUE,
   root      |-> {}, rootDev |-> {}, repeated |-> {},
   rootKnown |-> FALSE, devSplit |-> FALSE,
   devFlags  |-> FALSE, devOnly |-> {}]

\* Lists of names without edges between them.
flatGraph(l) ==
  [newGraph(l) EXCEPT !.edges = [x \in Package |-> {}], !.hasEdges = FALSE]

\* The root's direct dependencies; what both lists name is a runtime need.
withRoots(g, runtime, dev) ==
  [g EXCEPT !.root = runtime, !.rootDev = dev \ runtime,
            !.rootKnown = TRUE, !.devSplit = TRUE]

\* A package is for development only if every copy of it is.
withFlags(g, l) ==
  [g EXCEPT !.devFlags = TRUE, !.devOnly = {x \in l.present : l.flags[x] = {TRUE}}]

\* What the line by line readers of Cargo.toml, pyproject.toml and the Gemfile
\* take for run-time needs and for development needs.  They miss what is
\* declared in a table of its own, on the first line of a longer array, by a
\* gemspec or in another form of call.  A group counts as development's if its
\* name has dev, test, lint or docs in it, a dependency group also if it is
\* written over several lines; and a development need counts as a run-time
\* need where the end of the block or array before it was not seen.
readRuntime(l) == (l.runtime \ (l.tabled \cup l.spread)) \cup l.strayed
readDev(l)     == (l.dev \ (l.tabledDev \cup l.strayed)) \cup l.spread
readDevOnly(l) == readDev(l) \ readRuntime(l)

npmRootFromManifest(g, l) ==
  IF l.sibling
  THEN [withRoots(g, l.runtime, l.dev) EXCEPT !.devSplit = ~l.workspace]
  ELSE g

\* From version 2 on the file lists the root and the workspace packages.
parsePackageLock(l) ==
  LET g == withFlags(newGraph(l), l)
  IN IF l.format = "npm" THEN withRoots(g, Needs(l), l.dev) ELSE npmRootFromManifest(g, l)

parseYarnLock(l) == npmRootFromManifest(newGraph(l), l)

\* The roots and edges have the aliases, the packages their own names: what is
\* needed under an alias has no edges.
parsePnpmLock(l) ==
  LET edges == [y \in Package |-> (UNION {l.edges[x] : x \in {z \in Package : l.real[z] = y}}) \ {y}]
      g     == [withRoots(newGraph(l), Needs(l), l.dev) EXCEPT !.edges = edges]
  IN IF l.flagged THEN withFlags(g, l) ELSE g

\* Packages without a source are the product: what any of them needs is a root.
\* Roots have the crates' names and packages their keys, in which a hyphen is
\* an underscore: a root with a hyphen is no package, and leads nowhere.
parseCargoLock(l) ==
  [newGraph(l) EXCEPT !.root = (Needs(l) \cup l.dev) \ l.hyphened, !.rootKnown = TRUE]

\* Mutant: what the manifest also needs at run time moves to the other list.
cargoRootFromManifestAll(g, l) ==
  IF l.sibling /\ ~l.workspace /\ readRuntime(l) \cup readDev(l) # {}
  THEN withRoots(g, g.root \ readDev(l), g.root \cap readDev(l))
  ELSE g

\* Only what is read as a development need moves to the other list; a manifest
\* with workspace members is left alone.
cargoRootFromManifest(g, l) ==
  IF l.sibling /\ ~l.workspace /\ readRuntime(l) \cup readDev(l) # {}
  THEN withRoots(g, g.root \ readDevOnly(l), g.root \cap readDevOnly(l))
  ELSE g

\* Of several copies of a package the last one's flag stays.
parsePoetryLock(l) ==
  IF l.flagged
  THEN {[newGraph(l) EXCEPT !.devFlags = TRUE, !.devOnly = D] :
          D \in {E \in SUBSET l.present : \A x \in l.present : (x \in E) \in l.flags[x]}}
  ELSE {newGraph(l)}

\* The roots are what is read and nothing else, as often as it is declared.
pyRootFromManifest(g, l) ==
  IF l.sibling /\ readRuntime(l) \cup readDev(l) # {}
  THEN [withRoots(g, readRuntime(l), readDev(l)) EXCEPT !.repeated = l.repeated]
  ELSE g

\* Every dependency group is a table of development needs.
parseUvLock(l) == withRoots(newGraph(l), MainNeeds(l), l.dev \cup l.grouped)

parsePipfileLock(l) == withFlags(flatGraph(l), l)

pipfileRoot(g, l) == IF l.sibling THEN withRoots(g, l.runtime, l.dev) ELSE g

parseGemfileLock(l) ==
  LET root == l.runtime \cup l.dev
  IN [newGraph(l) EXCEPT !.root = root, !.rootKnown = (root # {})]

\* Gems the Gemfile names in development groups only; those it does not name
\* stay.
gemfileGroups(g, l) ==
  IF l.sibling
  THEN [g EXCEPT !.root = @ \ readDevOnly(l), !.rootDev = g.root \cap readDevOnly(l),
                 !.devSplit = TRUE]
  ELSE g

parseComposerLock(l) == withFlags(newGraph(l), l)

composerRootFromManifest(g, l) == IF l.sibling THEN withRoots(g, l.runtime, l.dev) ELSE g

\* Direct packages, and what project references need.
parseNugetLock(l) ==
  [newGraph(l) EXCEPT !.root = Needs(l) \cup l.dev, !.rootKnown = TRUE]

parsePubspecLock(l) ==
  [flatGraph(l) EXCEPT !.root = l.runtime, !.rootDev = l.dev \ l.runtime, !.rootKnown = TRUE]

\* Without a runtime configuration among those locked nothing can be said.
parseGradleLockfile(l) == IF l.flagged THEN withFlags(flatGraph(l), l) ELSE flatGraph(l)

\* The graphs a loader may come back with; none if the file cannot be parsed.
loadGraph(l) ==
  CASE l.format \in {"npm", "npm1"} -> {parsePackageLock(l)}
    [] l.format = "yarn"     -> {parseYarnLock(l)}
    [] l.format = "pnpm"     -> {parsePnpmLock(l)}
    [] l.format = "cargo"    -> {cargoRootFromManifest(parseCargoLock(l), l)}
    [] l.format = "poetry"   -> {pyRootFromManifest(g, l) : g \in parsePoetryLock(l)}
    [] l.format = "uv"       -> {parseUvLock(l)}
    [] l.format = "pipfile"  -> {pipfileRoot(parsePipfileLock(l), l)}
    [] l.format = "gem"      -> {gemfileGroups(parseGemfileLock(l), l)}
    [] l.format = "composer" -> {composerRootFromManifest(parseComposerLock(l), l)}
    [] l.format = "nuget"    -> {parseNugetLock(l)}
    [] l.format = "pubspec"  -> {parsePubspecLock(l)}
    [] l.format = "gradle"   -> {parseGradleLockfile(l)}
    [] l.format = "unreadable" -> {}

-----------------------------------------------------------------------------
(* The scan of one checkout and the questions it puts to the graph.        *)

VARIABLES
  checkout, \* its lockfiles, shallowest first
  locks,    \* those not yet looked at
  lock,     \* the lockfile of the graph in hand
  graph,    \* that graph
  pc,       \* where the scan stands
  queue,    \* the search's queue
  seen,     \* packages the search has expanded
  devOnly,  \* the verdict: "dev", "runtime" or "unknown"
  starts,   \* direct dependencies no path was looked for from yet
  way,      \* how the path search came to each package; <<>>: not yet
  paths     \* the paths found

scanVars == <<checkout, locks, lock, graph>>
pathVars == <<starts, way, paths>>
vars     == <<scanVars, pc, queue, seen, devOnly, pathVars>>

Elems(q) == {q[i] : i \in DOMAIN q}

\* The members of a set in any order, as a Go map hands them out.
Orders(S) ==
  {q \in [1 .. Cardinality(S) -> S] : \A x \in S : \E i \in DOMAIN q : q[i] = x}

\* A list of them in which those of T may come again.
Lists(S, T) ==
  {q \in UNION {[1 .. n -> S] : n \in Cardinality(S) .. Cardinality(S) + Repeats * Cardinality(S \cap T)} :
     /\ Elems(q) = S
     /\ \A i, j \in DOMAIN q : q[i] = q[j] => i = j \/ q[i] \in T}

NoWay == [x \in Package |-> << >>]

Init ==
  /\ checkout \in Checkouts /\ locks = checkout
  /\ lock = NoLock /\ graph = NoLock
  /\ pc = "scan"
  /\ queue = << >> /\ seen = {}
  /\ devOnly = "unknown"
  /\ starts = << >> /\ way = NoWay /\ paths = << >>

has == lock # NoLock /\ Wanted \in lock.present

\* Mutant: the first graph is kept whatever it knows.
ReadFirst ==
  /\ pc = "scan" /\ locks # << >>
  /\ locks' = Tail(locks)
  /\ LET l == Head(locks)
     IN IF graph = NoLock /\ loadGraph(l) # {}
        THEN graph' \in loadGraph(l) /\ lock' = l
        ELSE UNCHANGED <<lock, graph>>
  /\ UNCHANGED <<checkout, pc, queue, seen, devOnly, pathVars>>

\* Mutant: a lockfile that cannot be parsed counts as read.
ReadNil ==
  /\ pc = "scan" /\ locks # << >>
  /\ locks' = Tail(locks)
  /\ LET l == Head(locks)
     IN IF ~has /\ (graph = NoLock \/ Wanted \in l.present)
        THEN lock' = l /\ graph' \in (IF loadGraph(l) = {} THEN {NoLock} ELSE loadGraph(l))
        ELSE UNCHANGED <<lock, graph>>
  /\ UNCHANGED <<checkout, pc, queue, seen, devOnly, pathVars>>

\* The first graph is kept until one that has the package comes along.
Read ==
  /\ pc = "scan" /\ locks # << >>
  /\ locks' = Tail(locks)
  /\ LET l == Head(locks)
     IN IF ~has /\ loadGraph(l) # {} /\ (graph = NoLock \/ Wanted \in l.present)
        THEN graph' \in loadGraph(l) /\ lock' = l
        ELSE UNCHANGED <<lock, graph>>
  /\ UNCHANGED <<checkout, pc, queue, seen, devOnly, pathVars>>

\* reachableFrom starts with the queue it is given.
Search(stage, S) ==
  /\ pc' = stage
  /\ queue' \in Lists(S, graph.repeated)
  /\ seen' = {}

Conclude(v) ==
  /\ devOnly' = v
  /\ pc' = "ask"
  /\ queue' = << >> /\ seen' = {}

\* Mutant: the searches are made without the root's split.
DevOnlyUnsplit ==
  /\ pc = "scan" /\ locks = << >>
  /\ IF has /\ graph.devFlags
     THEN Conclude(IF Wanted \in graph.devOnly THEN "dev" ELSE "runtime")
     ELSE IF has /\ graph.hasEdges /\ graph.rootKnown
     THEN Search("runtime", graph.root) /\ UNCHANGED devOnly
     ELSE Conclude("unknown")
  /\ UNCHANGED <<scanVars, pathVars>>

\* devOnly: the package manager's flags, else the searches, else no answer.
DevOnly ==
  /\ pc = "scan" /\ locks = << >>
  /\ IF has /\ graph.devFlags
     THEN Conclude(IF Wanted \in graph.devOnly THEN "dev" ELSE "runtime")
     ELSE IF has /\ graph.hasEdges /\ graph.rootKnown /\ graph.devSplit
     THEN Search("runtime", graph.root) /\ UNCHANGED devOnly
     ELSE Conclude("unknown")
  /\ UNCHANGED <<scanVars, pathVars>>

Searching == pc \in {"runtime", "dev"}
Gives     == Searching /\ queue # << >> /\ Cardinality(seen) < Limit

\* Mutant: what is queued is not queued twice, but what was expanded is
\* expanded again.
ExpandAgain ==
  /\ Gives /\ Head(queue) # Wanted
  /\ seen' = seen \cup {Head(queue)}
  /\ \E q \in Orders(graph.edges[Head(queue)] \ Elems(Tail(queue))) : queue' = Tail(queue) \o q
  /\ UNCHANGED <<scanVars, pc, devOnly, pathVars>>

Expand ==
  /\ Gives /\ Head(queue) # Wanted
  /\ IF Head(queue) \in seen
     THEN queue' = Tail(queue) /\ UNCHANGED seen
     ELSE /\ seen' = seen \cup {Head(queue)}
          /\ \E q \in Orders(graph.edges[Head(queue)]) : queue' = Tail(queue) \o q
  /\ UNCHANGED <<scanVars, pc, devOnly, pathVars>>

\* reachableFrom returns true.
Found ==
  /\ Gives /\ Head(queue) = Wanted
  /\ Conclude(IF pc = "runtime" THEN "runtime" ELSE "dev")
  /\ UNCHANGED <<scanVars, pathVars>>

\* It returns false: nothing is left, or it has looked at too many packages.
NotFound ==
  /\ Searching /\ ~Gives
  /\ IF pc = "runtime"
     THEN Search("dev", graph.rootDev) /\ UNCHANGED devOnly
     ELSE Conclude("runtime")
  /\ UNCHANGED <<scanVars, pathVars>>

\* pathsTo: from the runtime roots, then the development roots, each as often
\* as it is listed.
PathsTo ==
  /\ pc = "ask"
  /\ pc' = "paths"
  /\ IF has /\ graph.hasEdges /\ graph.rootKnown
     THEN \E r \in Lists(graph.root, graph.repeated), d \in Lists(graph.rootDev, graph.repeated) :
            starts' = r \o d
     ELSE starts' = << >>
  /\ UNCHANGED <<scanVars, queue, seen, devOnly, way, paths>>

NextStart ==
  /\ pc = "paths" /\ starts # << >> /\ Len(paths) < MaxPaths
  /\ starts' = Tail(starts)
  /\ IF Head(starts) = Wanted
     THEN paths' = Append(paths, <<Wanted>>) /\ UNCHANGED <<pc, queue, way>>
     ELSE /\ queue' = <<Head(starts)>>
          /\ way' = [NoWay EXCEPT ![Head(starts)] = <<Head(starts)>>]
          /\ pc' = "walk"
          /\ UNCHANGED paths
  /\ UNCHANGED <<scanVars, seen, devOnly>>

Done ==
  /\ pc = "paths" /\ (starts = << >> \/ Len(paths) >= MaxPaths)
  /\ pc' = "done"
  /\ UNCHANGED <<scanVars, queue, seen, devOnly, pathVars>>

Walked == {x \in Package : way[x] # << >>}

\* Mutant: the limit is met one package early.
WalksLess == pc = "walk" /\ queue # << >> /\ Cardinality(Walked) + 1 < PathLimit

Walks == pc = "walk" /\ queue # << >> /\ Cardinality(Walked) < PathLimit

BackToPaths == pc' = "paths" /\ queue' = << >> /\ way' = NoWay

\* Mutant: the way to a package is noted before it is looked up.
WalkNotingFirst ==
  /\ Walks
  /\ LET cur   == Head(queue)
         fresh == graph.edges[cur] \ Walked
     IN IF Wanted \in fresh
        THEN paths' = Append(paths, Append(way[cur], Wanted)) /\ BackToPaths
        ELSE /\ \E q \in Orders(fresh) : queue' = Tail(queue) \o q
             /\ way' = [x \in Package |-> IF x \in graph.edges[cur] THEN Append(way[cur], x) ELSE way[x]]
             /\ UNCHANGED <<pc, paths>>
  /\ UNCHANGED <<scanVars, seen, devOnly, starts>>

\* shortestPath: the loop over the packages, with the way to each kept whole
\* where the code keeps its last step (prev).
Walk ==
  /\ Walks
  /\ LET cur   == Head(queue)
         fresh == graph.edges[cur] \ Walked
     IN IF Wanted \in fresh
        THEN paths' = Append(paths, Append(way[cur], Wanted)) /\ BackToPaths
        ELSE /\ \E q \in Orders(fresh) : queue' = Tail(queue) \o q
             /\ way' = [x \in Package |-> IF x \in fresh THEN Append(way[cur], x) ELSE way[x]]
             /\ UNCHANGED <<pc, paths>>
  /\ UNCHANGED <<scanVars, seen, devOnly, starts>>

NoPath ==
  /\ pc = "walk" /\ ~Walks
  /\ BackToPaths
  /\ UNCHANGED <<scanVars, seen, devOnly, starts, paths>>

Next ==
  \/ Read \/ DevOnly
  \/ Expand \/ Found \/ NotFound
  \/ PathsTo \/ NextStart \/ Walk \/ NoPath \/ Done

Spec == Init /\ [][Next]_vars /\ WF_vars(Next)

-----------------------------------------------------------------------------
(* What the graph's answers are worth.                                     *)

Verdict == {"dev", "runtime", "unknown"}

Graph ==
  [edges : [Package -> SUBSET Package], hasEdges : BOOLEAN,
   root : SUBSET Package, rootDev : SUBSET Package, repeated : SUBSET Package,
   rootKnown : BOOLEAN, devSplit : BOOLEAN,
   devFlags : BOOLEAN, devOnly : SUBSET Package]

TypeOK ==
  /\ checkout \in Seq(LockFile) /\ locks \in Seq(LockFile)
  /\ lock \in LockFile \cup {NoLock}
  /\ IF lock = NoLock THEN graph = NoLock ELSE graph \in Graph
  /\ pc \in {"scan", "runtime", "dev", "ask", "paths", "walk", "done"}
  /\ queue \in Seq(Package) /\ seen \subseteq Package
  /\ devOnly \in Verdict
  /\ starts \in Seq(Package)
  /\ way \in [Package -> Seq(Package)]
  /\ paths \in Seq(Seq(Package))

\* A copy of the wanted package goes by another name, or a copy of another by
\* its name; pnpm's edges break at every alias.
Aliased(l) ==
  IF l.format = "pnpm" THEN ~l.flagged /\ \E x \in Package : l.real[x] # x
  ELSE \E x \in Package : l.real[x] # x /\ Wanted \in {x, l.real[x]}

\* Where a loader takes a runtime need for a development one: under an alias;
\* where the package is needed only by a group of its own and all but the main
\* group count as development's, or only by needs which the manifest's reader
\* takes for development's or, where nothing else tells of them, does not have,
\* or only by crates with a hyphen; and where Poetry's last copy of a package
\* speaks for all.
Misread(l) ==
  \/ Aliased(l)
  \/ /\ l.format \in {"uv", "gradle"} \/ (l.format = "poetry" /\ l.flagged)
     /\ Wanted \in Runtime(l) \ Reachable(l.edges, MainNeeds(l))
  \/ /\ l.format \in {"cargo", "gem"}
     /\ Wanted \in Runtime(l) \ Reachable(l.edges, Needs(l) \ (readDevOnly(l) \cup l.hyphened))
  \/ /\ l.format = "poetry" /\ ~l.flagged
     /\ Wanted \in Runtime(l) \ Reachable(l.edges, Needs(l) \cap readRuntime(l))
  \/ l.format = "poetry" /\ l.flagged /\ l.flags[Wanted] = BOOLEAN

\* And where it does not see a development need as one: under an alias; where
\* the package is behind one that the manifest's reader does not have as such or
\* that is a crate with a hyphen.
Unseen(l) ==
  \/ Aliased(l)
  \/ /\ l.format \in {"cargo", "gem"} \/ (l.format = "poetry" /\ ~l.flagged)
     /\ Wanted \in Reachable(l.edges, l.dev \ (readDevOnly(l) \ l.hyphened))

\* More packages are behind these roots than a search looks at.
GaveUp(roots) == ~graph.devFlags /\ Cardinality(Reachable(graph.edges, roots)) > Limit

\* The strong answer is right: a package the product needs at run time, by its
\* own needs or those of its other local packages, is never said to be for
\* development only, but where a loader misreads the need and where more is
\* behind the runtime roots than the search looks at (lockgraph.go:149-186,
\* README.md:325-328).
RuntimeIsNeverDevOnly ==
  devOnly = "dev" => ~InRuntime(lock) \/ Misread(lock) \/ GaveUp(graph.root)

\* And it is given: a package that only development needs is never taken for
\* a runtime dependency by a graph that answers at all, but where a loader does
\* not see the need for what it is and where the second search gives up
\* (lockgraph.go:149-186).
DevOnlyIsFound ==
  devOnly = "runtime" => InRuntime(lock) \/ Unseen(lock) \/ GaveUp(graph.rootDev)

\* The graph in hand is the shallowest that has the package, whatever
\* unreadable or foreign lockfiles lie above it (ecosystem.go:358-380).
ShallowestWins ==
  \A i \in 1 .. Len(checkout) - Len(locks) :
    Wanted \in checkout[i].present /\ checkout[i].format # "unreadable" =>
      has /\ \E j \in 1 .. i : lock = checkout[j]

IsChain(p) ==
  \A i \in 1 .. Len(p) - 1 : p[i + 1] \in graph.edges[p[i]]

\* Every path is one: it starts with a direct dependency of the product,
\* follows the lockfile's edges to the package, and none that starts there is
\* shorter; a direct dependency has two only if the list of roots names it
\* twice (lockgraph.go:103-147, 726-727).
PathsAreShortest ==
  \A i \in 1 .. Len(paths) :
    LET p == paths[i]
    IN /\ p[1] \in graph.root \cup graph.rootDev /\ p[Len(p)] = Wanted
       /\ IsChain(p)
       /\ \A n \in 1 .. Len(p) - 1 : \A q \in [1 .. n -> Package] :
            ~(q[1] = p[1] /\ q[n] = Wanted /\ IsChain(q))
       /\ \A j \in 1 .. i - 1 : paths[j][1] = p[1] => p[1] \in graph.repeated

\* And none is missing: a direct dependency in the graph that the package can
\* be reached from has a path, unless enough paths were found before its turn came or
\* there are more packages behind it than the search comes to
\* (lockgraph.go:103-147).
NoRootIsPassedOver ==
  pc = "done" /\ has /\ graph.hasEdges /\ graph.rootKnown /\ Len(paths) < MaxPaths =>
    \A r \in graph.root \cup graph.rootDev :
      \/ \E i \in 1 .. Len(paths) : paths[i][1] = r
      \/ Wanted \notin Reachable(graph.edges, {r})
      \/ Cardinality(Reachable(graph.edges, {r})) > PathLimit

\* Cycles between packages keep no search going (lockgraph.go:122-167).
ScanEnds == <>(pc = "done")
=============================================================================
