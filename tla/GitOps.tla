-------------------------------- MODULE GitOps --------------------------------
(***************************************************************************)
(* internal/gitops/gitops.go: Publisher, one per process, puts the         *)
(* document of a product into a git repository: it brings its working copy *)
(* up to date, commits to a review branch rebuilt from the base (or to the *)
(* base itself), pushes, and sees to an open pull request.                 *)
(*                                                                         *)
(* The remote is external: people merge, close and delete, push to review  *)
(* branches and to the base, between any two requests.  A branch is the    *)
(* commits it adds to the base it was made from.  Every document is dated  *)
(* when it is built, so no two of a product are equal and the early return *)
(* for equal content is never taken.                                       *)
(***************************************************************************)
EXTENDS Documents, FiniteSets

CONSTANTS
  Nobody,     \* the mutex is free
  NoBranch,   \* no review branch, or nothing on it that is not in the base
  Depth,      \* commits git fetches of the base (50)
  MaxPeople   \* bound: what people do

Line == [from : Nat, commits : Seq(Commit)]

ASSUME GitAssumption ==
  Nobody \notin Product /\ NoBranch \notin Line /\ Depth \in Nat \ {0} /\ MaxPeople \in Nat

VARIABLES
  mode,     \* the configuration
  base,     \* remote: the commits of the base branch
  review,   \* remote: the review branches
  pr,       \* remote: the last pull request of each: "none", "open", "closed"
  people,   \* what people have done so far
  known,    \* working copy: how far origin/base reaches; 0: no clone
  head,     \* the branch that is checked out
  staged,   \* the index
  jammed,   \* a killed git has left a lock, or a copy git does not accept
  holder,   \* who holds the mutex
  step,     \* where its Publish stands
  doc,      \* the document it publishes
  built,    \* how many documents there have been of each product
  handled,  \* history: branches people have touched since the last push
  rejected  \* history: documents of pull requests people have closed

remoteVars == <<base, review, pr, people, handled, rejected>>
copyVars   == <<known, head, staged, jammed>>
pubVars    == <<holder, step, doc, built>>
gitVars    == <<mode, remoteVars, copyVars, pubVars>>

Step == {"free", "write", "commit", "push", "find", "edit", "open"}

GitTypeOK ==
  /\ mode \in Modes
  /\ base \in Seq(Commit)
  /\ review \in [Branch -> Line \cup {NoBranch}]
  /\ pr \in [Branch -> {"none", "open", "closed"}]
  /\ people \in 0 .. MaxPeople
  /\ known \in 0 .. Len(base)
  /\ head \in Line
  /\ staged \in SUBSET Doc
  /\ jammed \in BOOLEAN
  /\ holder \in Product \cup {Nobody}
  /\ step \in Step /\ (step = "free" <=> holder = Nobody)
  /\ doc \in Doc \cup {NoDoc} /\ (doc = NoDoc <=> holder = Nobody)
  /\ built \in [Product -> Nat]
  /\ handled \subseteq Branch
  /\ rejected \subseteq Doc

OnBranch(b) == IF review[b] = NoBranch THEN {} ELSE Docs(review[b].commits)

\* The base has one commit to begin with, or it could not be cloned.
GitInit ==
  /\ mode \in Modes
  /\ base = <<{}>>
  /\ review = [b \in Branch |-> NoBranch]
  /\ pr = [b \in Branch |-> "none"]
  /\ people = 0
  /\ known = 0
  /\ head = [from |-> 0, commits |-> << >>]
  /\ staged = {} /\ jammed = FALSE
  /\ holder = Nobody /\ step = "free" /\ doc = NoDoc
  /\ built = [p \in Product |-> 0]
  /\ handled = {} /\ rejected = {}

-----------------------------------------------------------------------------
(* Publish, one statement or request after the other under the mutex.      *)

\* The fetch is shallow and not forced: git refuses it once origin/base is no
\* longer among the commits it fetches.
Behind == known > 0 /\ Len(base) - known >= Depth

AtBase == [from |-> Len(base), commits |-> << >>]

Begins(p) ==
  /\ holder' = p
  /\ step' = "write"
  /\ built' = [built EXCEPT ![p] = @ + 1]
  /\ doc' = [file |-> FileOf[p], by |-> p, no |-> built'[p]]

\* Mutant: leftovers of an aborted run stay in the index.
SyncDirty(p) ==
  /\ holder = Nobody /\ ~jammed /\ ~Behind
  /\ known' = Len(base)
  /\ head' = AtBase
  /\ Begins(p)
  /\ UNCHANGED <<mode, remoteVars, staged, jammed>>

\* Mutant: a review branch that exists is continued.
SyncContinuing(p) ==
  /\ holder = Nobody /\ ~jammed /\ ~Behind
  /\ known' = Len(base)
  /\ head' = IF mode # "direct" /\ review[BranchOf[p]] # NoBranch THEN review[BranchOf[p]] ELSE AtBase
  /\ staged' = {}
  /\ Begins(p)
  /\ UNCHANGED <<mode, remoteVars, jammed>>

\* Clone or fetch, reset, clean, check out the base, and a review branch that
\* begins there.
Sync(p) ==
  /\ holder = Nobody /\ ~jammed /\ ~Behind
  /\ known' = Len(base)
  /\ head' = AtBase
  /\ staged' = {}
  /\ Begins(p)
  /\ UNCHANGED <<mode, remoteVars, jammed>>

\* The fetch is refused, or the reset meets the lock of a git that was killed.
SyncRefused ==
  /\ holder = Nobody /\ (jammed \/ Behind)
  /\ UNCHANGED gitVars

Write ==
  /\ step = "write"
  /\ step' = "commit"
  /\ staged' = {d \in staged : d.file # doc.file} \cup {doc}
  /\ UNCHANGED <<mode, remoteVars, known, head, jammed, holder, doc, built>>

\* git commit takes the whole index.
CommitStaged ==
  /\ step = "commit"
  /\ step' = "push"
  /\ head' = [head EXCEPT !.commits = Append(@, staged)]
  /\ staged' = {}
  /\ UNCHANGED <<mode, remoteVars, known, jammed, holder, doc, built>>

\* Mutant: a return leaves the mutex locked.
FreeHeld == step' = "free" /\ doc' = NoDoc /\ UNCHANGED <<holder, built>>

Free == holder' = Nobody /\ step' = "free" /\ doc' = NoDoc /\ UNCHANGED built

FastForward == head.from = Len(base)

\* Mutant: the base is pushed with force, too.
PushedForced ==
  IF mode = "direct"
  THEN /\ base' = SubSeq(base, 1, head.from) \o head.commits
       /\ UNCHANGED <<review, pr, people, handled, rejected>>
  ELSE /\ review' = [review EXCEPT ![BranchOf[holder]] = head]
       /\ handled' = handled \ {BranchOf[holder]}
       /\ UNCHANGED <<base, pr, people, rejected>>

\* What the remote makes of a push: of the base only if nothing else has come
\* in, of a review branch in any case, over whatever is there.
Pushed ==
  IF mode = "direct"
  THEN /\ FastForward
       /\ base' = base \o head.commits
       /\ UNCHANGED <<review, pr, people, handled, rejected>>
  ELSE /\ review' = [review EXCEPT ![BranchOf[holder]] = head]
       /\ handled' = handled \ {BranchOf[holder]}
       /\ UNCHANGED <<base, pr, people, rejected>>

Push ==
  /\ step = "push" /\ mode = "pr"
  /\ Pushed
  /\ step' = "find"
  /\ UNCHANGED <<mode, copyVars, holder, doc, built>>

\* Without pull requests this is the end.
PushLast ==
  /\ step = "push" /\ mode # "pr"
  /\ Pushed
  /\ known' = IF mode = "direct" THEN Len(base') ELSE known
  /\ Free
  /\ UNCHANGED <<mode, head, staged, jammed>>

PushRefused ==
  /\ step = "push" /\ mode = "direct" /\ ~FastForward
  /\ Free
  /\ UNCHANGED <<mode, remoteVars, copyVars>>

\* Mutant: closed pull requests are looked up as well.
FindAny ==
  /\ step = "find"
  /\ step' = IF pr[BranchOf[holder]] # "none" THEN "edit" ELSE "open"
  /\ UNCHANGED <<mode, remoteVars, copyVars, holder, doc, built>>

Find ==
  /\ step = "find"
  /\ step' = IF pr[BranchOf[holder]] = "open" THEN "edit" ELSE "open"
  /\ UNCHANGED <<mode, remoteVars, copyVars, holder, doc, built>>

\* GitHub changes title and body of a closed pull request as well.
Edit ==
  /\ step = "edit"
  /\ Free
  /\ UNCHANGED <<mode, remoteVars, copyVars>>

\* And refuses one without a branch or without commits that are not in the base.
Openable(b) == review[b] # NoBranch /\ pr[b] # "open"

Opened ==
  /\ Openable(BranchOf[holder])
  /\ pr' = [pr EXCEPT ![BranchOf[holder]] = "open"]
  /\ UNCHANGED <<base, review, people, handled, rejected>>

Open ==
  /\ step = "open"
  /\ Opened
  /\ Free
  /\ UNCHANGED <<mode, copyVars>>

OpenRefused ==
  /\ step = "open" /\ ~Openable(BranchOf[holder])
  /\ Free
  /\ UNCHANGED <<mode, remoteVars, copyVars>>

\* Steps that use the working copy and may jam it when they are cut short.
Local == step \in {"write", "commit"}

\* Any command or request fails or is cut short; the remote may have done it.
PublishFails ==
  /\ holder # Nobody
  /\ Free
  /\ \/ UNCHANGED remoteVars
     \/ step = "push" /\ Pushed
     \/ step = "open" /\ Opened
  /\ jammed' \in (IF Local THEN {jammed, TRUE} ELSE {jammed})
  /\ UNCHANGED <<mode, known, head, staged>>

\* The same before anything is written.
SyncFails ==
  /\ holder = Nobody
  /\ jammed' \in {jammed, TRUE}
  /\ UNCHANGED <<mode, remoteVars, known, head, staged, pubVars>>

-----------------------------------------------------------------------------
(* People.                                                                 *)

Acts == people < MaxPeople /\ people' = people + 1

UnderReview(b) == pr[b] = "open" /\ review[b] # NoBranch

Touched(b) == {d.file : d \in OnBranch(b)}

\* What has come into the base since a branch was made from it.
Since(b) == Docs(SubSeq(base, review[b].from + 1, Len(base)))

\* A pull request without conflicts is merged.
Merge(b) ==
  /\ UnderReview(b)
  /\ \A d \in Since(b) : d.file \notin Touched(b)
  /\ base' = base \o review[b].commits
  /\ pr' = [pr EXCEPT ![b] = "closed"]
  /\ review' = [review EXCEPT ![b] = NoBranch]
  /\ handled' = handled \cup {b}
  /\ Acts
  /\ UNCHANGED <<mode, rejected, copyVars, pubVars>>

\* One is closed, its branch kept or deleted; that counts as a verdict on its documents unless the bot has
\* just pushed and is about to look for the pull request.
Close(b) ==
  /\ UnderReview(b)
  /\ pr' = [pr EXCEPT ![b] = "closed"]
  /\ \E line \in {review[b], NoBranch} : review' = [review EXCEPT ![b] = line]
  /\ rejected' = IF holder # Nobody /\ BranchOf[holder] = b /\ step \in {"find", "edit", "open"}
                 THEN rejected ELSE rejected \cup OnBranch(b)
  /\ handled' = handled \cup {b}
  /\ Acts
  /\ UNCHANGED <<mode, base, copyVars, pubVars>>

ByPeople(f) == [file |-> f, by |-> Person, no |-> people]

\* A reviewer pushes to the review branch.
Amend(b) ==
  /\ UnderReview(b)
  /\ \E f \in Touched(b) :
       review' = [review EXCEPT ![b].commits = Append(@, {ByPeople(f)})]
  /\ handled' = handled \cup {b}
  /\ Acts
  /\ UNCHANGED <<mode, base, pr, rejected, copyVars, pubVars>>

\* Something else is committed to the base.
Change(f) ==
  /\ base' = Append(base, {ByPeople(f)})
  /\ Acts
  /\ UNCHANGED <<mode, review, pr, handled, rejected, copyVars, pubVars>>

PeopleStep ==
  \/ \E b \in Branch : Merge(b) \/ Close(b) \/ Amend(b)
  \/ \E f \in File : Change(f)

-----------------------------------------------------------------------------
(* What publishing promises.                                               *)

\* Every commit changes the file of one product, wherever it ends up: what an
\* aborted run of another product has left in the working copy goes into
\* nobody's review (gitops.go:176-181).
OwnFileOnly ==
  \A c \in {base[i] : i \in DOMAIN base}
           \cup UNION {{review[b].commits[i] : i \in DOMAIN review[b].commits} :
                         b \in {x \in Branch : review[x] # NoBranch}} :
    \A d, e \in c : d.file = e.file

\* No commit ever disappears from the base branch, also when people push
\* between the fetch and the push of a bot that commits to it directly
\* (gitops.go:137-145).
BaseKeepsHistory == [][SubSeq(base', 1, Len(base)) = base]_base

\* A document that people turned down never reaches the base in a later
\* review: "a stale branch never resurrects old statements"
\* (gitops.go:103-104).
RejectedStaysOut == rejected \cap Docs(base) = {}
=============================================================================
