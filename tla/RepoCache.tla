------------------------------- MODULE RepoCache -------------------------------
(***************************************************************************)
(* internal/repo/repo.go, Cloner, and the candidate loop of                *)
(* Pipeline.MaterializeRepo: runs of the process share a directory of      *)
(* checkouts, one per repository and reference, each behind a lock.  What  *)
(* says that a checkout is there is its .git, which git creates before     *)
(* anything else; a git that is killed, by its timeout or with the         *)
(* process, leaves what it had.                                            *)
(*                                                                         *)
(* The repositories and git itself are external: a command succeeds, fails *)
(* and removes what it began, or is killed.  "default" is the head of the  *)
(* default branch at the time of the clone.                                *)
(***************************************************************************)
EXTENDS Naturals, Sequences

CONSTANTS
  Run,       \* SBOMs that are worked on, at most one run each
  Location,  \* repositories and references, one checkout each
  RefKind,   \* looksLikeCommit of each: "none", "name" or "commit"
  Plans      \* the candidates each run may try, in order

ASSUME KindAssumption == RefKind \in [Location -> {"none", "name", "commit"}]
ASSUME PlanAssumption == Plans \subseteq [Run -> Seq(Location)]

VARIABLES
  plan,   \* the candidates of each run
  tree,   \* what is in each checkout: "absent" if there is no .git
  at,     \* where each run stands in Clone
  nth,    \* its candidate
  stamp,  \* the commit it has read from the checkout
  marred  \* history: checkouts a git command has failed or died in

cacheVars == <<plan, tree, at, nth, stamp, marred>>

Tree  == {"absent", "torn", "default", "asked"}
InGit == {"clone", "again", "fetch", "checkout"}
At    == {"out", "want", "have", "without"} \cup InGit
Stamp == {"none", "default", "asked"}

CacheTypeOK ==
  /\ plan \in Plans
  /\ tree \in [Location -> Tree]
  /\ at \in [Run -> At]
  /\ nth \in [Run -> Nat \ {0}]
  /\ stamp \in [Run -> Stamp]
  /\ marred \subseteq Location

CacheInit ==
  /\ plan \in Plans
  /\ tree = [l \in Location |-> "absent"]
  /\ at = [r \in Run |-> "out"]
  /\ nth = [r \in Run |-> 1]
  /\ stamp = [r \in Run |-> "none"]
  /\ marred = {}

Here(r) == plan[r][nth[r]]

\* The mutex of the checkout's directory is held from before the look at .git
\* to the return.
Locked(l) == \E r \in Run : at[r] \in InGit /\ Here(r) = l

Wanted(l) == IF RefKind[l] = "none" THEN "default" ELSE "asked"

Goes(r, where) == at' = [at EXCEPT ![r] = where]
Leaves(l, what) == tree' = [tree EXCEPT ![l] = what]
Mars(l) == marred' = marred \cup {l}

\* MaterializeRepo: the first candidate, if there is one.
Materialize(r) ==
  /\ at[r] = "out"
  /\ Goes(r, IF plan[r] = << >> THEN "without" ELSE "want")
  /\ nth' = [nth EXCEPT ![r] = 1]
  /\ UNCHANGED <<plan, tree, stamp, marred>>

\* HeadCommit of the checkout handed out; of one that is torn it may find
\* nothing, or a commit whose files are not all there.
HandOut(r, t) ==
  /\ Goes(r, "have")
  /\ stamp' \in [Run -> Stamp]
  /\ \A s \in Run \ {r} : stamp'[s] = stamp[s]
  /\ t # "torn" => stamp'[r] = t

\* Mutant: the lock is not taken.
EnterUnlocked(r) ==
  /\ at[r] = "want"
  /\ IF tree[Here(r)] # "absent"
     THEN HandOut(r, tree[Here(r)]) /\ UNCHANGED tree
     ELSE Goes(r, "clone") /\ Leaves(Here(r), "torn") /\ UNCHANGED stamp
  /\ UNCHANGED <<plan, nth, marred>>

\* A checkout with a .git is reused as it is; else git clone begins with one.
Enter(r) ==
  /\ at[r] = "want" /\ ~Locked(Here(r))
  /\ IF tree[Here(r)] # "absent"
     THEN HandOut(r, tree[Here(r)]) /\ UNCHANGED tree
     ELSE Goes(r, "clone") /\ Leaves(Here(r), "torn") /\ UNCHANGED stamp
  /\ UNCHANGED <<plan, nth, marred>>

\* The clone is there; for a commit it is of the default branch so far.
Cloned(r) ==
  /\ at[r] \in {"clone", "again"}
  /\ LET l == Here(r)
         t == IF at[r] = "again" \/ RefKind[l] = "commit" THEN "default" ELSE Wanted(l)
     IN /\ Leaves(l, t)
        /\ IF at[r] = "clone" /\ RefKind[l] = "commit"
           THEN Goes(r, "fetch") /\ UNCHANGED stamp
           ELSE HandOut(r, t)
  /\ UNCHANGED <<plan, nth, marred>>

\* Clone returns an error: the next candidate, or no checkout at all.
NextCandidate(r) ==
  IF nth[r] < Len(plan[r])
  THEN nth' = [nth EXCEPT ![r] = @ + 1] /\ Goes(r, "want")
  ELSE Goes(r, "without") /\ UNCHANGED nth

\* The first clone of a name fails, whatever the reason: its remains are
\* removed and the default branch is cloned in its place.
OtherBranch(r) ==
  /\ at[r] = "clone" /\ RefKind[Here(r)] = "name"
  /\ Goes(r, "again")
  /\ Leaves(Here(r), "torn")
  /\ Mars(Here(r))
  /\ UNCHANGED <<plan, nth, stamp>>

\* Another clone fails: git cleans up behind itself, unless it is killed.
CloneFails(r) ==
  /\ \/ at[r] = "again"
     \/ at[r] = "clone" /\ RefKind[Here(r)] # "name"
  /\ \E t \in {"absent", "torn"} : Leaves(Here(r), t)
  /\ Mars(Here(r))
  /\ NextCandidate(r)
  /\ UNCHANGED <<plan, stamp>>

Fetched(r) ==
  /\ at[r] = "fetch"
  /\ Goes(r, "checkout")
  /\ UNCHANGED <<plan, tree, nth, stamp, marred>>

\* The commit cannot be fetched: the default branch is kept.
NotFetched(r) ==
  /\ at[r] = "fetch"
  /\ HandOut(r, tree[Here(r)])
  /\ Mars(Here(r))
  /\ UNCHANGED <<plan, tree, nth>>

CheckedOut(r) ==
  /\ at[r] = "checkout"
  /\ Leaves(Here(r), "asked")
  /\ HandOut(r, "asked")
  /\ UNCHANGED <<plan, nth, marred>>

\* An error of the checkout is dropped; a killed one leaves some of the files.
NotCheckedOut(r) ==
  /\ at[r] = "checkout"
  /\ \E t \in {"default", "torn"} : Leaves(Here(r), t) /\ HandOut(r, t)
  /\ Mars(Here(r))
  /\ UNCHANGED <<plan, nth>>

\* The process dies or its context is done: every git is killed where it is.
DropClones ==
  /\ tree' \in [Location -> Tree]
  /\ \A l \in Location :
       IF \E r \in Run : at[r] \in InGit \ {"fetch"} /\ Here(r) = l
       THEN tree'[l] \in (IF \E r \in Run : at[r] = "checkout" /\ Here(r) = l
                          THEN {"default", "torn"} ELSE {"absent", "torn"})
       ELSE tree'[l] = tree[l]
  /\ marred' = marred \cup {l \in Location : Locked(l)}
  /\ at' = [r \in Run |-> "out"]
  /\ nth' = [r \in Run |-> 1]
  /\ stamp' = [r \in Run |-> "none"]
  /\ UNCHANGED plan

\* The run ends.
Release(r) ==
  /\ at' = [at EXCEPT ![r] = "out"]
  /\ nth' = [nth EXCEPT ![r] = 1]
  /\ stamp' = [stamp EXCEPT ![r] = "none"]
  /\ UNCHANGED <<plan, tree, marred>>

CloneStep(r) ==
  Enter(r) \/ Cloned(r) \/ Fetched(r) \/ CheckedOut(r)

\* Commands that fail or are killed; the caller counts them.
CloneTrouble(r) ==
  OtherBranch(r) \/ CloneFails(r) \/ NotFetched(r) \/ NotCheckedOut(r)

Materialized(r) == at[r] \in {"have", "without"}

\* While a run works on a checkout, its files are those of the commit its
\* answers are filed under, all of them, and that is the version asked for:
\* other runs that want the same checkout wait for it and leave it alone.
\* Only where a git command failed or died before, in this process or an
\* earlier one, may it be the default branch, or less (repo.go:222-265,
\* pipeline.go:367-383).
CheckoutHolds ==
  \A r \in Run :
    at[r] = "have" =>
      \/ tree[Here(r)] = Wanted(Here(r)) /\ stamp[r] = tree[Here(r)]
      \/ Here(r) \in marred
=============================================================================
