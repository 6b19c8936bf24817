------------------------------- MODULE Delivery -------------------------------
(***************************************************************************)
(* The two ends of Pipeline.run that the runs of a process share with each *)
(* other and with the world: the checkouts it reads code from and the      *)
(* working copy it publishes from; then the upload.  Runs begin again      *)
(* after a failure, as the watch does in its next pass, and after a        *)
(* success when findings change.  The process may die at any point.        *)
(***************************************************************************)
EXTENDS RepoCache, GitOps

CONSTANTS
  MaxFaults   \* bound: failed or killed commands and requests, crashes, and
              \* runs begun again after one that has succeeded

ASSUME RunAssumption   == Run = Product
ASSUME BoundAssumption == MaxFaults \in Nat

VARIABLES
  stage,  \* where each run stands
  out,    \* the document it has published
  faults  \* faults and further runs so far

deliveryVars == <<cacheVars, gitVars, stage, out, faults>>

Stages == {"idle", "clone", "publish", "upload", "done"}

DeliveryTypeOK ==
  /\ CacheTypeOK /\ GitTypeOK
  /\ stage \in [Run -> Stages]
  /\ out \in [Run -> Doc \cup {NoDoc}]
  /\ \A r \in Run : (out[r] # NoDoc) = (stage[r] \in {"upload", "done"})
  /\ \A r \in Run : (at[r] # "out") => stage[r] \in {"clone", "publish", "upload"}
  /\ holder # Nobody => stage[holder] = "publish"
  /\ faults \in 0 .. MaxFaults

DeliveryInit ==
  /\ CacheInit /\ GitInit
  /\ stage = [r \in Run |-> "idle"]
  /\ out = [r \in Run |-> NoDoc]
  /\ faults = 0

Fault == faults < MaxFaults /\ faults' = faults + 1

Reaches(r, s) == stage' = [stage EXCEPT ![r] = s]

Start(r) ==
  /\ stage[r] = "idle"
  /\ Reaches(r, "clone")
  /\ Materialize(r)
  /\ UNCHANGED <<gitVars, out, faults>>

GetCode(r) ==
  /\ stage[r] = "clone"
  /\ \/ CloneStep(r) /\ UNCHANGED faults
     \/ CloneTrouble(r) /\ Fault
  /\ UNCHANGED <<gitVars, stage, out>>

\* Findings are assessed and the document is built (Assess, Guardrails);
\* a missing checkout only means less evidence.
Built(r) ==
  /\ stage[r] = "clone" /\ Materialized(r)
  /\ Reaches(r, "publish")
  /\ UNCHANGED <<cacheVars, gitVars, out, faults>>

\* The steps of Publish that go on, those that end it, and its errors.
Publishing(r) ==
  /\ stage[r] = "publish"
  /\ \/ Sync(r)
     \/ holder = r /\ (Write \/ CommitStaged \/ Push \/ Find)
  /\ UNCHANGED <<cacheVars, stage, out, faults>>

PublishEnds(r) ==
  /\ stage[r] = "publish" /\ holder = r
  /\ PushLast \/ Edit \/ Open
  /\ Reaches(r, "upload")
  /\ out' = [out EXCEPT ![r] = doc]
  /\ UNCHANGED <<cacheVars, faults>>

\* The run fails, and nothing is uploaded.
Fails(r) == Reaches(r, "idle") /\ Release(r) /\ out' = [out EXCEPT ![r] = NoDoc]

PublishRefused(r) ==
  /\ stage[r] = "publish"
  /\ SyncRefused \/ (holder = r /\ (PushRefused \/ OpenRefused))
  /\ Fails(r)
  /\ UNCHANGED faults

PublishBreaks(r) ==
  /\ stage[r] = "publish" /\ Fault
  /\ SyncFails \/ (holder = r /\ PublishFails)
  /\ Fails(r)

Upload(r) ==
  /\ stage[r] = "upload"
  /\ Reaches(r, "done")
  /\ Release(r)
  /\ UNCHANGED <<gitVars, out, faults>>

UploadFails(r) ==
  /\ stage[r] = "upload" /\ Fault
  /\ Fails(r)
  /\ UNCHANGED gitVars

\* Findings change, and the watch picks the SBOM again.
Again(r) ==
  /\ stage[r] = "done" /\ Fault
  /\ Reaches(r, "idle")
  /\ out' = [out EXCEPT ![r] = NoDoc]
  /\ UNCHANGED <<cacheVars, gitVars>>

\* The process dies: locks and mutex are gone, checkouts, working copy and
\* remote are as they are.
Crash ==
  /\ Fault
  /\ \E r \in Run : stage[r] \in {"clone", "publish", "upload"}
  /\ DropClones
  /\ IF holder # Nobody
     THEN PublishFails
     ELSE IF \E r \in Run : stage[r] = "publish" THEN SyncFails ELSE UNCHANGED gitVars
  /\ stage' = [r \in Run |-> IF stage[r] = "done" THEN "done" ELSE "idle"]
  /\ out' = [r \in Run |-> IF stage[r] = "done" THEN out[r] ELSE NoDoc]

RunStep(r) ==
  \/ Start(r) \/ GetCode(r) \/ Built(r)
  \/ Publishing(r) \/ PublishEnds(r) \/ PublishRefused(r) \/ PublishBreaks(r)
  \/ Upload(r) \/ UploadFails(r)

People == PeopleStep /\ UNCHANGED <<cacheVars, stage, out, faults>>

DeliveryNext ==
  \/ \E r \in Run : RunStep(r) \/ Again(r)
  \/ People
  \/ Crash

\* Goroutines are scheduled, every command and request ends, and the watch
\* comes back to what has failed.
DeliverySpec ==
  /\ DeliveryInit /\ [][DeliveryNext]_deliveryVars
  /\ \A r \in Run : WF_deliveryVars(RunStep(r))

-----------------------------------------------------------------------------
\* When a run goes on to the upload, its document is in the base, or lies on
\* its review branch under an open pull request, and stays there until people
\* or a later run for that branch do something about it: not lost to a run
\* of another product, a crash, or a pull request that was closed before
\* (pipeline.go:472-507, gitops.go:240-277).
ProposalStands ==
  \A r \in Run :
    stage[r] \in {"upload", "done"} =>
      \/ out[r] \in Docs(base)
      \/ /\ mode # "direct"
         /\ \/ BranchOf[r] \in handled
            \/ \E s \in Run \ {r} : BranchOf[s] = BranchOf[r]
            \/ out[r] \in OnBranch(BranchOf[r]) /\ (mode = "pr" => pr[BranchOf[r]] = "open")

\* Whatever fails or is refused on the way, a later run completes it: a push
\* without a pull request, a base that has moved on, a branch that was
\* deleted.  Two things end that for good: the lock of a git that was killed,
\* and a base that moved on by more than is fetched (gitops.go:157-183).
EveryRunDelivers ==
  \A r \in Run : stage[r] = "clone" ~> (stage[r] = "done" \/ jammed \/ Behind)

-----------------------------------------------------------------------------
\* What refuses a publish is never another run of the process, nor an earlier
\* one that broke off, except by a lock that a killed git has left: a push
\* that is not a fast-forward has met commits of people, and only those, since
\* the mutex is held from the fetch to the push; and where GitHub opens no pull
\* request, people have dealt with the branch since it was pushed
\* (gitops.go:92-93, 137-145, 255-277).
RefusedForReason ==
  /\ jammed => faults > 0
  /\ step = "push" /\ mode = "direct" /\ ~FastForward =>
       /\ head.from < Len(base)
       /\ \A i \in head.from + 1 .. Len(base) : \A d \in base[i] : d.by = Person
  /\ step = "open" /\ ~Openable(BranchOf[holder]) => BranchOf[holder] \in handled

-----------------------------------------------------------------------------
\* A working copy that several products share, an index that survives a crash,
\* requests that are cut short and runs that begin again: to those who look
\* after the repository it is all a bot that publishes one new document at a
\* time, alone on its branch or at the end of the base, asks for a review of
\* nothing that was turned down, and reports what stands
\* (gitops.go:84-155, pipeline.go:472-507).
Looked == INSTANCE Review WITH
            line   <- [b \in Branch |-> IF review[b] = NoBranch THEN << >> ELSE review[b].commits],
            drafts <- built,
            claims <- out

ImplementsReview == Looked!ReviewSpec
=============================================================================
