----------------------------- MODULE DeliveryProof -----------------------------
(***************************************************************************)
(* What Delivery promises, for any number of products, checkouts, plans,   *)
(* people and faults, and products that share a file or a branch.          *)
(***************************************************************************)
EXTENDS Delivery, WellFoundedInduction, TLAPS

-----------------------------------------------------------------------------
(* Sequences of commits.                                                   *)

LEMMA Concatenated ==
  ASSUME NEW S, NEW a \in Seq(S), NEW b \in Seq(S)
  PROVE  /\ a \o b \in Seq(S) /\ Len(a \o b) = Len(a) + Len(b)
         /\ Len(a) \in Nat /\ Len(b) \in Nat
         /\ \A i \in 1 .. Len(a) : (a \o b)[i] = a[i]
         /\ \A i \in 1 .. Len(b) : (a \o b)[Len(a) + i] = b[i]
         /\ \A i \in 1 .. Len(a \o b) :
              i \in 1 .. Len(a) \/ \E j \in 1 .. Len(b) : i = Len(a) + j
<1>1. /\ a \o b \in Seq(S) /\ Len(a \o b) = Len(a) + Len(b)
      /\ Len(a) \in Nat /\ Len(b) \in Nat
  OBVIOUS
<1>2. ASSUME NEW i \in 1 .. Len(a \o b), i \notin 1 .. Len(a)
      PROVE  \E j \in 1 .. Len(b) : i = Len(a) + j
  <2>1. i - Len(a) \in 1 .. Len(b) /\ i = Len(a) + (i - Len(a))
    BY <1>1, <1>2
  <2> QED BY <2>1
<1>3. \A i \in 1 .. Len(a) : (a \o b)[i] = a[i]
  BY <1>1
<1>4. \A i \in 1 .. Len(b) : (a \o b)[Len(a) + i] = b[i]
  BY <1>1
<1> QED BY <1>1, <1>2, <1>3, <1>4

LEMMA DocsConcat ==
  ASSUME NEW a \in Seq(Commit), NEW b \in Seq(Commit)
  PROVE  Docs(a \o b) = Docs(a) \cup Docs(b)
<1>1. /\ DOMAIN a = 1 .. Len(a) /\ DOMAIN b = 1 .. Len(b)
      /\ DOMAIN (a \o b) = 1 .. Len(a \o b)
  BY Concatenated
<1>2. ASSUME NEW d \in Docs(a \o b) PROVE d \in Docs(a) \cup Docs(b)
  <2>1. PICK i \in 1 .. Len(a \o b) : d \in (a \o b)[i]
    BY <1>1, <1>2 DEF Docs
  <2>2. CASE i \in 1 .. Len(a)
    BY <1>1, <2>1, <2>2, Concatenated DEF Docs
  <2>3. CASE \E j \in 1 .. Len(b) : i = Len(a) + j
    <3>1. PICK j \in 1 .. Len(b) : i = Len(a) + j
      BY <2>3
    <3>2. d \in b[j]
      BY <2>1, <3>1, Concatenated
    <3> QED BY <1>1, <3>2 DEF Docs
  <2> QED BY <2>2, <2>3, Concatenated
<1>3. ASSUME NEW d \in Docs(a) PROVE d \in Docs(a \o b)
  <2>1. PICK i \in 1 .. Len(a) : d \in a[i]
    BY <1>1, <1>3 DEF Docs
  <2>2. i \in 1 .. Len(a \o b) /\ d \in (a \o b)[i]
    BY <2>1, Concatenated
  <2> QED BY <1>1, <2>2 DEF Docs
<1>4. ASSUME NEW d \in Docs(b) PROVE d \in Docs(a \o b)
  <2>1. PICK j \in 1 .. Len(b) : d \in b[j]
    BY <1>1, <1>4 DEF Docs
  <2>2. Len(a) + j \in 1 .. Len(a \o b) /\ d \in (a \o b)[Len(a) + j]
    BY <2>1, Concatenated
  <2> QED BY <1>1, <2>2 DEF Docs
<1> QED BY <1>2, <1>3, <1>4

LEMMA DocsOne ==
  ASSUME NEW c \in Commit
  PROVE  /\ <<c>> \in Seq(Commit) /\ Len(<<c>>) = 1
         /\ Docs(<<c>>) = c /\ Docs(<< >>) = {}
<1>1. /\ <<c>> \in Seq(Commit) /\ DOMAIN <<c>> = {1} /\ <<c>>[1] = c /\ DOMAIN << >> = {}
      /\ Len(<<c>>) = 1
  OBVIOUS
<1>2. ASSUME NEW d \in Docs(<<c>>) PROVE d \in c
  BY <1>1, <1>2 DEF Docs
<1>3. ASSUME NEW d \in c PROVE d \in Docs(<<c>>)
  BY <1>1, <1>3 DEF Docs
<1>4. Docs(<< >>) = {}
  BY <1>1 DEF Docs
<1> QED BY <1>1, <1>2, <1>3, <1>4

LEMMA Appended ==
  ASSUME NEW a \in Seq(Commit), NEW c \in Commit
  PROVE  Append(a, c) = a \o <<c>> /\ Append(a, c) \in Seq(Commit)
OBVIOUS

LEMMA DocsTyped ==
  ASSUME NEW a \in Seq(Commit)
  PROVE  Docs(a) \subseteq Doc
<1> SUFFICES ASSUME NEW d \in Docs(a) PROVE d \in Doc
  OBVIOUS
<1>1. PICK i \in DOMAIN a : d \in a[i]
  BY DEF Docs
<1>2. a[i] \in Commit
  BY <1>1
<1> QED BY <1>1, <1>2 DEF Commit

\* Sequences of commits that change one file each.
Single(c) == \A d, e \in c : d.file = e.file
Tidy(s)   == \A i \in DOMAIN s : Single(s[i])

LEMMA TidyConcat ==
  ASSUME NEW a \in Seq(Commit), NEW b \in Seq(Commit), Tidy(a), Tidy(b)
  PROVE  Tidy(a \o b)
<1>1. /\ DOMAIN a = 1 .. Len(a) /\ DOMAIN b = 1 .. Len(b)
      /\ DOMAIN (a \o b) = 1 .. Len(a \o b)
  BY Concatenated
<1> SUFFICES ASSUME NEW i \in 1 .. Len(a \o b) PROVE Single((a \o b)[i])
  BY <1>1 DEF Tidy
<1>2. CASE i \in 1 .. Len(a)
  <2>1. (a \o b)[i] = a[i] /\ Single(a[i])
    BY <1>1, <1>2, Concatenated DEF Tidy
  <2> QED BY <2>1
<1>3. CASE \E j \in 1 .. Len(b) : i = Len(a) + j
  <2>1. PICK j \in 1 .. Len(b) : i = Len(a) + j
    BY <1>3
  <2>2. (a \o b)[i] = b[j]
    BY <2>1, Concatenated
  <2>3. Single(b[j])
    BY <1>1 DEF Tidy
  <2> QED BY <2>2, <2>3
<1> QED BY <1>2, <1>3, Concatenated

LEMMA TidyOne ==
  ASSUME NEW c \in Commit, Single(c)
  PROVE  Tidy(<<c>>) /\ Tidy(<< >>)
<1>1. DOMAIN <<c>> = {1} /\ <<c>>[1] = c /\ DOMAIN << >> = {}
  OBVIOUS
<1> QED BY <1>1 DEF Tidy

LEMMA PrefixOfConcat ==
  ASSUME NEW a \in Seq(Commit), NEW b \in Seq(Commit)
  PROVE  SubSeq(a \o b, 1, Len(a)) = a
OBVIOUS

-----------------------------------------------------------------------------
(* The repository that is published to.                                    *)

GitStep ==
  \/ \E p \in Product : Sync(p)
  \/ Write \/ CommitStaged \/ Push \/ PushLast \/ PushRefused
  \/ Find \/ Edit \/ Open \/ OpenRefused \/ PublishFails \/ SyncFails
  \/ PeopleStep

LEMMA StepsOfGit == DeliveryNext => GitStep \/ UNCHANGED gitVars
<1> SUFFICES ASSUME DeliveryNext PROVE GitStep \/ UNCHANGED gitVars
  OBVIOUS
<1>1. CASE \E r \in Run : RunStep(r) \/ Again(r)
  <2>1. PICK r \in Run : RunStep(r) \/ Again(r)
    BY <1>1
  <2>2. r \in Product
    BY RunAssumption
  <2>3. CASE Start(r) \/ GetCode(r) \/ Built(r) \/ Upload(r) \/ UploadFails(r) \/ Again(r)
    BY <2>3 DEF Start, GetCode, Built, Upload, UploadFails, Again
  <2>4. CASE Publishing(r)
    BY <2>2, <2>4 DEF Publishing, GitStep
  <2>5. CASE PublishEnds(r)
    BY <2>5 DEF PublishEnds, GitStep
  <2>6. CASE PublishRefused(r)
    BY <2>6 DEF PublishRefused, SyncRefused, GitStep
  <2>7. CASE PublishBreaks(r)
    BY <2>7 DEF PublishBreaks, GitStep
  <2> QED BY <2>1, <2>3, <2>4, <2>5, <2>6, <2>7 DEF RunStep
<1>2. CASE People
  BY <1>2 DEF People, GitStep
<1>3. CASE Crash
  BY <1>3 DEF Crash, GitStep
<1> QED BY <1>1, <1>2, <1>3 DEF DeliveryNext

LEMMA GitTypeInit == GitInit => GitTypeOK
<1> SUFFICES ASSUME GitInit PROVE GitTypeOK
  OBVIOUS
<1>0. {} \in Commit
  BY DEF Commit
<1>1. base \in Seq(Commit) /\ Len(base) = 1
  BY <1>0, DocsOne DEF GitInit
<1>2. head \in Line
  BY DEF GitInit, Line
<1>3. known \in 0 .. Len(base) /\ people \in 0 .. MaxPeople
  BY <1>1, GitAssumption, DocumentAssumption DEF GitInit
<1>4. /\ review \in [Branch -> Line \cup {NoBranch}]
      /\ pr \in [Branch -> {"none", "open", "closed"}]
      /\ built \in [Product -> Nat]
  BY DEF GitInit
<1> QED BY <1>1, <1>2, <1>3, <1>4, GitAssumption, DocumentAssumption DEF GitInit, GitTypeOK, Step

LEMMA NewDocs ==
  ASSUME GitTypeOK
  PROVE  /\ \A f \in File : ByPeople(f) \in Doc /\ {ByPeople(f)} \in Commit
         /\ \A b \in Branch : OnBranch(b) \subseteq Doc
         /\ \A b \in Branch : Touched(b) \subseteq File
         /\ \A b \in Branch : review[b] # NoBranch =>
              review[b].commits \in Seq(Commit) /\ review[b].from \in Nat
<1>1. people \in Nat
  BY GitAssumption, DocumentAssumption DEF GitTypeOK
<1>2. \A f \in File : ByPeople(f) \in Doc
  BY <1>1 DEF ByPeople, Doc
<1>3. ASSUME NEW b \in Branch, review[b] # NoBranch
      PROVE  review[b].commits \in Seq(Commit) /\ review[b].from \in Nat
  BY <1>3 DEF GitTypeOK, Line
<1>4. \A b \in Branch : OnBranch(b) \subseteq Doc
  BY <1>3, DocsTyped DEF OnBranch
<1>5. \A b \in Branch : Touched(b) \subseteq File
  BY <1>4 DEF Touched, Doc
<1> QED BY <1>2, <1>3, <1>4, <1>5 DEF Commit

\* A push, by type.
LEMMA PushTypes ==
  ASSUME GitTypeOK, step = "push", Pushed
  PROVE  /\ base' \in Seq(Commit) /\ Len(base') >= Len(base) /\ Len(base) \in Nat
         /\ review' \in [Branch -> Line \cup {NoBranch}]
         /\ pr' \in [Branch -> {"none", "open", "closed"}]
         /\ people' \in 0 .. MaxPeople
         /\ handled' \subseteq Branch /\ rejected' \subseteq Doc
<1>1. head.commits \in Seq(Commit) /\ base \in Seq(Commit)
  BY DEF GitTypeOK, Line
<1>2. CASE mode = "direct"
  <2>1. /\ base' = base \o head.commits
        /\ UNCHANGED <<review, pr, people, handled, rejected>>
    BY <1>2 DEF Pushed
  <2>2. base' \in Seq(Commit) /\ Len(base') >= Len(base) /\ Len(base) \in Nat
    BY <1>1, <2>1, Concatenated
  <2> QED BY <2>1, <2>2 DEF GitTypeOK
<1>3. CASE mode # "direct"
  <2>1. /\ review' = [review EXCEPT ![BranchOf[holder]] = head]
        /\ handled' = handled \ {BranchOf[holder]}
        /\ UNCHANGED <<base, pr, people, rejected>>
    BY <1>3 DEF Pushed
  <2>2. review' \in [Branch -> Line \cup {NoBranch}] /\ handled' \subseteq Branch
    BY <2>1 DEF GitTypeOK
  <2>3. Len(base) \in Nat
    BY <1>1
  <2> QED BY <1>1, <2>1, <2>2, <2>3 DEF GitTypeOK
<1> QED BY <1>2, <1>3

LEMMA GitTypeStep == GitTypeOK /\ GitStep => GitTypeOK'
<1> SUFFICES ASSUME GitTypeOK, GitStep PROVE GitTypeOK'
  OBVIOUS
<1>0. /\ base \in Seq(Commit) /\ Len(base) \in Nat /\ known \in Nat
      /\ head.commits \in Seq(Commit) /\ head.from \in Nat
      /\ people \in Nat /\ Nobody \notin Product /\ NoDoc \notin Doc
  BY GitAssumption, DocumentAssumption DEF GitTypeOK, Line
<1>1. CASE \E p \in Product : Sync(p)
  <2>1. PICK p \in Product : Sync(p)
    BY <1>1
  <2>2. built' \in [Product -> Nat] /\ built'[p] \in Nat
    BY <2>1 DEF Sync, Begins, GitTypeOK
  <2>3. doc' \in Doc
    BY <2>1, <2>2 DEF Sync, Begins, Doc, File
  <2>4. head' \in Line
    BY <1>0, <2>1 DEF Sync, AtBase, Line
  <2> QED BY <1>0, <2>1, <2>2, <2>3, <2>4 DEF Sync, Begins, GitTypeOK, remoteVars, Step
<1>2. CASE Write
  BY <1>2, <1>0 DEF Write, GitTypeOK, remoteVars, Step
<1>3. CASE CommitStaged
  <2>1. Append(head.commits, staged) \in Seq(Commit)
    BY <1>0, Appended DEF GitTypeOK, Commit
  <2>2. head' \in Line
    BY <1>3, <2>1 DEF CommitStaged, GitTypeOK, Line
  <2> QED BY <1>3, <1>0, <2>2 DEF CommitStaged, GitTypeOK, remoteVars, Step
<1>4. CASE Push
  <2>1. step = "push" /\ Pushed
    BY <1>4 DEF Push
  <2> QED BY <1>4, <1>0, <2>1, PushTypes DEF Push, GitTypeOK, copyVars, Step
<1>5. CASE PushLast
  <2>1. step = "push" /\ Pushed
    BY <1>5 DEF PushLast
  <2>2. known' \in 0 .. Len(base') /\ Len(base') \in Nat
    BY <1>5, <1>0, <2>1, PushTypes DEF PushLast, GitTypeOK
  <2> QED BY <1>5, <1>0, <2>1, <2>2, PushTypes DEF PushLast, Free, GitTypeOK, Step
<1>6. CASE PushRefused \/ Edit \/ OpenRefused
  BY <1>6, <1>0 DEF PushRefused, Edit, OpenRefused, Free, GitTypeOK, remoteVars, copyVars, Step
<1>7. CASE Find
  BY <1>7, <1>0 DEF Find, GitTypeOK, remoteVars, copyVars, Step
<1>8. CASE Open
  BY <1>8, <1>0 DEF Open, Opened, Free, GitTypeOK, copyVars, Step
<1>9. CASE PublishFails
  <2>1. /\ base' \in Seq(Commit) /\ Len(base') >= Len(base)
        /\ review' \in [Branch -> Line \cup {NoBranch}]
        /\ pr' \in [Branch -> {"none", "open", "closed"}]
        /\ people' \in 0 .. MaxPeople
        /\ handled' \subseteq Branch /\ rejected' \subseteq Doc
    <3>1. CASE UNCHANGED remoteVars
      BY <3>1, <1>0 DEF GitTypeOK, remoteVars
    <3>2. CASE step = "push" /\ Pushed
      BY <3>2, PushTypes
    <3>3. CASE step = "open" /\ Opened
      <4>1. pr' \in [Branch -> {"none", "open", "closed"}]
        BY <3>3 DEF Opened, GitTypeOK
      <4> QED BY <3>3, <4>1, <1>0 DEF Opened, GitTypeOK
    <3> QED BY <1>9, <3>1, <3>2, <3>3 DEF PublishFails
  <2>2. known' \in 0 .. Len(base')
    BY <1>9, <1>0, <2>1 DEF PublishFails, GitTypeOK
  <2>3. jammed' \in BOOLEAN
    BY <1>9 DEF PublishFails, GitTypeOK
  <2> QED BY <1>9, <1>0, <2>1, <2>2, <2>3 DEF PublishFails, Free, GitTypeOK, Step
<1>10. CASE SyncFails
  BY <1>10, <1>0 DEF SyncFails, GitTypeOK, remoteVars, pubVars
<1>11. CASE PeopleStep
  <2>0. people < MaxPeople /\ people' = people + 1 => people' \in 0 .. MaxPeople
    BY <1>0, GitAssumption, DocumentAssumption DEF GitTypeOK
  <2>1. ASSUME NEW b \in Branch, Merge(b) PROVE GitTypeOK'
    <3>1. review[b].commits \in Seq(Commit)
      BY <2>1, NewDocs DEF Merge, UnderReview
    <3>2. base' \in Seq(Commit) /\ Len(base') >= Len(base) /\ Len(base') \in Nat
      BY <2>1, <1>0, <3>1, Concatenated DEF Merge
    <3>3. /\ review' \in [Branch -> Line \cup {NoBranch}]
          /\ pr' \in [Branch -> {"none", "open", "closed"}]
          /\ handled' \subseteq Branch
      BY <2>1 DEF Merge, GitTypeOK
    <3>4. known' \in 0 .. Len(base')
      BY <2>1, <1>0, <3>2 DEF Merge, copyVars, GitTypeOK
    <3> QED BY <2>1, <2>0, <1>0, <3>2, <3>3, <3>4 DEF Merge, Acts, GitTypeOK, copyVars, pubVars
  <2>2. ASSUME NEW b \in Branch, Close(b) PROVE GitTypeOK'
    <3>1. rejected' \subseteq Doc
      BY <2>2, NewDocs DEF Close, GitTypeOK
    <3>2. review' \in [Branch -> Line \cup {NoBranch}]
      BY <2>2 DEF Close, GitTypeOK
    <3> QED BY <2>2, <2>0, <1>0, <3>1, <3>2 DEF Close, Acts, GitTypeOK, copyVars, pubVars
  <2>3. ASSUME NEW b \in Branch, Amend(b) PROVE GitTypeOK'
    <3>1. review[b] \in Line /\ review[b].commits \in Seq(Commit)
      BY <2>3, NewDocs DEF Amend, UnderReview, GitTypeOK
    <3>2. PICK f \in Touched(b) :
            review' = [review EXCEPT ![b].commits = Append(@, {ByPeople(f)})]
      BY <2>3 DEF Amend
    <3>3. {ByPeople(f)} \in Commit
      BY NewDocs
    <3>4. Append(review[b].commits, {ByPeople(f)}) \in Seq(Commit)
      BY <3>1, <3>3, Appended
    <3>5. [review[b] EXCEPT !.commits = Append(@, {ByPeople(f)})] \in Line
      BY <3>1, <3>4 DEF Line
    <3>6. review' \in [Branch -> Line \cup {NoBranch}]
      BY <3>2, <3>5 DEF GitTypeOK
    <3> QED BY <2>3, <2>0, <1>0, <3>6 DEF Amend, Acts, GitTypeOK, copyVars, pubVars
  <2>4. ASSUME NEW f \in File, Change(f) PROVE GitTypeOK'
    <3>1. base' \in Seq(Commit) /\ Len(base') = Len(base) + 1
      BY <2>4, <1>0, NewDocs, Appended DEF Change
    <3>2. known' \in 0 .. Len(base')
      BY <2>4, <1>0, <3>1 DEF Change, copyVars, GitTypeOK
    <3> QED BY <2>4, <2>0, <1>0, <3>1, <3>2 DEF Change, Acts, GitTypeOK, copyVars, pubVars
  <2> QED BY <1>11, <2>1, <2>2, <2>3, <2>4 DEF PeopleStep
<1> QED
  BY <1>1, <1>2, <1>3, <1>4, <1>5, <1>6, <1>7, <1>8, <1>9, <1>10, <1>11 DEF GitStep

\* A push to the base adds to it, and nothing else changes it without people.
LEMMA Additions ==
  ASSUME GitTypeOK, GitStep
  PROVE  \E more \in Seq(Commit) : base' = base \o more
<1>0. base \in Seq(Commit) /\ head.commits \in Seq(Commit)
  BY DEF GitTypeOK, Line
<1>1. base' = base => base' = base \o << >> /\ << >> \in Seq(Commit)
  BY <1>0
<1>2. ASSUME Pushed PROVE base' = base \/ base' = base \o head.commits
  BY <1>2 DEF Pushed
<1>3. CASE Push \/ PushLast \/ PublishFails
  BY <1>3, <1>0, <1>1, <1>2 DEF Push, PushLast, PublishFails, Opened, remoteVars
<1>4. CASE PeopleStep
  <2>1. ASSUME NEW b \in Branch, Merge(b) PROVE \E more \in Seq(Commit) : base' = base \o more
    BY <2>1, NewDocs DEF Merge, UnderReview
  <2>2. ASSUME NEW f \in File, Change(f) PROVE \E more \in Seq(Commit) : base' = base \o more
    <3>1. {ByPeople(f)} \in Commit
      BY NewDocs
    <3> QED BY <2>2, <1>0, <3>1, Appended, DocsOne DEF Change
  <2> QED BY <1>4, <1>1, <2>1, <2>2 DEF PeopleStep, Close, Amend
<1> QED
  BY <1>1, <1>3, <1>4 DEF GitStep, Sync, Write, CommitStaged, PushRefused, Find, Edit, Open, Opened,
     OpenRefused, SyncFails, remoteVars

LEMMA KeepsHistory ==
  ASSUME GitTypeOK, GitStep
  PROVE  SubSeq(base', 1, Len(base)) = base
<1>1. base \in Seq(Commit)
  BY DEF GitTypeOK
<1> QED BY <1>1, Additions, PrefixOfConcat

\* One file per commit, also of the commits and the index in hand.
TidyInv ==
  /\ Tidy(base)
  /\ \A b \in Branch : review[b] # NoBranch => Tidy(review[b].commits)
  /\ Tidy(head.commits)
  /\ Single(staged) \/ step # "commit"
  /\ step = "write" => staged = {}

LEMMA TidyInit == GitInit => TidyInv
<1> SUFFICES ASSUME GitInit PROVE TidyInv
  OBVIOUS
<1>1. {} \in Commit /\ Single({})
  BY DEF Commit, Single
<1> QED BY <1>1, TidyOne DEF GitInit, TidyInv, Step

LEMMA TidyPush ==
  ASSUME GitTypeOK, TidyInv, Pushed, step = "push"
  PROVE  /\ Tidy(base')
         /\ \A b \in Branch : review'[b] # NoBranch => Tidy(review'[b].commits)
<1>1. head.commits \in Seq(Commit) /\ base \in Seq(Commit)
  BY DEF GitTypeOK, Line
<1>2. CASE mode = "direct"
  BY <1>1, <1>2, TidyConcat DEF Pushed, TidyInv
<1>3. CASE mode # "direct"
  <2>1. base' = base /\ review' = [review EXCEPT ![BranchOf[holder]] = head]
    BY <1>3 DEF Pushed
  <2> QED BY <2>1 DEF TidyInv, GitTypeOK
<1> QED BY <1>2, <1>3

LEMMA TidyStep == GitTypeOK /\ TidyInv /\ GitStep => TidyInv'
<1> SUFFICES ASSUME GitTypeOK, TidyInv, GitStep PROVE TidyInv'
  OBVIOUS
<1>0. /\ base \in Seq(Commit) /\ head.commits \in Seq(Commit) /\ {} \in Commit /\ Single({})
      /\ (step = "free" <=> holder = Nobody)
  BY DEF GitTypeOK, Line, Commit, Single
<1>1. CASE \E p \in Product : Sync(p)
  <2>1. PICK p \in Product : Sync(p)
    BY <1>1
  <2>2. /\ head'.commits = << >> /\ step' = "write" /\ staged' = {}
        /\ UNCHANGED <<base, review>>
    BY <2>1 DEF Sync, Begins, AtBase, remoteVars
  <2>3. Tidy(<< >>)
    BY <1>0, TidyOne
  <2> QED BY <2>2, <2>3 DEF TidyInv
<1>2. CASE Write
  <2>1. Single({doc})
    BY DEF Single
  <2>2. staged' = {doc}
    BY <1>2 DEF Write, TidyInv
  <2> QED BY <1>2, <2>1, <2>2 DEF Write, TidyInv, remoteVars
<1>3. CASE CommitStaged
  <2>1. Single(staged) /\ staged \in Commit
    BY <1>3 DEF CommitStaged, TidyInv, GitTypeOK, Commit
  <2>2. Tidy(Append(head.commits, staged))
    BY <1>0, <2>1, Appended, TidyConcat, TidyOne, DocsOne DEF TidyInv
  <2>3. head'.commits = Append(head.commits, staged)
    BY <1>3 DEF CommitStaged, GitTypeOK, Line
  <2> QED BY <1>3, <2>2, <2>3 DEF CommitStaged, TidyInv, remoteVars
<1>4. CASE Push \/ PushLast
  <2>1. Pushed /\ step = "push" /\ step' \notin {"write", "commit"} /\ head' = head
    BY <1>4 DEF Push, PushLast, Free, copyVars
  <2> QED BY <2>1, TidyPush DEF TidyInv
<1>5. CASE PublishFails
  <2>1. /\ Tidy(base')
        /\ \A b \in Branch : review'[b] # NoBranch => Tidy(review'[b].commits)
    BY <1>5, TidyPush DEF PublishFails, Opened, TidyInv, remoteVars
  <2> QED BY <1>5, <2>1 DEF PublishFails, Free, TidyInv
<1>6. CASE PushRefused \/ Edit \/ OpenRefused \/ Open \/ Find
  <2>1. step' \notin {"write", "commit"} /\ UNCHANGED <<base, review, head>>
    BY <1>6 DEF PushRefused, Edit, OpenRefused, Open, Opened, Find, Free, remoteVars, copyVars
  <2> QED BY <2>1 DEF TidyInv
<1>7. CASE SyncFails
  <2>1. UNCHANGED <<base, review, head, step, staged>>
    BY <1>7 DEF SyncFails, remoteVars, pubVars
  <2> QED BY <2>1 DEF TidyInv
<1>8. CASE PeopleStep
  <2>0. UNCHANGED <<head, staged, step>>
    BY <1>8 DEF PeopleStep, Merge, Close, Amend, Change, copyVars, pubVars
  <2>1. ASSUME NEW b \in Branch, Merge(b) PROVE TidyInv'
    <3>1. review[b].commits \in Seq(Commit) /\ Tidy(review[b].commits)
      BY <2>1, NewDocs DEF Merge, UnderReview, TidyInv
    <3>2. Tidy(base')
      BY <2>1, <1>0, <3>1, TidyConcat DEF Merge, TidyInv
    <3>3. \A c \in Branch : review'[c] # NoBranch => Tidy(review'[c].commits)
      BY <2>1 DEF Merge, TidyInv, GitTypeOK
    <3> QED BY <2>0, <3>2, <3>3 DEF TidyInv
  <2>2. ASSUME NEW b \in Branch, Close(b) PROVE TidyInv'
    <3>1. \A c \in Branch : review'[c] # NoBranch => Tidy(review'[c].commits)
      BY <2>2 DEF Close, TidyInv, GitTypeOK
    <3> QED BY <2>0, <2>2, <3>1 DEF Close, TidyInv
  <2>3. ASSUME NEW b \in Branch, Amend(b) PROVE TidyInv'
    <3>1. PICK f \in Touched(b) :
            review' = [review EXCEPT ![b].commits = Append(@, {ByPeople(f)})]
      BY <2>3 DEF Amend
    <3>2. {ByPeople(f)} \in Commit /\ Single({ByPeople(f)})
      BY NewDocs DEF Single
    <3>3. review[b] # NoBranch /\ review[b] \in Line /\ review[b].commits \in Seq(Commit)
      BY <2>3, NewDocs DEF Amend, UnderReview, GitTypeOK
    <3>4. Tidy(Append(review[b].commits, {ByPeople(f)}))
      BY <3>2, <3>3, Appended, TidyConcat, TidyOne, DocsOne DEF TidyInv
    <3>5. review'[b].commits = Append(review[b].commits, {ByPeople(f)})
      BY <3>1, <3>3 DEF GitTypeOK, Line
    <3>6. \A c \in Branch \ {b} : review'[c] = review[c]
      BY <3>1 DEF GitTypeOK
    <3> QED BY <2>0, <2>3, <3>4, <3>5, <3>6 DEF Amend, TidyInv
  <2>4. ASSUME NEW f \in File, Change(f) PROVE TidyInv'
    <3>1. {ByPeople(f)} \in Commit /\ Single({ByPeople(f)})
      BY NewDocs DEF Single
    <3>2. Tidy(base')
      BY <2>4, <1>0, <3>1, Appended, TidyConcat, TidyOne, DocsOne DEF Change, TidyInv
    <3> QED BY <2>0, <2>4, <3>2 DEF Change, TidyInv
  <2> QED BY <1>8, <2>1, <2>2, <2>3, <2>4 DEF PeopleStep
<1> QED
  BY <1>1, <1>2, <1>3, <1>4, <1>5, <1>6, <1>7, <1>8 DEF GitStep

LEMMA TidyIsOwn == TidyInv => OwnFileOnly
BY DEF TidyInv, OwnFileOnly, Tidy, Single

-----------------------------------------------------------------------------
(* What people have turned down.                                           *)

\* Documents are numbered: no later one is any of those that are around.
Numbered(S) ==
  \A d \in S : IF d.by = Person THEN d.no < people ELSE d.no <= built[d.by]

Looks == {"find", "edit", "open"}

\* What is open for review was not turned down, nor is it in the base, on
\* another branch, or in the hands of a publish that has not pushed.
RemoteInv ==
  /\ Numbered(Docs(base)) /\ Numbered(rejected)
  /\ \A b \in Branch : Numbered(OnBranch(b))
  /\ rejected \cap Docs(base) = {}
  /\ \A b \in Branch : pr[b] = "open" =>
       OnBranch(b) \cap rejected = {} /\ OnBranch(b) \cap Docs(base) = {}
  /\ \A b, c \in Branch : b # c => OnBranch(b) \cap OnBranch(c) = {}

HandInv ==
  holder # Nobody =>
    /\ Numbered({doc})
    /\ step \in {"write", "commit", "push"} =>
         /\ doc \notin rejected /\ doc \notin Docs(base)
         /\ \A b \in Branch : doc \notin OnBranch(b)
    /\ step = "write" => staged = {} /\ Docs(head.commits) = {}
    /\ step = "commit" => staged = {doc} /\ Docs(head.commits) = {}
    /\ step = "push" => Docs(head.commits) = {doc}
    /\ step \in Looks =>
         OnBranch(BranchOf[holder]) \cap (rejected \cup Docs(base)) = {}

RejectInv == RemoteInv /\ HandInv

LEMMA RejectInit == GitInit => RejectInv
<1> SUFFICES ASSUME GitInit PROVE RejectInv
  OBVIOUS
<1>1. {} \in Commit
  BY DEF Commit
<1>2. Docs(base) = {} /\ rejected = {} /\ \A b \in Branch : OnBranch(b) = {}
  BY <1>1, DocsOne DEF GitInit, OnBranch
<1>3. holder = Nobody
  BY DEF GitInit
<1> QED BY <1>2, <1>3 DEF RejectInv, RemoteInv, HandInv, Numbered

\* A new document of the product is none of those around.
LEMMA NewNumber ==
  ASSUME GitTypeOK, NEW p \in Product, NEW S, Numbered(S), NEW d,
         d.by = p, d.no = built[p] + 1
  PROVE  d \notin S
<1>1. built[p] \in Nat /\ p # Person
  BY GitAssumption, DocumentAssumption DEF GitTypeOK
<1> QED BY <1>1 DEF Numbered

LEMMA NewNumberOfPeople ==
  ASSUME GitTypeOK, NEW S, Numbered(S), NEW f
  PROVE  ByPeople(f) \notin S
<1>1. people \in Nat
  BY GitAssumption, DocumentAssumption DEF GitTypeOK
<1> QED BY <1>1 DEF Numbered, ByPeople

\* Numbers are never taken back.
LEMMA NumbersGrow ==
  ASSUME GitTypeOK, NEW S \in SUBSET Doc, Numbered(S), people' = people \/ people' = people + 1,
         built' = built \/ \E p \in Product : built' = [built EXCEPT ![p] = @ + 1]
  PROVE  Numbered(S)'
<1>1. people \in Nat
  BY GitAssumption, DocumentAssumption DEF GitTypeOK
<1>2. built \in [Product -> Nat]
  BY DEF GitTypeOK
<1>3. \A p \in Product : built'[p] >= built[p] /\ built'[p] \in Nat
  BY <1>2
<1> SUFFICES ASSUME NEW d \in S
             PROVE  IF d.by = Person THEN d.no < people' ELSE d.no <= built'[d.by]
  BY DEF Numbered
<1>4. d.no \in Nat /\ d.by \in Product \cup {Person}
  BY DEF Doc
<1>5. CASE d.by = Person
  BY <1>1, <1>4, <1>5 DEF Numbered
<1>6. CASE d.by # Person
  <2>1. d.no <= built[d.by] /\ d.by \in Product
    BY <1>4, <1>6 DEF Numbered
  <2> QED BY <1>2, <1>3, <1>4, <1>6, <2>1
<1> QED BY <1>5, <1>6

LEMMA Known ==
  ASSUME GitTypeOK
  PROVE  /\ Docs(base) \in SUBSET Doc /\ rejected \in SUBSET Doc
         /\ \A b \in Branch : OnBranch(b) \in SUBSET Doc
         /\ holder # Nobody => {doc} \in SUBSET Doc
<1>1. base \in Seq(Commit) /\ rejected \subseteq Doc
  BY DEF GitTypeOK
<1>2. holder # Nobody => doc \in Doc
  BY DEF GitTypeOK
<1> QED BY <1>1, <1>2, DocsTyped, NewDocs

\* The step before the push touches nothing that is remote.
LEMMA Unpushed ==
  ASSUME UNCHANGED <<base, review, pr, people, built, rejected>>
  PROVE  /\ (Docs(base))' = Docs(base)
         /\ \A b \in Branch : (OnBranch(b))' = OnBranch(b)
         /\ \A S : Numbered(S) => Numbered(S)'
<1>1. (Docs(base))' = Docs(base)
  BY DEF Docs
<1>2. \A b \in Branch : (OnBranch(b))' = OnBranch(b)
  BY DEF OnBranch, Docs
<1> QED BY <1>1, <1>2 DEF Numbered

LEMMA RemoteStays ==
  ASSUME RemoteInv, UNCHANGED <<base, review, pr, people, built, rejected>>
  PROVE  RemoteInv'
<1>1. /\ Numbered(Docs(base))' /\ Numbered(rejected)'
      /\ \A b \in Branch : Numbered(OnBranch(b))'
  BY Unpushed DEF RemoteInv, Numbered, OnBranch, Docs
<1>2. (rejected \cap Docs(base) = {})'
  BY DEF RemoteInv, Docs
<1>3. \A b \in Branch : (OnBranch(b))' = OnBranch(b)
  BY DEF OnBranch, Docs
<1>4. (Docs(base))' = Docs(base)
  BY DEF Docs
<1> QED BY <1>1, <1>2, <1>3, <1>4 DEF RemoteInv

\* What a push does: the document in hand goes where nothing like it was.
LEMMA PushInv ==
  ASSUME GitTypeOK, RejectInv, step = "push", Pushed, built' = built,
         NEW CONSTANT h \in Branch, h = BranchOf[holder]
  PROVE  /\ RemoteInv'
         /\ mode # "direct" =>
              /\ OnBranch(h)' = {doc}
              /\ doc \notin rejected' /\ doc \notin (Docs(base))'
<1>0. /\ head \in Line /\ head # NoBranch /\ head.commits \in Seq(Commit) /\ base \in Seq(Commit)
      /\ holder # Nobody
      /\ review \in [Branch -> Line \cup {NoBranch}]
  BY GitAssumption, DocumentAssumption DEF GitTypeOK, Line, Branch
<1>1. /\ Docs(head.commits) = {doc} /\ Numbered({doc})
      /\ doc \notin rejected /\ doc \notin Docs(base)
      /\ \A b \in Branch : doc \notin OnBranch(b)
  BY <1>0 DEF RejectInv, HandInv
<1>2. RemoteInv
  BY DEF RejectInv
<1>3. CASE mode = "direct"
  <2>1. base' = base \o head.commits /\ UNCHANGED <<review, pr, people, handled, rejected>>
    BY <1>3 DEF Pushed
  <2>2. Docs(base') = Docs(base) \cup {doc}
    BY <1>0, <1>1, <2>1, DocsConcat
  <2>3. \A b \in Branch : (OnBranch(b))' = OnBranch(b)
    BY <2>1 DEF OnBranch, Docs
  <2>4. Numbered(Docs(base) \cup {doc})
    BY <1>1, <1>2 DEF RemoteInv, Numbered
  <2>5. /\ Numbered(Docs(base))' /\ Numbered(rejected)'
        /\ \A b \in Branch : Numbered(OnBranch(b))'
    BY <1>2, <2>1, <2>2, <2>3, <2>4 DEF RemoteInv, Numbered
  <2> QED BY <1>1, <1>2, <1>3, <2>1, <2>2, <2>3, <2>5 DEF RemoteInv
<1>4. CASE mode # "direct"
  <2>1. /\ review' = [review EXCEPT ![h] = head]
        /\ UNCHANGED <<base, pr, people, rejected>>
    BY <1>4 DEF Pushed
  <2>2. review'[h] = head /\ \A b \in Branch \ {h} : review'[b] = review[b]
    BY <1>0, <2>1
  <2>3. OnBranch(h)' = {doc}
    <3>1. review'[h] # NoBranch /\ review'[h].commits = head.commits
      BY <1>0, <2>2
    <3>2. Docs(review'[h].commits) = {doc}
      BY <1>1, <3>1
    <3> QED BY <3>1, <3>2 DEF OnBranch, Docs
  <2>4. \A b \in Branch \ {h} : (OnBranch(b))' = OnBranch(b)
    BY <2>2 DEF OnBranch, Docs
  <2>5. (Docs(base))' = Docs(base)
    BY <2>1 DEF Docs
  <2>6. Numbered(Docs(base))' /\ Numbered(rejected)'
    BY <1>2, <2>1, <2>5 DEF RemoteInv, Numbered
  <2>7. ASSUME NEW b \in Branch PROVE Numbered(OnBranch(b))'
    <3>1. \A S : Numbered(S) => Numbered(S)'
      BY <2>1 DEF Numbered
    <3>2. CASE b = h
      <4>1. Numbered({doc}) /\ \A d : d \in (OnBranch(b))' => d = doc
        BY <1>1, <2>3, <3>2
      <4> QED BY <2>1, <4>1 DEF Numbered
    <3>3. CASE b # h
      <4>1. Numbered(OnBranch(b)) /\ (OnBranch(b))' = OnBranch(b)
        BY <1>2, <2>4, <3>3 DEF RemoteInv
      <4> QED BY <2>1, <4>1 DEF Numbered
    <3> QED BY <3>2, <3>3
  <2>8. \A b \in Branch : pr'[b] = "open" =>
          (OnBranch(b))' \cap rejected' = {} /\ (OnBranch(b))' \cap (Docs(base))' = {}
    BY <1>1, <1>2, <2>1, <2>3, <2>4, <2>5 DEF RemoteInv
  <2>9. \A b, c \in Branch : b # c => (OnBranch(b))' \cap (OnBranch(c))' = {}
    BY <1>1, <1>2, <2>3, <2>4 DEF RemoteInv
  <2>10. rejected' \cap (Docs(base))' = {}
    BY <1>2, <2>1, <2>5 DEF RemoteInv
  <2>11. RemoteInv'
    BY <2>6, <2>7, <2>8, <2>9, <2>10 DEF RemoteInv
  <2> QED BY <1>1, <2>1, <2>3, <2>5, <2>11
<1> QED BY <1>3, <1>4

LEMMA OpenInv ==
  ASSUME GitTypeOK, RejectInv, step = "open", Opened, built' = built
  PROVE  RemoteInv'
<1>0. /\ holder # Nobody /\ BranchOf[holder] \in Branch
      /\ OnBranch(BranchOf[holder]) \cap (rejected \cup Docs(base)) = {}
      /\ RemoteInv
  BY DEF GitTypeOK, Branch, RejectInv, HandInv, Looks
<1>1. /\ pr' = [pr EXCEPT ![BranchOf[holder]] = "open"]
      /\ UNCHANGED <<base, review, people, rejected>>
  BY DEF Opened
<1>2. (Docs(base))' = Docs(base) /\ \A b \in Branch : (OnBranch(b))' = OnBranch(b)
  BY <1>1 DEF OnBranch, Docs
<1>3. \A b \in Branch \ {BranchOf[holder]} : pr'[b] = pr[b]
  BY <1>1 DEF GitTypeOK
<1>4. /\ Numbered(Docs(base))' /\ Numbered(rejected)'
      /\ \A b \in Branch : Numbered(OnBranch(b))'
  BY <1>0, <1>1, <1>2 DEF RemoteInv, Numbered
<1>5. \A b \in Branch : pr'[b] = "open" =>
        OnBranch(b) \cap rejected = {} /\ OnBranch(b) \cap Docs(base) = {}
  BY <1>0, <1>3 DEF RemoteInv
<1>6. /\ rejected \cap Docs(base) = {}
      /\ \A b, c \in Branch : b # c => OnBranch(b) \cap OnBranch(c) = {}
  BY <1>0 DEF RemoteInv
<1> QED BY <1>1, <1>2, <1>4, <1>5, <1>6 DEF RemoteInv

LEMMA RejectPublish ==
  ASSUME GitTypeOK, RejectInv,
         \/ \E p \in Product : Sync(p)
         \/ Write \/ CommitStaged \/ Push \/ PushLast \/ PushRefused
         \/ Find \/ Edit \/ Open \/ OpenRefused \/ PublishFails \/ SyncFails
  PROVE  RejectInv'
<1>0. /\ (step = "free" <=> holder = Nobody) /\ RemoteInv /\ HandInv
      /\ head.commits \in Seq(Commit) /\ {} \in Commit
  BY DEF GitTypeOK, RejectInv, Line, Commit
<1>1. CASE \E p \in Product : Sync(p)
  <2>1. PICK p \in Product : Sync(p)
    BY <1>1
  <2>2. /\ UNCHANGED <<base, review, pr, people, rejected>>
        /\ holder' = p /\ step' = "write" /\ staged' = {} /\ head'.commits = << >>
        /\ built' = [built EXCEPT ![p] = @ + 1]
        /\ doc' = [file |-> FileOf[p], by |-> p, no |-> built'[p]]
    BY <2>1 DEF Sync, Begins, AtBase, remoteVars
  <2>3. (Docs(base))' = Docs(base) /\ \A b \in Branch : (OnBranch(b))' = OnBranch(b)
    BY <2>2 DEF OnBranch, Docs
  <2>4. built'[p] = built[p] + 1 /\ built[p] \in Nat /\ p # Person
    BY <2>2, GitAssumption, DocumentAssumption DEF GitTypeOK
  <2>5. /\ doc' \notin rejected /\ doc' \notin Docs(base)
        /\ \A b \in Branch : doc' \notin OnBranch(b)
    <3>1. doc'.by = p /\ doc'.no = built[p] + 1
      BY <2>2, <2>4
    <3>2. \A S : Numbered(S) => doc' \notin S
      BY <3>1, NewNumber
    <3> QED BY <1>0, <3>2 DEF RemoteInv
  <2>6. \A S \in SUBSET Doc : Numbered(S) => Numbered(S)'
    <3>1. \E q \in Product : built' = [built EXCEPT ![q] = @ + 1]
      BY <2>2
    <3>2. people' = people
      BY <2>2
    <3> QED BY <3>1, <3>2, NumbersGrow DEF Numbered
  <2>7. /\ Numbered(Docs(base))' /\ Numbered(rejected)'
        /\ \A b \in Branch : Numbered(OnBranch(b))'
    BY <1>0, <2>2, <2>3, <2>6, Known DEF RemoteInv, Numbered
  <2>8. RemoteInv'
    BY <1>0, <2>2, <2>3, <2>7 DEF RemoteInv
  <2>9. Numbered({doc})'
    BY <2>2, <2>4 DEF Numbered
  <2>10. Docs(head.commits)' = {}
    BY <1>0, <2>2, DocsOne DEF Docs
  <2>11. HandInv'
    BY <2>2, <2>3, <2>5, <2>9, <2>10 DEF HandInv, Looks
  <2> QED BY <2>8, <2>11 DEF RejectInv
<1>2. CASE Write
  <2>1. /\ UNCHANGED <<base, review, pr, people, built, rejected, holder, doc, head>>
        /\ step = "write" /\ step' = "commit" /\ staged' = {d \in staged : d.file # doc.file} \cup {doc}
    BY <1>2 DEF Write, remoteVars
  <2>2. staged' = {doc}
    BY <1>0, <2>1 DEF HandInv
  <2>3. RemoteInv'
    BY <1>0, <2>1, RemoteStays
  <2>4. HandInv'
    BY <1>0, <2>1, <2>2 DEF HandInv, Looks, Numbered, OnBranch, Docs
  <2> QED BY <2>3, <2>4 DEF RejectInv
<1>3. CASE CommitStaged
  <2>1. /\ UNCHANGED <<base, review, pr, people, built, rejected, holder, doc>>
        /\ step = "commit" /\ step' = "push" /\ head' = [head EXCEPT !.commits = Append(@, staged)]
    BY <1>3 DEF CommitStaged, remoteVars
  <2>2. staged = {doc} /\ Docs(head.commits) = {} /\ staged \in Commit
    BY <1>0, <2>1 DEF HandInv, GitTypeOK, Commit
  <2>3. head'.commits = Append(head.commits, staged)
    BY <2>1 DEF GitTypeOK, Line
  <2>4. Docs(Append(head.commits, staged)) = {doc}
    <3>1. /\ Append(head.commits, staged) = head.commits \o <<staged>>
          /\ <<staged>> \in Seq(Commit) /\ Docs(<<staged>>) = staged
      BY <1>0, <2>2, Appended, DocsOne
    <3>2. Docs(head.commits \o <<staged>>) = Docs(head.commits) \cup Docs(<<staged>>)
      BY <1>0, <3>1, DocsConcat
    <3> QED BY <2>2, <3>1, <3>2
  <2>5. Docs(head.commits)' = {doc}
    BY <2>3, <2>4 DEF Docs
  <2>6. RemoteInv'
    BY <1>0, <2>1, RemoteStays
  <2>7. HandInv'
    BY <1>0, <2>1, <2>5 DEF HandInv, Looks, Numbered, OnBranch, Docs
  <2> QED BY <2>6, <2>7 DEF RejectInv
<1>4. CASE Push
  <2>1. /\ step = "push" /\ mode = "pr" /\ Pushed /\ step' = "find"
        /\ UNCHANGED <<holder, doc, built, people>>
    BY <1>4 DEF Push, Pushed
  <2>0. PICK h \in Branch : h = BranchOf[holder]
    BY <2>1 DEF GitTypeOK, Branch
  <2>2. RemoteInv' /\ OnBranch(h)' = {doc} /\ doc \notin rejected' /\ doc \notin (Docs(base))'
    BY <2>0, <2>1, PushInv
  <2>3. Numbered({doc})'
    BY <1>0, <2>1 DEF HandInv, Numbered
  <2>4. (OnBranch(BranchOf[holder]) \cap (rejected \cup Docs(base)))' = {}
    <3>1. (OnBranch(BranchOf[holder]))' = OnBranch(h)'
      BY <2>0, <2>1 DEF OnBranch
    <3> QED BY <2>2, <3>1
  <2>5. HandInv'
    BY <2>1, <2>3, <2>4 DEF HandInv
  <2> QED BY <2>2, <2>5 DEF RejectInv
<1>5. CASE PushLast \/ PushRefused \/ Edit \/ Open \/ OpenRefused \/ PublishFails
  <2>1. holder' = Nobody /\ built' = built
    BY <1>5 DEF PushLast, PushRefused, Edit, Open, OpenRefused, PublishFails, Free
  <2>2. HandInv'
    BY <2>1 DEF HandInv
  <2>3. \/ UNCHANGED <<base, review, pr, people, built, rejected>>
        \/ step = "push" /\ Pushed
        \/ step = "open" /\ Opened
    BY <1>5, <2>1 DEF PushLast, PushRefused, Edit, Open, OpenRefused, PublishFails, remoteVars
  <2>4. RemoteInv'
    <3>1. ASSUME step = "push", Pushed PROVE RemoteInv'
      <4>1. PICK h \in Branch : h = BranchOf[holder]
        BY <1>0, <3>1 DEF GitTypeOK, Branch
      <4> QED BY <2>1, <3>1, <4>1, PushInv
    <3> QED BY <1>0, <2>1, <2>3, <3>1, RemoteStays, OpenInv
  <2> QED BY <2>2, <2>4 DEF RejectInv
<1>6. CASE Find
  <2>1. /\ UNCHANGED <<base, review, pr, people, built, rejected, holder, doc>>
        /\ step = "find" /\ step' \in {"edit", "open"}
    BY <1>6 DEF Find, remoteVars
  <2>2. RemoteInv'
    BY <1>0, <2>1, RemoteStays
  <2>3. (OnBranch(BranchOf[holder]) \cap (rejected \cup Docs(base)))' =
          OnBranch(BranchOf[holder]) \cap (rejected \cup Docs(base))
    BY <2>1 DEF OnBranch, Docs
  <2>4. Numbered({doc})' /\ OnBranch(BranchOf[holder]) \cap (rejected \cup Docs(base)) = {}
    BY <1>0, <2>1 DEF HandInv, Looks, Numbered
  <2>5. HandInv'
    BY <2>1, <2>3, <2>4 DEF HandInv
  <2> QED BY <2>2, <2>5 DEF RejectInv
<1>7. CASE SyncFails
  <2>1. UNCHANGED <<base, review, pr, people, built, rejected, holder>> /\ holder = Nobody
    BY <1>7 DEF SyncFails, remoteVars, pubVars
  <2> QED BY <1>0, <2>1, RemoteStays DEF HandInv, RejectInv
<1> QED BY <1>1, <1>2, <1>3, <1>4, <1>5, <1>6, <1>7

LEMMA RejectPeople ==
  ASSUME GitTypeOK, RejectInv, PeopleStep
  PROVE  RejectInv'
<1>0. /\ RemoteInv /\ HandInv /\ base \in Seq(Commit) /\ people' = people + 1 /\ people \in Nat
      /\ UNCHANGED <<head, staged, holder, step, doc, built>>
      /\ pr \in [Branch -> {"none", "open", "closed"}]
      /\ review \in [Branch -> Line \cup {NoBranch}]
      /\ holder # Nobody => BranchOf[holder] \in Branch
  <2>1. /\ people' = people + 1 /\ UNCHANGED <<head, staged, holder, step, doc, built>>
    BY DEF PeopleStep, Merge, Close, Amend, Change, Acts, copyVars, pubVars
  <2>2. people \in Nat
    BY GitAssumption, DocumentAssumption DEF GitTypeOK
  <2> QED BY <2>1, <2>2 DEF GitTypeOK, RejectInv, Branch
<1>1. \A S \in SUBSET Doc : Numbered(S) => Numbered(S)'
  BY <1>0, NumbersGrow DEF Numbered
<1>2. holder # Nobody => Numbered({doc})'
  <2>1. holder # Nobody => {doc} \in SUBSET Doc /\ Numbered({doc})
    BY <1>0, Known DEF HandInv
  <2>2. holder # Nobody => Numbered({doc}) /\ doc \in Doc
    BY <2>1
  <2>3. \A d \in Doc : Numbered({d}) => \A e \in {d} : IF e.by = Person THEN e.no < people' ELSE e.no <= built'[e.by]
    BY <1>1 DEF Numbered
  <2> QED BY <1>0, <2>2, <2>3 DEF Numbered
<1>3. /\ Numbered(Docs(base)) /\ Docs(base) \in SUBSET Doc
      /\ Numbered(rejected) /\ rejected \in SUBSET Doc
      /\ \A b \in Branch : Numbered(OnBranch(b)) /\ OnBranch(b) \in SUBSET Doc
  BY <1>0, Known DEF RemoteInv
<1>4. Docs(head.commits)' = Docs(head.commits)
  BY <1>0 DEF Docs
<1>5. ASSUME NEW b \in Branch, Merge(b) PROVE RejectInv'
  <2>1. /\ pr[b] = "open" /\ review[b] # NoBranch /\ base' = base \o review[b].commits
        /\ pr' = [pr EXCEPT ![b] = "closed"] /\ review' = [review EXCEPT ![b] = NoBranch]
        /\ rejected' = rejected
    BY <1>5 DEF Merge, UnderReview
  <2>2. (Docs(base))' = Docs(base) \cup OnBranch(b)
    <3>1. review[b].commits \in Seq(Commit) /\ OnBranch(b) = Docs(review[b].commits)
      BY <2>1, NewDocs DEF OnBranch
    <3>2. Docs(base') = Docs(base) \cup OnBranch(b)
      BY <1>0, <2>1, <3>1, DocsConcat
    <3> QED BY <3>2 DEF Docs
  <2>3. /\ (OnBranch(b))' = {} /\ pr'[b] = "closed"
        /\ \A c \in Branch \ {b} : (OnBranch(c))' = OnBranch(c) /\ pr'[c] = pr[c]
    BY <1>0, <2>1 DEF OnBranch, Docs
  <2>4. /\ Numbered(Docs(base))' /\ Numbered(rejected)'
        /\ \A c \in Branch : Numbered(OnBranch(c))'
    <3>1. /\ Numbered(Docs(base) \cup OnBranch(b))
          /\ Docs(base) \cup OnBranch(b) \in SUBSET Doc
      BY <1>3 DEF Numbered
    <3>2. \A S \in SUBSET Doc : Numbered(S) =>
            \A d \in S : IF d.by = Person THEN d.no < people' ELSE d.no <= built'[d.by]
      BY <1>1 DEF Numbered
    <3>3. Numbered(Docs(base))'
      BY <2>2, <3>1, <3>2 DEF Numbered
    <3>4. Numbered(rejected)'
      BY <1>3, <2>1, <3>2 DEF Numbered
    <3>5. \A c \in Branch : Numbered(OnBranch(c))'
      BY <1>3, <2>3, <3>2 DEF Numbered
    <3> QED BY <3>3, <3>4, <3>5
  <2>5. RemoteInv'
    BY <1>0, <2>1, <2>2, <2>3, <2>4 DEF RemoteInv
  <2>6. HandInv'
    <3> SUFFICES ASSUME holder # Nobody PROVE HandInv'
      BY <1>0 DEF HandInv
    <3>1. step \in {"write", "commit", "push"} =>
            /\ doc \notin rejected /\ doc \notin (Docs(base))'
            /\ \A c \in Branch : doc \notin (OnBranch(c))'
      BY <1>0, <2>2, <2>3 DEF HandInv
    <3>2. step \in Looks =>
            (OnBranch(BranchOf[holder]))' \cap (rejected \cup (Docs(base))') = {}
      <4>1. CASE BranchOf[holder] = b
        <5>1. (OnBranch(BranchOf[holder]))' = {}
          BY <1>0, <2>1, <4>1 DEF OnBranch
        <5> QED BY <5>1
      <4>2. CASE BranchOf[holder] # b
        <5>1. (OnBranch(BranchOf[holder]))' = OnBranch(BranchOf[holder])
          BY <1>0, <2>1, <4>2 DEF OnBranch, Docs
        <5> QED BY <1>0, <2>2, <4>2, <5>1 DEF HandInv, RemoteInv
      <4> QED BY <4>1, <4>2
    <3> QED BY <1>0, <1>2, <1>4, <2>1, <3>1, <3>2 DEF HandInv, Looks
  <2> QED BY <2>5, <2>6 DEF RejectInv
<1>6. ASSUME NEW b \in Branch, Close(b) PROVE RejectInv'
  <2>1. /\ pr[b] = "open" /\ base' = base /\ pr' = [pr EXCEPT ![b] = "closed"]
        /\ \E line \in {review[b], NoBranch} : review' = [review EXCEPT ![b] = line]
        /\ \/ rejected' = rejected
           \/ rejected' = rejected \cup OnBranch(b)
        /\ holder # Nobody /\ BranchOf[holder] = b /\ step \in Looks => rejected' = rejected
    BY <1>6 DEF Close, UnderReview, Looks
  <2>2. (Docs(base))' = Docs(base)
    BY <2>1 DEF Docs
  <2>3. /\ (OnBranch(b))' \subseteq OnBranch(b) /\ pr'[b] = "closed"
        /\ \A c \in Branch \ {b} : (OnBranch(c))' = OnBranch(c) /\ pr'[c] = pr[c]
    BY <1>0, <2>1 DEF OnBranch, Docs
  <2>4. /\ Numbered(Docs(base))' /\ Numbered(rejected)'
        /\ \A c \in Branch : Numbered(OnBranch(c))'
    <3>2. \A S \in SUBSET Doc : Numbered(S) =>
            \A d \in S : IF d.by = Person THEN d.no < people' ELSE d.no <= built'[d.by]
      BY <1>1 DEF Numbered
    <3>3. Numbered(Docs(base))'
      BY <1>3, <2>2, <3>2 DEF Numbered
    <3>4. Numbered(rejected)'
      BY <1>3, <2>1, <3>2 DEF Numbered
    <3>5. \A c \in Branch : Numbered(OnBranch(c))'
      BY <1>3, <2>3, <3>2 DEF Numbered
    <3> QED BY <3>3, <3>4, <3>5
  <2>5. RemoteInv'
    BY <1>0, <2>1, <2>2, <2>3, <2>4 DEF RemoteInv
  <2>6. HandInv'
    <3> SUFFICES ASSUME holder # Nobody PROVE HandInv'
      BY <1>0 DEF HandInv
    <3>1. step \in {"write", "commit", "push"} =>
            /\ doc \notin rejected' /\ doc \notin (Docs(base))'
            /\ \A c \in Branch : doc \notin (OnBranch(c))'
      BY <1>0, <2>1, <2>2, <2>3 DEF HandInv
    <3>2. step \in Looks =>
            (OnBranch(BranchOf[holder]))' \cap (rejected' \cup (Docs(base))') = {}
      <4>1. (OnBranch(BranchOf[holder]))' \subseteq OnBranch(BranchOf[holder])
        BY <1>0, <2>1 DEF OnBranch, Docs
      <4>2. CASE BranchOf[holder] = b
        BY <1>0, <2>1, <2>2, <4>1, <4>2 DEF HandInv
      <4>3. CASE BranchOf[holder] # b
        BY <1>0, <2>1, <2>2, <4>1, <4>3 DEF HandInv, RemoteInv
      <4> QED BY <4>2, <4>3
    <3> QED BY <1>0, <1>2, <1>4, <3>1, <3>2 DEF HandInv, Looks
  <2> QED BY <2>5, <2>6 DEF RejectInv
<1>7. ASSUME NEW b \in Branch, Amend(b) PROVE RejectInv'
  <2>1. /\ pr[b] = "open" /\ review[b] # NoBranch /\ UNCHANGED <<base, pr, rejected>>
        /\ \E f \in Touched(b) : review' = [review EXCEPT ![b].commits = Append(@, {ByPeople(f)})]
    BY <1>7 DEF Amend, UnderReview
  <2>2. PICK f \in Touched(b) : review' = [review EXCEPT ![b].commits = Append(@, {ByPeople(f)})]
    BY <2>1
  <2>3. /\ {ByPeople(f)} \in Commit /\ ByPeople(f) \in Doc
        /\ review[b] \in Line /\ review[b].commits \in Seq(Commit)
    BY <1>0, <2>1, NewDocs
  <2>4. PICK d \in Doc : d = ByPeople(f)
    BY <2>3
  <2>5. /\ review'[b].commits = Append(review[b].commits, {d}) /\ review'[b] # NoBranch
        /\ \A c \in Branch \ {b} : review'[c] = review[c]
    <3>1. review'[b] = [review[b] EXCEPT !.commits = Append(@, {d})]
      BY <1>0, <2>2, <2>4
    <3>2. [review[b] EXCEPT !.commits = Append(@, {d})] \in Line
      BY <2>3, <2>4, Appended DEF Line
    <3> QED BY <1>0, <2>2, <2>3, <3>1, <3>2, GitAssumption, DocumentAssumption DEF Line
  <2>6. Docs(Append(review[b].commits, {d})) = OnBranch(b) \cup {d}
    <3>1. /\ Append(review[b].commits, {d}) = review[b].commits \o <<{d}>>
          /\ <<{d}>> \in Seq(Commit) /\ Docs(<<{d}>>) = {d}
      BY <2>3, <2>4, Appended, DocsOne
    <3> QED BY <2>1, <2>3, <3>1, DocsConcat DEF OnBranch
  <2>7. /\ (OnBranch(b))' = OnBranch(b) \cup {d}
        /\ \A c \in Branch \ {b} : (OnBranch(c))' = OnBranch(c)
    <3>1. (OnBranch(b))' = Docs(review'[b].commits)
      BY <2>5 DEF OnBranch, Docs
    <3>2. \A c \in Branch \ {b} : (OnBranch(c))' = OnBranch(c)
      BY <2>5 DEF OnBranch, Docs
    <3>3. (OnBranch(b))' = OnBranch(b) \cup {d}
      BY <2>5, <2>6, <3>1
    <3> QED BY <3>2, <3>3
  <2>8. (Docs(base))' = Docs(base)
    BY <2>1 DEF Docs
  <2>9. /\ d \notin rejected /\ d \notin Docs(base) /\ \A c \in Branch : d \notin OnBranch(c)
        /\ holder # Nobody => d # doc
    <3>1. \A S : Numbered(S) => d \notin S
      BY <2>4, NewNumberOfPeople
    <3>2. holder # Nobody => Numbered({doc})
      BY <1>0 DEF HandInv
    <3> QED BY <1>3, <3>1, <3>2
  <2>10. /\ Numbered(Docs(base))' /\ Numbered(rejected)'
         /\ \A c \in Branch : Numbered(OnBranch(c))'
    <3>2. \A S \in SUBSET Doc : Numbered(S) =>
            \A e \in S : IF e.by = Person THEN e.no < people' ELSE e.no <= built'[e.by]
      BY <1>1 DEF Numbered
    <3>3. Numbered(Docs(base))'
      BY <1>3, <2>8, <3>2 DEF Numbered
    <3>4. Numbered(rejected)'
      BY <1>3, <2>1, <3>2 DEF Numbered
    <3>5. d.by = Person /\ d.no < people'
      BY <1>0, <2>4 DEF ByPeople
    <3>6. \A c \in Branch : Numbered(OnBranch(c))'
      BY <1>3, <2>7, <3>2, <3>5 DEF Numbered
    <3> QED BY <3>3, <3>4, <3>6
  <2>11. RemoteInv'
    BY <1>0, <2>1, <2>7, <2>8, <2>9, <2>10 DEF RemoteInv
  <2>12. HandInv'
    <3> SUFFICES ASSUME holder # Nobody PROVE HandInv'
      BY <1>0 DEF HandInv
    <3>1. step \in {"write", "commit", "push"} =>
            /\ doc \notin rejected /\ doc \notin (Docs(base))'
            /\ \A c \in Branch : doc \notin (OnBranch(c))'
      BY <1>0, <2>7, <2>8, <2>9 DEF HandInv
    <3>2. step \in Looks =>
            (OnBranch(BranchOf[holder]))' \cap (rejected \cup (Docs(base))') = {}
      <4>1. (OnBranch(BranchOf[holder]))' \subseteq OnBranch(BranchOf[holder]) \cup {d}
        <5>1. PICK h \in Branch : h = BranchOf[holder]
          BY <1>0
        <5>2. (OnBranch(BranchOf[holder]))' = (OnBranch(h))'
          BY <1>0, <5>1 DEF OnBranch
        <5> QED BY <2>7, <5>1, <5>2
      <4> QED BY <1>0, <2>8, <2>9, <4>1 DEF HandInv
    <3> QED BY <1>0, <1>2, <1>4, <2>1, <3>1, <3>2 DEF HandInv, Looks
  <2> QED BY <2>11, <2>12 DEF RejectInv
<1>8. ASSUME NEW f \in File, Change(f) PROVE RejectInv'
  <2>1. base' = Append(base, {ByPeople(f)}) /\ UNCHANGED <<review, pr, rejected>>
    BY <1>8 DEF Change
  <2>2. PICK d \in Doc : d = ByPeople(f) /\ {d} \in Commit
    BY NewDocs
  <2>3. (Docs(base))' = Docs(base) \cup {d}
    <3>1. /\ base' = base \o <<{d}>> /\ <<{d}>> \in Seq(Commit) /\ Docs(<<{d}>>) = {d}
      BY <1>0, <2>1, <2>2, Appended, DocsOne
    <3>2. Docs(base') = Docs(base) \cup {d}
      BY <1>0, <3>1, DocsConcat
    <3> QED BY <3>2 DEF Docs
  <2>4. \A c \in Branch : (OnBranch(c))' = OnBranch(c)
    BY <2>1 DEF OnBranch, Docs
  <2>5. /\ d \notin rejected /\ d \notin Docs(base) /\ \A c \in Branch : d \notin OnBranch(c)
        /\ holder # Nobody => d # doc
    <3>1. \A S : Numbered(S) => d \notin S
      BY <2>2, NewNumberOfPeople
    <3>2. holder # Nobody => Numbered({doc})
      BY <1>0 DEF HandInv
    <3> QED BY <1>3, <3>1, <3>2
  <2>6. /\ Numbered(Docs(base))' /\ Numbered(rejected)'
        /\ \A c \in Branch : Numbered(OnBranch(c))'
    <3>2. \A S \in SUBSET Doc : Numbered(S) =>
            \A e \in S : IF e.by = Person THEN e.no < people' ELSE e.no <= built'[e.by]
      BY <1>1 DEF Numbered
    <3>3. d.by = Person /\ d.no < people'
      BY <1>0, <2>2 DEF ByPeople
    <3>4. Numbered(Docs(base))'
      BY <1>3, <2>3, <3>2, <3>3 DEF Numbered
    <3>5. Numbered(rejected)'
      BY <1>3, <2>1, <3>2 DEF Numbered
    <3>6. \A c \in Branch : Numbered(OnBranch(c))'
      BY <1>3, <2>4, <3>2 DEF Numbered
    <3> QED BY <3>4, <3>5, <3>6
  <2>7. RemoteInv'
    BY <1>0, <2>1, <2>3, <2>4, <2>5, <2>6 DEF RemoteInv
  <2>8. HandInv'
    <3> SUFFICES ASSUME holder # Nobody PROVE HandInv'
      BY <1>0 DEF HandInv
    <3>1. step \in {"write", "commit", "push"} =>
            /\ doc \notin rejected /\ doc \notin (Docs(base))'
            /\ \A c \in Branch : doc \notin (OnBranch(c))'
      BY <1>0, <2>3, <2>4, <2>5 DEF HandInv
    <3>2. step \in Looks =>
            (OnBranch(BranchOf[holder]))' \cap (rejected \cup (Docs(base))') = {}
      <4>1. (OnBranch(BranchOf[holder]))' = OnBranch(BranchOf[holder])
        BY <1>0, <2>1 DEF OnBranch, Docs
      <4> QED BY <1>0, <2>3, <2>5, <4>1 DEF HandInv
    <3> QED BY <1>0, <1>2, <1>4, <2>1, <3>1, <3>2 DEF HandInv, Looks
  <2> QED BY <2>7, <2>8 DEF RejectInv
<1> QED BY <1>5, <1>6, <1>7, <1>8 DEF PeopleStep

LEMMA RejectStep == GitTypeOK /\ RejectInv /\ GitStep => RejectInv'
BY RejectPublish, RejectPeople DEF GitStep

-----------------------------------------------------------------------------
GitInv == GitTypeOK /\ TidyInv /\ RejectInv

LEMMA GitStutter == GitInv /\ UNCHANGED gitVars => GitInv'
<1> SUFFICES ASSUME GitInv, UNCHANGED gitVars PROVE GitInv'
  OBVIOUS
<1>1. UNCHANGED <<mode, base, review, pr, people, handled, rejected>>
  BY DEF gitVars, remoteVars
<1>2. UNCHANGED <<known, head, staged, jammed, holder, step, doc, built>>
  BY DEF gitVars, copyVars, pubVars
<1>3. GitTypeOK'
  BY <1>1, <1>2 DEF GitInv, GitTypeOK
<1>4. TidyInv'
  BY <1>1, <1>2 DEF GitInv, TidyInv, Tidy, Single
<1>5. RemoteInv'
  BY <1>1, <1>2, RemoteStays DEF GitInv, RejectInv
<1>6. HandInv'
  BY <1>1, <1>2 DEF GitInv, RejectInv, HandInv, Numbered, Docs, OnBranch, Looks
<1> QED BY <1>3, <1>4, <1>5, <1>6 DEF GitInv, RejectInv

LEMMA GitIsInvariant == DeliverySpec => []GitInv
<1>1. DeliveryInit => GitInv
  BY GitTypeInit, TidyInit, RejectInit DEF DeliveryInit, GitInv
<1>2. GitInv /\ [DeliveryNext]_deliveryVars => GitInv'
  <2>1. GitInv /\ GitStep => GitInv'
    BY GitTypeStep, TidyStep, RejectStep DEF GitInv
  <2>2. UNCHANGED deliveryVars => UNCHANGED gitVars
    BY DEF deliveryVars
  <2> QED BY <2>1, <2>2, StepsOfGit, GitStutter
<1> QED BY <1>1, <1>2, PTL DEF DeliverySpec

\* Every commit changes the file of one product, whatever an aborted run has
\* left behind (gitops.go:176-181).
THEOREM FilesStayApart == DeliverySpec => []OwnFileOnly
<1>1. GitInv => OwnFileOnly
  BY TidyIsOwn DEF GitInv
<1> QED BY <1>1, GitIsInvariant, PTL

\* A document that was turned down never reaches the base in a later review
\* (gitops.go:103-104).
THEOREM RejectionHolds == DeliverySpec => []RejectedStaysOut
<1>1. GitInv => RejectedStaysOut
  BY DEF GitInv, RejectInv, RemoteInv, RejectedStaysOut
<1> QED BY <1>1, GitIsInvariant, PTL

\* No commit ever disappears from the base (gitops.go:137-145).
THEOREM HistoryIsKept == DeliverySpec => BaseKeepsHistory
<1>1. GitInv /\ [DeliveryNext]_deliveryVars => [SubSeq(base', 1, Len(base)) = base]_base
  <2>1. GitInv /\ GitStep => SubSeq(base', 1, Len(base)) = base
    BY KeepsHistory DEF GitInv
  <2>2. UNCHANGED deliveryVars \/ UNCHANGED gitVars => UNCHANGED base
    BY DEF deliveryVars, gitVars, remoteVars
  <2> QED BY <2>1, <2>2, StepsOfGit
<1> QED BY <1>1, GitIsInvariant, PTL DEF DeliverySpec, BaseKeepsHistory

-----------------------------------------------------------------------------
(* The checkouts.                                                          *)

CacheStep(r) ==
  Materialize(r) \/ CloneStep(r) \/ CloneTrouble(r) \/ (Materialized(r) /\ Release(r))

Busy == InGit \cup {"have"}

RunInv(r) ==
  /\ at[r] \in Busy \cup {"want"} => nth[r] \in 1 .. Len(plan[r])
  /\ at[r] = "again" => Here(r) \in marred
  /\ at[r] \in {"fetch", "checkout"} => RefKind[Here(r)] = "commit" /\ tree[Here(r)] = "default"
  /\ at[r] = "have" => /\ tree[Here(r)] # "absent"
                       /\ \/ tree[Here(r)] = Wanted(Here(r)) /\ stamp[r] = tree[Here(r)]
                          \/ Here(r) \in marred

\* Whoever works on a checkout with git is alone with it.
AloneInv ==
  \A r, s \in Run : r # s /\ at[r] \in InGit /\ at[s] \in Busy => Here(r) # Here(s)

\* A checkout nobody is in, and where nothing went wrong, is whole or not there.
TreeInv ==
  \A l \in Location \ marred : Locked(l) \/ tree[l] = "absent" \/ tree[l] = Wanted(l)

CacheInv == CacheTypeOK /\ (\A r \in Run : RunInv(r)) /\ AloneInv /\ TreeInv

LEMMA Places ==
  ASSUME CacheTypeOK
  PROVE  /\ \A r \in Run : nth[r] \in 1 .. Len(plan[r]) => Here(r) \in Location
         /\ \A r \in Run : plan[r] \in Seq(Location) /\ nth[r] \in Nat /\ Len(plan[r]) \in Nat
         /\ \A l \in Location : RefKind[l] \in {"none", "name", "commit"} /\ Wanted(l) \in {"default", "asked"}
<1>1. plan \in [Run -> Seq(Location)] /\ nth \in [Run -> Nat]
  BY PlanAssumption DEF CacheTypeOK
<1>2. \A r \in Run : nth[r] \in 1 .. Len(plan[r]) => plan[r][nth[r]] \in Location
  BY <1>1
<1> QED BY <1>1, <1>2, KindAssumption DEF Here, Wanted

\* A step of one run is felt by no other that works on a checkout.
LEMMA Elsewhere ==
  ASSUME CacheInv, NEW r \in Run, NEW CONSTANT l \in Location, l = Here(r),
         CacheTypeOK', RunInv(r)', plan' = plan,
         \A s \in Run \ {r} : at'[s] = at[s] /\ nth'[s] = nth[s] /\ stamp'[s] = stamp[s],
         \A k \in Location \ {l} : tree'[k] = tree[k],
         marred' = marred \/ marred' = marred \cup {l},
         at'[r] \in Busy => nth'[r] = nth[r],
         tree'[l] = tree[l] \/ \A s \in Run \ {r} : at[s] \in Busy => Here(s) # l,
         at'[r] \in InGit => \A s \in Run \ {r} : at[s] \in Busy => Here(s) # l,
         at'[r] = "have" => \A s \in Run \ {r} : at[s] \in InGit => Here(s) # l,
         l \in marred' \/ at'[r] \in InGit \/ tree'[l] = "absent" \/ tree'[l] = Wanted(l)
  PROVE  CacheInv'
<1>0. /\ CacheTypeOK /\ AloneInv /\ TreeInv /\ marred \subseteq marred'
      /\ \A k \in Location : Wanted(k)' = Wanted(k)
  BY DEF CacheInv, Wanted
<1>1. \A s \in Run \ {r} : Here(s)' = Here(s)
  BY DEF Here
<1>2. at'[r] \in Busy => Here(r)' = l
  BY DEF Here
<1>3. ASSUME NEW s \in Run PROVE RunInv(s)'
  <2> SUFFICES ASSUME s # r PROVE RunInv(s)'
    OBVIOUS
  <2>1. RunInv(s)
    BY DEF CacheInv
  <2>2. at[s] \in Busy => tree'[Here(s)] = tree[Here(s)] /\ Here(s) \in Location
    BY <1>0, <2>1, Places DEF RunInv
  <2>3. Wanted(Here(s))' = Wanted(Here(s))
    BY <1>1 DEF Wanted
  <2> QED BY <1>0, <1>1, <2>1, <2>2, <2>3 DEF RunInv, Busy, InGit
<1>4. AloneInv'
  BY <1>0, <1>1, <1>2 DEF AloneInv, Busy, InGit
<1>5. ASSUME NEW k \in Location \ marred' PROVE Locked(k)' \/ tree'[k] = "absent" \/ tree'[k] = Wanted(k)
  <2>1. CASE k = l
    BY <1>2, <1>5, <2>1 DEF Locked, Busy
  <2>2. CASE k # l
    <3>1. Locked(k) \/ tree[k] = "absent" \/ tree[k] = Wanted(k)
      BY <1>0, <1>5 DEF TreeInv
    <3>2. Locked(k) => \E s \in Run \ {r} : at[s] \in InGit /\ Here(s) = k
      BY <2>2 DEF Locked
    <3>3. Locked(k) => Locked(k)'
      BY <1>1, <3>2 DEF Locked
    <3> QED BY <1>5, <2>2, <3>1, <3>3
  <2> QED BY <2>1, <2>2
<1>6. TreeInv'
  BY <1>0, <1>5 DEF TreeInv
<1> QED BY <1>3, <1>4, <1>6 DEF CacheInv

\* What is handed out is typed, and changes the stamp of nobody else.
LEMMA HandOutTypes ==
  ASSUME CacheTypeOK, NEW r \in Run, NEW t, HandOut(r, t)
  PROVE  /\ at' \in [Run -> At] /\ stamp' \in [Run -> Stamp] /\ at'[r] = "have"
         /\ \A s \in Run \ {r} : at'[s] = at[s] /\ stamp'[s] = stamp[s]
         /\ t # "torn" => stamp'[r] = t
BY DEF HandOut, Goes, CacheTypeOK, At

LEMMA GoesTypes ==
  ASSUME CacheTypeOK, NEW r \in Run, NEW w \in At, Goes(r, w)
  PROVE  at' \in [Run -> At] /\ at'[r] = w /\ \A s \in Run \ {r} : at'[s] = at[s]
BY DEF Goes, CacheTypeOK

LEMMA LeavesTypes ==
  ASSUME CacheTypeOK, NEW l \in Location, NEW t \in Tree, Leaves(l, t)
  PROVE  tree' \in [Location -> Tree] /\ tree'[l] = t /\ \A k \in Location \ {l} : tree'[k] = tree[k]
BY DEF Leaves, CacheTypeOK

LEMMA CacheClone ==
  ASSUME CacheInv, NEW r \in Run, CloneStep(r)
  PROVE  CacheInv'
<1>0. /\ CacheTypeOK /\ RunInv(r) /\ AloneInv /\ TreeInv /\ r \in Run
      /\ at[r] \in {"want", "clone", "again", "fetch", "checkout"}
  BY DEF CacheInv, CloneStep, Enter, Cloned, Fetched, CheckedOut
<1>1. PICK l \in Location : l = Here(r)
  BY <1>0, Places DEF RunInv, Busy, InGit
<1>2. RefKind[l] \in {"none", "name", "commit"} /\ Wanted(l) \in {"default", "asked"}
  BY <1>0, Places
<1>3. nth[r] \in 1 .. Len(plan[r]) /\ plan \in Plans /\ nth \in [Run -> Nat \ {0}] /\ marred \subseteq Location
  BY <1>0 DEF RunInv, Busy, InGit, CacheTypeOK
<1>4. at[r] \in InGit => \A s \in Run \ {r} : at[s] \in Busy => Here(s) # l
  BY <1>0, <1>1 DEF AloneInv
<1>5. CASE Enter(r)
  <2>1. /\ at[r] = "want" /\ \A s \in Run : at[s] \in InGit => Here(s) # l
        /\ UNCHANGED <<plan, nth, marred>>
    BY <1>1, <1>5 DEF Enter, Locked
  <2>2. Here(r)' = l /\ Wanted(l)' = Wanted(l)
    BY <1>1, <2>1 DEF Here, Wanted
  <2>3. CASE tree[l] # "absent"
    <3>1. HandOut(r, tree[l]) /\ tree' = tree
      BY <1>1, <1>5, <2>3 DEF Enter
    <3>2. /\ at' \in [Run -> At] /\ stamp' \in [Run -> Stamp] /\ at'[r] = "have"
          /\ \A s \in Run \ {r} : at'[s] = at[s] /\ stamp'[s] = stamp[s]
          /\ tree[l] # "torn" => stamp'[r] = tree[l]
      BY <1>0, <3>1, HandOutTypes
    <3>3. l \in marred \/ tree[l] = Wanted(l)
      BY <2>1, <2>3, <1>0, <1>1 DEF TreeInv, Locked
    <3>4. CacheTypeOK'
      BY <1>0, <1>3, <2>1, <3>1, <3>2 DEF CacheTypeOK
    <3>5. RunInv(r)'
      BY <1>1, <1>2, <1>3, <2>1, <2>2, <2>3, <3>1, <3>2, <3>3 DEF RunInv
    <3> QED BY <1>0, <1>1, <2>1, <2>2, <2>3, <3>1, <3>2, <3>3, <3>4, <3>5, Elsewhere DEF Busy, InGit
  <2>4. CASE tree[l] = "absent"
    <3>1. Goes(r, "clone") /\ Leaves(l, "torn") /\ stamp' = stamp
      BY <1>1, <1>5, <2>4 DEF Enter
    <3>2. at' \in [Run -> At] /\ at'[r] = "clone" /\ \A s \in Run \ {r} : at'[s] = at[s]
      BY <1>0, <3>1, GoesTypes DEF At, InGit
    <3>3. tree' \in [Location -> Tree] /\ tree'[l] = "torn" /\ \A k \in Location \ {l} : tree'[k] = tree[k]
      BY <1>0, <3>1, LeavesTypes DEF Tree
    <3>4. \A s \in Run \ {r} : at[s] \in Busy => Here(s) # l
      BY <2>1, <2>4 DEF CacheInv, RunInv, Busy
    <3>5. CacheTypeOK'
      BY <1>0, <1>3, <2>1, <3>1, <3>2, <3>3 DEF CacheTypeOK
    <3>6. RunInv(r)'
      BY <1>3, <2>1, <3>2 DEF RunInv, Busy, InGit
    <3> QED BY <1>0, <1>1, <2>1, <3>1, <3>2, <3>3, <3>4, <3>5, <3>6, Elsewhere DEF Busy, InGit
  <2> QED BY <2>3, <2>4
<1>6. CASE Cloned(r)
  <2>1. /\ at[r] \in {"clone", "again"} /\ UNCHANGED <<plan, nth, marred>>
        /\ Here(r)' = l /\ Wanted(l)' = Wanted(l)
        /\ \A s \in Run \ {r} : at[s] \in Busy => Here(s) # l
    BY <1>1, <1>4, <1>6 DEF Cloned, Here, Wanted, InGit
  <2>2. PICK t \in Tree : /\ t = (IF at[r] = "again" \/ RefKind[l] = "commit" THEN "default" ELSE Wanted(l))
                          /\ Leaves(l, t)
                          /\ IF at[r] = "clone" /\ RefKind[l] = "commit"
                             THEN Goes(r, "fetch") /\ UNCHANGED stamp
                             ELSE HandOut(r, t)
    BY <1>1, <1>2, <1>6 DEF Cloned, Tree
  <2>3. tree' \in [Location -> Tree] /\ tree'[l] = t /\ \A k \in Location \ {l} : tree'[k] = tree[k]
    BY <1>0, <2>2, LeavesTypes
  <2>4. CASE at[r] = "clone" /\ RefKind[l] = "commit"
    <3>1. /\ at' \in [Run -> At] /\ at'[r] = "fetch" /\ stamp' = stamp /\ t = "default"
          /\ \A s \in Run \ {r} : at'[s] = at[s]
      BY <1>0, <2>2, <2>4, GoesTypes DEF At, InGit
    <3>2. CacheTypeOK'
      BY <1>0, <1>3, <2>1, <2>3, <3>1 DEF CacheTypeOK
    <3>3. RunInv(r)'
      BY <1>3, <2>1, <2>3, <2>4, <3>1 DEF RunInv, Busy, InGit
    <3> QED BY <1>0, <1>1, <2>1, <2>3, <3>1, <3>2, <3>3, Elsewhere DEF Busy, InGit
  <2>5. CASE ~(at[r] = "clone" /\ RefKind[l] = "commit")
    <3>1. /\ at' \in [Run -> At] /\ stamp' \in [Run -> Stamp] /\ at'[r] = "have"
          /\ \A s \in Run \ {r} : at'[s] = at[s] /\ stamp'[s] = stamp[s]
          /\ t # "torn" => stamp'[r] = t
      BY <1>0, <2>2, <2>5, HandOutTypes
    <3>2. t # "torn" /\ t # "absent"
      BY <1>2, <2>2
    <3>3. t = Wanted(l) \/ l \in marred
      BY <1>0, <1>1, <2>1, <2>2, <2>5 DEF RunInv
    <3>4. CacheTypeOK'
      BY <1>0, <1>3, <2>1, <2>3, <3>1 DEF CacheTypeOK
    <3>5. RunInv(r)'
      BY <1>1, <1>3, <2>1, <2>3, <3>1, <3>2, <3>3 DEF RunInv
    <3> QED BY <1>0, <1>1, <2>1, <2>3, <3>1, <3>3, <3>4, <3>5, Elsewhere DEF Busy, InGit
  <2> QED BY <2>4, <2>5
<1>7. CASE Fetched(r)
  <2>1. /\ at[r] = "fetch" /\ UNCHANGED <<plan, nth, marred, tree, stamp>>
        /\ Here(r)' = l
        /\ \A s \in Run \ {r} : at[s] \in Busy => Here(s) # l
    BY <1>1, <1>4, <1>7 DEF Fetched, Here, InGit
  <2>2. at' \in [Run -> At] /\ at'[r] = "checkout" /\ \A s \in Run \ {r} : at'[s] = at[s]
    BY <1>0, <1>7, GoesTypes DEF Fetched, At, InGit
  <2>3. CacheTypeOK'
    BY <1>0, <1>3, <2>1, <2>2 DEF CacheTypeOK
  <2>4. RunInv(r)'
    BY <1>0, <1>1, <1>3, <2>1, <2>2 DEF RunInv, Busy, InGit
  <2> QED BY <1>0, <1>1, <2>1, <2>2, <2>3, <2>4, Elsewhere DEF Busy, InGit
<1>8. CASE CheckedOut(r)
  <2>1. /\ at[r] = "checkout" /\ UNCHANGED <<plan, nth, marred>>
        /\ Here(r)' = l /\ Wanted(l)' = Wanted(l) /\ Wanted(l) = "asked"
        /\ Leaves(l, "asked") /\ HandOut(r, "asked")
        /\ \A s \in Run \ {r} : at[s] \in Busy => Here(s) # l
    BY <1>0, <1>1, <1>4, <1>8 DEF CheckedOut, Here, Wanted, InGit, RunInv
  <2>2. tree' \in [Location -> Tree] /\ tree'[l] = "asked" /\ \A k \in Location \ {l} : tree'[k] = tree[k]
    BY <1>0, <2>1, LeavesTypes DEF Tree
  <2>3. /\ at' \in [Run -> At] /\ stamp' \in [Run -> Stamp] /\ at'[r] = "have"
        /\ \A s \in Run \ {r} : at'[s] = at[s] /\ stamp'[s] = stamp[s]
        /\ stamp'[r] = "asked"
    BY <1>0, <2>1, HandOutTypes
  <2>4. CacheTypeOK'
    BY <1>0, <1>3, <2>1, <2>2, <2>3 DEF CacheTypeOK
  <2>5. RunInv(r)'
    BY <1>3, <2>1, <2>2, <2>3 DEF RunInv
  <2> QED BY <1>0, <1>1, <2>1, <2>2, <2>3, <2>4, <2>5, Elsewhere DEF Busy, InGit
<1> QED BY <1>5, <1>6, <1>7, <1>8 DEF CloneStep

LEMMA CandidateTypes ==
  ASSUME CacheTypeOK, NEW r \in Run, NextCandidate(r), plan' = plan
  PROVE  /\ at' \in [Run -> At] /\ nth' \in [Run -> Nat \ {0}]
         /\ at'[r] \in {"want", "without"}
         /\ at'[r] = "want" => nth'[r] \in 1 .. Len(plan[r])
         /\ \A s \in Run \ {r} : at'[s] = at[s] /\ nth'[s] = nth[s]
<1>1. nth \in [Run -> Nat \ {0}] /\ Len(plan[r]) \in Nat
  BY Places DEF CacheTypeOK
<1>2. CASE nth[r] < Len(plan[r])
  <2>1. nth' = [nth EXCEPT ![r] = @ + 1] /\ Goes(r, "want")
    BY <1>2 DEF NextCandidate
  <2>2. at' \in [Run -> At] /\ at'[r] = "want" /\ \A s \in Run \ {r} : at'[s] = at[s]
    BY <2>1, GoesTypes DEF At
  <2>3. nth[r] \in Nat \ {0} /\ nth[r] + 1 \in Nat \ {0} /\ nth[r] + 1 \in 1 .. Len(plan[r])
    BY <1>1, <1>2
  <2>4. /\ nth' \in [Run -> Nat \ {0}] /\ nth'[r] = nth[r] + 1
        /\ \A s \in Run \ {r} : nth'[s] = nth[s]
    BY <1>1, <2>1, <2>3
  <2> QED BY <2>2, <2>3, <2>4
<1>3. CASE ~(nth[r] < Len(plan[r]))
  <2>1. nth' = nth /\ Goes(r, "without")
    BY <1>3 DEF NextCandidate
  <2>2. at' \in [Run -> At] /\ at'[r] = "without" /\ \A s \in Run \ {r} : at'[s] = at[s]
    BY <2>1, GoesTypes DEF At
  <2> QED BY <1>1, <2>1, <2>2
<1> QED BY <1>2, <1>3

LEMMA CacheTrouble ==
  ASSUME CacheInv, NEW r \in Run, CloneTrouble(r)
  PROVE  CacheInv'
<1>0. /\ CacheTypeOK /\ RunInv(r) /\ AloneInv /\ TreeInv
      /\ at[r] \in InGit
  BY DEF CacheInv, CloneTrouble, OtherBranch, CloneFails, NotFetched, NotCheckedOut, InGit
<1>1. PICK l \in Location : l = Here(r)
  BY <1>0, Places DEF RunInv, Busy, InGit
<1>3. nth[r] \in 1 .. Len(plan[r]) /\ plan \in Plans /\ nth \in [Run -> Nat \ {0}] /\ marred \subseteq Location
  BY <1>0 DEF RunInv, Busy, CacheTypeOK
<1>4. \A s \in Run \ {r} : at[s] \in Busy => Here(s) # l
  BY <1>0, <1>1 DEF AloneInv
<1>5. marred' = marred \cup {l} /\ plan' = plan /\ marred' \subseteq Location
  BY <1>1, <1>3 DEF CloneTrouble, OtherBranch, CloneFails, NotFetched, NotCheckedOut, Mars
<1>6. CASE OtherBranch(r)
  <2>1. /\ Goes(r, "again") /\ Leaves(l, "torn") /\ UNCHANGED <<nth, stamp>> /\ Here(r)' = l
    BY <1>1, <1>6 DEF OtherBranch, Here
  <2>2. at' \in [Run -> At] /\ at'[r] = "again" /\ \A s \in Run \ {r} : at'[s] = at[s]
    BY <1>0, <2>1, GoesTypes DEF At, InGit
  <2>3. tree' \in [Location -> Tree] /\ \A k \in Location \ {l} : tree'[k] = tree[k]
    BY <1>0, <2>1, LeavesTypes DEF Tree
  <2>4. CacheTypeOK'
    BY <1>0, <1>5, <2>1, <2>2, <2>3 DEF CacheTypeOK
  <2>5. RunInv(r)'
    BY <1>3, <1>5, <2>1, <2>2 DEF RunInv, Busy, InGit
  <2> QED BY <1>0, <1>1, <1>4, <1>5, <2>1, <2>2, <2>3, <2>4, <2>5, Elsewhere DEF Busy
<1>7. CASE CloneFails(r)
  <2>1. PICK t \in {"absent", "torn"} : Leaves(l, t) /\ NextCandidate(r) /\ stamp' = stamp
    BY <1>1, <1>7 DEF CloneFails
  <2>2. tree' \in [Location -> Tree] /\ \A k \in Location \ {l} : tree'[k] = tree[k]
    BY <1>0, <2>1, LeavesTypes DEF Tree
  <2>3. /\ at' \in [Run -> At] /\ nth' \in [Run -> Nat \ {0}]
        /\ at'[r] \in {"want", "without"}
        /\ at'[r] = "want" => nth'[r] \in 1 .. Len(plan[r])
        /\ \A s \in Run \ {r} : at'[s] = at[s] /\ nth'[s] = nth[s]
    BY <1>0, <1>5, <2>1, CandidateTypes
  <2>4. CacheTypeOK'
    BY <1>0, <1>5, <2>1, <2>2, <2>3 DEF CacheTypeOK
  <2>5. RunInv(r)'
    BY <1>5, <2>3 DEF RunInv, Busy, InGit
  <2> QED BY <1>0, <1>1, <1>4, <1>5, <2>1, <2>2, <2>3, <2>4, <2>5, Elsewhere DEF Busy, InGit
<1>8. CASE NotFetched(r)
  <2>1. /\ HandOut(r, tree[l]) /\ UNCHANGED <<tree, nth>> /\ Here(r)' = l /\ tree[l] = "default"
    BY <1>0, <1>1, <1>8 DEF NotFetched, Here, RunInv
  <2>2. /\ at' \in [Run -> At] /\ stamp' \in [Run -> Stamp] /\ at'[r] = "have"
        /\ \A s \in Run \ {r} : at'[s] = at[s] /\ stamp'[s] = stamp[s]
    BY <1>0, <2>1, HandOutTypes
  <2>3. CacheTypeOK'
    BY <1>0, <1>5, <2>1, <2>2 DEF CacheTypeOK
  <2>4. RunInv(r)'
    BY <1>3, <1>5, <2>1, <2>2 DEF RunInv
  <2> QED BY <1>0, <1>1, <1>4, <1>5, <2>1, <2>2, <2>3, <2>4, Elsewhere DEF Busy, InGit
<1>9. CASE NotCheckedOut(r)
  <2>1. PICK t \in {"default", "torn"} : Leaves(l, t) /\ HandOut(r, t) /\ nth' = nth /\ Here(r)' = l
    BY <1>1, <1>9 DEF NotCheckedOut, Here
  <2>2. /\ at' \in [Run -> At] /\ stamp' \in [Run -> Stamp] /\ at'[r] = "have"
        /\ \A s \in Run \ {r} : at'[s] = at[s] /\ stamp'[s] = stamp[s]
    BY <1>0, <2>1, HandOutTypes
  <2>3. tree' \in [Location -> Tree] /\ tree'[l] = t /\ \A k \in Location \ {l} : tree'[k] = tree[k]
    BY <1>0, <2>1, LeavesTypes DEF Tree
  <2>4. CacheTypeOK'
    BY <1>0, <1>5, <2>1, <2>2, <2>3 DEF CacheTypeOK
  <2>5. RunInv(r)'
    BY <1>3, <1>5, <2>1, <2>2, <2>3 DEF RunInv
  <2> QED BY <1>0, <1>1, <1>4, <1>5, <2>1, <2>2, <2>3, <2>4, <2>5, Elsewhere DEF Busy, InGit
<1> QED BY <1>6, <1>7, <1>8, <1>9 DEF CloneTrouble

\* Entering and leaving, by those who hold nothing in git.
LEMMA CacheComesAndGoes ==
  ASSUME CacheInv, NEW r \in Run, at[r] \notin InGit,
         nth' = [nth EXCEPT ![r] = 1], UNCHANGED <<plan, tree, marred>>,
         stamp' \in [Run -> Stamp], \A s \in Run \ {r} : stamp'[s] = stamp[s],
         NEW w \in {"out", "want", "without"}, Goes(r, w),
         w = "want" => plan[r] # << >>
  PROVE  CacheInv'
<1>0. CacheTypeOK /\ AloneInv /\ TreeInv /\ nth \in [Run -> Nat \ {0}]
  BY DEF CacheInv, CacheTypeOK
<1>1. at' \in [Run -> At] /\ at'[r] = w /\ \A s \in Run \ {r} : at'[s] = at[s]
  BY <1>0, GoesTypes DEF At
<1>2. nth' \in [Run -> Nat \ {0}] /\ nth'[r] = 1 /\ \A s \in Run \ {r} : nth'[s] = nth[s]
  BY <1>0
<1>3. CacheTypeOK'
  BY <1>0, <1>1, <1>2 DEF CacheTypeOK
<1>4. \A s \in Run \ {r} : Here(s)' = Here(s)
  BY <1>2 DEF Here
<1>5. \A l \in Location : Wanted(l)' = Wanted(l)
  BY DEF Wanted
<1>6. ASSUME NEW s \in Run PROVE RunInv(s)'
  <2>1. CASE s = r
    <3>1. w = "want" => 1 \in 1 .. Len(plan[r])
      <4>1. plan[r] \in Seq(Location)
        BY <1>0, Places
      <4> QED BY <4>1
    <3> QED BY <1>1, <1>2, <2>1, <3>1 DEF RunInv, Busy, InGit
  <2>2. CASE s # r
    <3>1. RunInv(s)
      BY DEF CacheInv
    <3>2. Wanted(Here(s))' = Wanted(Here(s))
      BY <1>4, <2>2 DEF Wanted
    <3> QED BY <1>1, <1>2, <1>4, <2>2, <3>1, <3>2 DEF RunInv
  <2> QED BY <2>1, <2>2
<1>7. AloneInv'
  BY <1>0, <1>1, <1>4 DEF AloneInv, Busy, InGit
<1>8. ASSUME NEW l \in Location, Locked(l) PROVE Locked(l)'
  <2>1. PICK s \in Run \ {r} : at[s] \in InGit /\ Here(s) = l
    BY <1>8 DEF Locked
  <2> QED BY <1>1, <1>4, <2>1 DEF Locked
<1>9. TreeInv'
  BY <1>0, <1>5, <1>8 DEF TreeInv
<1> QED BY <1>3, <1>6, <1>7, <1>9 DEF CacheInv

LEMMA CacheDies == CacheInv /\ DropClones => CacheInv'
<1> SUFFICES ASSUME CacheInv, DropClones PROVE CacheInv'
  OBVIOUS
<1>0. /\ CacheTypeOK /\ TreeInv /\ UNCHANGED plan
      /\ tree' \in [Location -> Tree] /\ marred' = marred \cup {l \in Location : Locked(l)}
      /\ at' = [r \in Run |-> "out"] /\ nth' = [r \in Run |-> 1] /\ stamp' = [r \in Run |-> "none"]
  BY DEF CacheInv, DropClones
<1>1. CacheTypeOK'
  BY <1>0 DEF CacheTypeOK, At, Stamp
<1>2. \A r \in Run : at'[r] = "out"
  BY <1>0
<1>3. (\A r \in Run : RunInv(r)') /\ AloneInv'
  BY <1>2 DEF RunInv, AloneInv, Busy, InGit
<1>4. ASSUME NEW l \in Location \ marred' PROVE tree'[l] = "absent" \/ tree'[l] = Wanted(l)
  <2>1. ~Locked(l) /\ l \notin marred
    BY <1>0, <1>4
  <2>2. tree'[l] = tree[l]
    BY <2>1 DEF DropClones, Locked
  <2> QED BY <1>0, <2>1, <2>2 DEF TreeInv
<1>5. TreeInv'
  BY <1>4 DEF TreeInv, Wanted
<1> QED BY <1>1, <1>3, <1>5 DEF CacheInv

CacheNext == DropClones \/ \E r \in Run : CacheStep(r)

LEMMA CacheNextInv == CacheInv /\ CacheNext => CacheInv'
<1> SUFFICES ASSUME CacheInv, CacheNext PROVE CacheInv'
  OBVIOUS
<1>1. CASE DropClones
  BY <1>1, CacheDies
<1>2. ASSUME NEW r \in Run, CacheStep(r) PROVE CacheInv'
  <2>1. CASE CloneStep(r) \/ CloneTrouble(r)
    BY <2>1, CacheClone, CacheTrouble
  <2>2. CASE Materialize(r)
    <3>1. stamp' \in [Run -> Stamp]
      BY <2>2 DEF Materialize, CacheInv, CacheTypeOK
    <3>2. PICK w \in {"want", "without"} : Goes(r, w) /\ (w = "want" => plan[r] # << >>)
      BY <2>2 DEF Materialize
    <3> QED BY <2>2, <3>1, <3>2, CacheComesAndGoes DEF Materialize, InGit
  <2>3. CASE Materialized(r) /\ Release(r)
    <3>1. stamp' \in [Run -> Stamp] /\ \A s \in Run \ {r} : stamp'[s] = stamp[s]
      BY <2>3 DEF Release, CacheInv, CacheTypeOK, Stamp
    <3>2. Goes(r, "out") /\ at[r] \notin InGit
      BY <2>3 DEF Release, Goes, Materialized, InGit
    <3> QED BY <2>3, <3>1, <3>2, CacheComesAndGoes DEF Release
  <2> QED BY <1>2, <2>1, <2>2, <2>3 DEF CacheStep
<1> QED BY <1>1, <1>2 DEF CacheNext

LEMMA CacheInitInv == CacheInit => CacheInv
<1> SUFFICES ASSUME CacheInit PROVE CacheInv
  OBVIOUS
<1>1. CacheTypeOK
  BY DEF CacheInit, CacheTypeOK, Tree, At, Stamp
<1>2. \A r \in Run : at[r] = "out"
  BY DEF CacheInit
<1>3. (\A r \in Run : RunInv(r)) /\ AloneInv
  BY <1>2 DEF RunInv, AloneInv, Busy, InGit
<1>4. TreeInv
  BY DEF CacheInit, TreeInv
<1> QED BY <1>1, <1>3, <1>4 DEF CacheInv

LEMMA CacheHolds == CacheInv => CheckoutHolds
BY DEF CacheInv, RunInv, CheckoutHolds

-----------------------------------------------------------------------------
(* The stages of a run.                                                    *)

StageInv ==
  /\ stage \in [Run -> Stages]
  /\ out \in [Run -> Doc \cup {NoDoc}]
  /\ \A r \in Run : (out[r] # NoDoc) = (stage[r] \in {"upload", "done"})
  /\ \A r \in Run : (at[r] # "out") => stage[r] \in {"clone", "publish", "upload"}
  /\ \A r \in Run : stage[r] \in {"publish", "upload"} => Materialized(r)
  /\ holder # Nobody => stage[holder] = "publish"
  /\ faults \in 0 .. MaxFaults

WholeInv == CacheInv /\ GitInv /\ StageInv

LEMMA CacheKeepsOthers ==
  ASSUME CacheInv, NEW r \in Run, CacheStep(r)
  PROVE  \A s \in Run \ {r} : at'[s] = at[s]
<1>1. CacheTypeOK
  BY DEF CacheInv
<1>2. CASE Materialize(r)
  BY <1>1, <1>2 DEF Materialize, Goes, CacheTypeOK
<1>3. CASE CloneStep(r)
  BY <1>1, <1>3 DEF CloneStep, Enter, Cloned, Fetched, CheckedOut, HandOut, Goes, CacheTypeOK
<1>4. CASE CloneTrouble(r)
  BY <1>1, <1>4 DEF CloneTrouble, OtherBranch, CloneFails, NotFetched, NotCheckedOut, HandOut,
     NextCandidate, Goes, CacheTypeOK
<1>5. CASE Materialized(r) /\ Release(r)
  BY <1>1, <1>5 DEF Release, CacheTypeOK
<1> QED BY <1>2, <1>3, <1>4, <1>5 DEF CacheStep

\* One step of one run, by what it does to its stage.
LEMMA StageMoves ==
  ASSUME WholeInv, NEW r \in Run, NEW t \in Stages, Reaches(r, t),
         NEW d \in Doc \cup {NoDoc}, out' = [out EXCEPT ![r] = d],
         (d # NoDoc) = (t \in {"upload", "done"}),
         at' \in [Run -> At], \A s \in Run \ {r} : at'[s] = at[s],
         at'[r] # "out" => t \in {"clone", "publish", "upload"},
         t \in {"publish", "upload"} => at'[r] \in {"have", "without"},
         holder' = Nobody \/ (holder' = holder /\ holder # r) \/ (holder' = r /\ t = "publish"),
         faults' = faults \/ Fault
  PROVE  StageInv'
<1>0. StageInv /\ stage \in [Run -> Stages] /\ out \in [Run -> Doc \cup {NoDoc}]
  BY DEF WholeInv, StageInv
<1>1. /\ stage' = [stage EXCEPT ![r] = t] /\ stage' \in [Run -> Stages]
      /\ stage'[r] = t /\ \A s \in Run \ {r} : stage'[s] = stage[s]
  BY <1>0 DEF Reaches
<1>2. out' \in [Run -> Doc \cup {NoDoc}] /\ out'[r] = d /\ \A s \in Run \ {r} : out'[s] = out[s]
  BY <1>0
<1>3. faults' \in 0 .. MaxFaults
  BY <1>0, BoundAssumption DEF Fault, StageInv
<1>4. \A s \in Run : (out'[s] # NoDoc) = (stage'[s] \in {"upload", "done"})
  BY <1>0, <1>1, <1>2 DEF StageInv
<1>5. \A s \in Run : (at'[s] # "out") => stage'[s] \in {"clone", "publish", "upload"}
  BY <1>0, <1>1 DEF StageInv
<1>6. \A s \in Run : stage'[s] \in {"publish", "upload"} => at'[s] \in {"have", "without"}
  BY <1>0, <1>1 DEF StageInv, Materialized
<1>7. holder' # Nobody => stage'[holder'] = "publish"
  <2>1. holder \in Run \cup {Nobody}
    BY RunAssumption DEF WholeInv, GitInv, GitTypeOK
  <2> QED BY <1>0, <1>1, <2>1 DEF StageInv
<1> QED BY <1>1, <1>2, <1>3, <1>4, <1>5, <1>6, <1>7 DEF StageInv, Materialized

LEMMA StageFails ==
  ASSUME WholeInv, NEW r \in Run, Reaches(r, "idle"), out' = [out EXCEPT ![r] = NoDoc],
         at' \in [Run -> At], \A s \in Run \ {r} : at'[s] = at[s], at'[r] = "out",
         holder' = Nobody \/ (holder' = holder /\ holder # r),
         faults' = faults \/ Fault
  PROVE  StageInv'
<1>1. PICK t \in Stages : t = "idle"
  BY DEF Stages
<1>2. PICK d \in Doc \cup {NoDoc} : d = NoDoc
  OBVIOUS
<1>3. Reaches(r, t) /\ out' = [out EXCEPT ![r] = d] /\ (d # NoDoc) = (t \in {"upload", "done"})
  BY <1>1, <1>2
<1> QED BY <1>1, <1>3, StageMoves

\* What every step is, for the checkouts and for the stages.
LEMMA WholeStep ==
  ASSUME WholeInv, DeliveryNext
  PROVE  (CacheNext \/ UNCHANGED cacheVars) /\ StageInv'
<1>0. /\ CacheInv /\ StageInv /\ GitTypeOK /\ at \in [Run -> At]
      /\ stage \in [Run -> Stages] /\ out \in [Run -> Doc \cup {NoDoc}]
      /\ \A r \in Run : out' = out => out' = [out EXCEPT ![r] = out[r]]
      /\ holder \in Run \cup {Nobody} /\ NoDoc \notin Doc
  BY RunAssumption, GitAssumption, DocumentAssumption DEF WholeInv, GitInv, StageInv, CacheInv, CacheTypeOK, GitTypeOK
<1>1. ASSUME NEW r \in Run, Start(r) \/ GetCode(r) \/ Built(r) \/ Upload(r) \/ Again(r)
      PROVE  (CacheNext \/ UNCHANGED cacheVars) /\ StageInv'
  <2>1. CASE Start(r)
    <3>1. CacheStep(r) /\ stage[r] = "idle" /\ Reaches(r, "clone") /\ holder' = holder /\ out' = out /\ faults' = faults
      BY <2>1 DEF Start, CacheStep, gitVars, pubVars
    <3>2. at' \in [Run -> At] /\ CacheNext
      BY <1>0, <3>1, CacheNextInv DEF CacheNext, CacheInv, CacheTypeOK
    <3>3. out[r] = NoDoc /\ holder # r
      BY <1>0, <3>1, RunAssumption, GitAssumption, DocumentAssumption DEF StageInv
    <3> QED BY <1>0, <3>1, <3>2, <3>3, CacheKeepsOthers, StageMoves DEF Stages
  <2>2. CASE GetCode(r)
    <3>1. /\ CacheStep(r) /\ stage[r] = "clone" /\ stage' = stage /\ holder' = holder /\ out' = out
          /\ faults' = faults \/ Fault
      BY <2>2 DEF GetCode, CacheStep, gitVars, pubVars
    <3>2. at' \in [Run -> At] /\ CacheNext
      BY <1>0, <3>1, CacheNextInv DEF CacheNext, CacheInv, CacheTypeOK
    <3>3. out[r] = NoDoc /\ holder # r /\ Reaches(r, "clone")
      BY <1>0, <3>1, RunAssumption, GitAssumption, DocumentAssumption DEF StageInv, Reaches
    <3> QED BY <1>0, <3>1, <3>2, <3>3, CacheKeepsOthers, StageMoves DEF Stages
  <2>3. CASE Built(r)
    <3>1. /\ UNCHANGED cacheVars /\ at' = at /\ stage[r] = "clone" /\ Reaches(r, "publish") /\ holder' = holder
          /\ out' = out /\ faults' = faults /\ at[r] \in {"have", "without"}
      BY <2>3 DEF Built, cacheVars, gitVars, pubVars, Materialized
    <3>3. out[r] = NoDoc /\ holder # r
      BY <1>0, <3>1, RunAssumption, GitAssumption, DocumentAssumption DEF StageInv
    <3> QED BY <1>0, <3>1, <3>3, StageMoves DEF Stages
  <2>4. CASE Upload(r)
    <3>1. /\ CacheStep(r) /\ stage[r] = "upload" /\ Reaches(r, "done") /\ holder' = holder
          /\ out' = out /\ faults' = faults /\ at'[r] = "out"
      BY <1>0, <2>4 DEF Upload, CacheStep, gitVars, pubVars, StageInv, Release
    <3>2. at' \in [Run -> At] /\ CacheNext
      BY <1>0, <3>1, CacheNextInv DEF CacheNext, CacheInv, CacheTypeOK
    <3>3. out[r] # NoDoc /\ holder # r
      BY <1>0, <3>1, RunAssumption, GitAssumption, DocumentAssumption DEF StageInv
    <3> QED BY <1>0, <3>1, <3>2, <3>3, CacheKeepsOthers, StageMoves DEF Stages
  <2>5. CASE Again(r)
    <3>1. /\ UNCHANGED cacheVars /\ at' = at /\ stage[r] = "done" /\ Reaches(r, "idle") /\ holder' = holder
          /\ out' = [out EXCEPT ![r] = NoDoc] /\ Fault
      BY <2>5 DEF Again, cacheVars, gitVars, pubVars
    <3>3. at[r] = "out" /\ holder # r
      BY <1>0, <3>1, RunAssumption, GitAssumption, DocumentAssumption DEF StageInv
    <3>4. StageInv'
      BY <1>0, <3>1, <3>3, StageFails
    <3> QED BY <3>1, <3>4
  <2> QED BY <1>1, <2>1, <2>2, <2>3, <2>4, <2>5
<1>2. ASSUME NEW r \in Run, Publishing(r) \/ PublishEnds(r)
      PROVE  (CacheNext \/ UNCHANGED cacheVars) /\ StageInv'
  <2>0. /\ UNCHANGED cacheVars /\ at' = at /\ stage[r] = "publish" /\ faults' = faults
        /\ at[r] \in {"have", "without"}
    BY <1>0, <1>2 DEF Publishing, PublishEnds, cacheVars, StageInv, Materialized
  <2>1. CASE Publishing(r)
    <3>1. holder' = r /\ out' = out /\ Reaches(r, "publish")
      BY <1>0, <2>0, <2>1 DEF Publishing, Sync, Begins, Write, CommitStaged, Push, Find, Reaches
    <3>2. out[r] = NoDoc
      BY <1>0, <2>0 DEF StageInv
    <3> QED BY <1>0, <2>0, <3>1, <3>2, StageMoves DEF Stages
  <2>2. CASE PublishEnds(r)
    <3>1. holder' = Nobody /\ out' = [out EXCEPT ![r] = doc] /\ Reaches(r, "upload") /\ holder = r
      BY <2>2 DEF PublishEnds, PushLast, Edit, Open, Free
    <3>2. doc \in Doc
      BY <1>0, <3>1, RunAssumption, GitAssumption, DocumentAssumption DEF GitTypeOK
    <3> QED BY <1>0, <2>0, <3>1, <3>2, StageMoves DEF Stages
  <2> QED BY <1>2, <2>1, <2>2
<1>3. ASSUME NEW r \in Run, PublishRefused(r) \/ PublishBreaks(r) \/ UploadFails(r)
      PROVE  (CacheNext \/ UNCHANGED cacheVars) /\ StageInv'
  <2>1. /\ stage[r] \in {"publish", "upload"} /\ Fails(r) /\ (faults' = faults \/ Fault)
    BY <1>3 DEF PublishRefused, PublishBreaks, UploadFails
  <2>2. /\ Materialized(r) /\ Release(r) /\ Reaches(r, "idle") /\ out' = [out EXCEPT ![r] = NoDoc]
    BY <1>0, <2>1 DEF Fails, StageInv
  <2>3. CacheStep(r) /\ at'[r] = "out"
    BY <1>0, <2>2 DEF CacheStep, Release
  <2>4. at' \in [Run -> At] /\ CacheNext
    BY <1>0, <2>3, CacheNextInv DEF CacheNext, CacheInv, CacheTypeOK
  <2>5. holder' = Nobody \/ (holder' = holder /\ holder # r)
    <3>1. CASE PublishRefused(r)
      BY <3>1 DEF PublishRefused, SyncRefused, PushRefused, OpenRefused, Free, gitVars, pubVars
    <3>2. CASE PublishBreaks(r)
      BY <3>2 DEF PublishBreaks, SyncFails, PublishFails, Free, pubVars
    <3>3. CASE UploadFails(r)
      BY <1>0, <3>3, RunAssumption, GitAssumption, DocumentAssumption DEF UploadFails, StageInv, gitVars, pubVars
    <3> QED BY <1>3, <3>1, <3>2, <3>3
  <2>6. StageInv'
    BY <1>0, <2>1, <2>2, <2>3, <2>4, <2>5, CacheKeepsOthers, StageFails
  <2> QED BY <2>4, <2>6
<1>4. CASE People
  <2>1. UNCHANGED <<cacheVars, stage, out, faults, holder>>
    BY <1>4 DEF People, PeopleStep, Merge, Close, Amend, Change, pubVars
  <2> QED BY <1>0, <2>1 DEF StageInv, cacheVars, Materialized
<1>5. CASE Crash
  <2>1. /\ CacheNext /\ at' = [r \in Run |-> "out"]
        /\ stage' = [r \in Run |-> IF stage[r] = "done" THEN "done" ELSE "idle"]
        /\ out' = [r \in Run |-> IF stage[r] = "done" THEN out[r] ELSE NoDoc]
        /\ Fault
    BY <1>5 DEF Crash, CacheNext, DropClones
  <2>2. holder' = Nobody
    BY <1>5 DEF Crash, PublishFails, SyncFails, Free, gitVars, pubVars
  <2>3. faults' \in 0 .. MaxFaults
    BY <1>0, <2>1, BoundAssumption DEF Fault, StageInv
  <2>4. stage' \in [Run -> Stages] /\ out' \in [Run -> Doc \cup {NoDoc}]
    BY <1>0, <2>1 DEF Stages
  <2>5. \A r \in Run : (out'[r] # NoDoc) = (stage'[r] \in {"upload", "done"})
    BY <1>0, <2>1 DEF StageInv
  <2>6. \A r \in Run : at'[r] = "out" /\ stage'[r] \notin {"publish", "upload"}
    BY <2>1
  <2> QED BY <2>1, <2>2, <2>3, <2>4, <2>5, <2>6 DEF StageInv
<1> QED BY <1>1, <1>2, <1>3, <1>4, <1>5 DEF DeliveryNext, RunStep

-----------------------------------------------------------------------------
(* Documents that have been published.                                     *)

Shared(r) == \E s \in Run \ {r} : BranchOf[s] = BranchOf[r]

Stands(r, d) ==
  \/ d \in Docs(base)
  \/ /\ mode # "direct"
     /\ \/ BranchOf[r] \in handled
        \/ Shared(r)
        \/ d \in OnBranch(BranchOf[r]) /\ (mode = "pr" => pr[BranchOf[r]] = "open")

\* After its push a publish finds its document where it has put it.
LookInv ==
  holder # Nobody /\ step \in Looks =>
    /\ mode = "pr"
    /\ BranchOf[holder] \in handled \/ Shared(holder) \/ doc \in OnBranch(BranchOf[holder])
    /\ step = "edit" =>
         BranchOf[holder] \in handled \/ Shared(holder) \/ pr[BranchOf[holder]] = "open"

PropInv == LookInv /\ \A r \in Run : stage[r] \in {"upload", "done"} => Stands(r, out[r])

LEMMA BaseGrows ==
  ASSUME GitInv, GitStep \/ UNCHANGED gitVars
  PROVE  Docs(base) \subseteq Docs(base')
<1>1. CASE GitStep
  <2>1. PICK more \in Seq(Commit) : base' = base \o more
    BY <1>1, Additions DEF GitInv
  <2> QED BY <2>1, DocsConcat DEF GitInv, GitTypeOK
<1>2. CASE UNCHANGED gitVars
  BY <1>2 DEF gitVars, remoteVars
<1> QED BY <1>1, <1>2

\* What is published stands as long as nobody publishes to its branch.
LEMMA StandsOn ==
  ASSUME GitInv, GitStep \/ UNCHANGED gitVars, NEW CONSTANT r \in Run, NEW CONSTANT d,
         Stands(r, d), holder # r
  PROVE  Stands(r, d)'
<1>0. /\ r \in Product /\ BranchOf[r] \in Branch /\ holder \in Product \cup {Nobody}
      /\ review \in [Branch -> Line \cup {NoBranch}] /\ pr \in [Branch -> {"none", "open", "closed"}]
      /\ Run = Product /\ (step = "free" <=> holder = Nobody)
  BY RunAssumption DEF GitInv, GitTypeOK, Branch
<1>1. mode' = mode
  BY DEF GitStep, gitVars, Sync, Write, CommitStaged, Push, PushLast, PushRefused, Find, Edit, Open,
     OpenRefused, PublishFails, SyncFails, PeopleStep, Merge, Close, Amend, Change
<1>2. d \in Docs(base) => d \in (Docs(base))'
  BY BaseGrows DEF Docs
<1>3. Shared(r) => Shared(r)'
  BY DEF Shared
<1> SUFFICES ASSUME mode # "direct", ~Shared(r)
             PROVE  BranchOf[r] \in handled \/ (/\ d \in OnBranch(BranchOf[r])
                                                /\ mode = "pr" => pr[BranchOf[r]] = "open")
                    => BranchOf[r] \in handled' \/ (/\ d \in (OnBranch(BranchOf[r]))'
                                                    /\ mode = "pr" => pr'[BranchOf[r]] = "open")
  BY <1>1, <1>2, <1>3 DEF Stands
<1>4. PICK b \in Branch : b = BranchOf[r]
  BY <1>0
<1>5. ASSUME handled' = handled \/ b \in handled', UNCHANGED review,
             pr' = pr \/ pr'[b] = "open" \/ b \in handled'
      PROVE  b \in handled \/ (d \in OnBranch(b) /\ (mode = "pr" => pr[b] = "open"))
             => b \in handled' \/ (d \in (OnBranch(b))' /\ (mode = "pr" => pr'[b] = "open"))
  BY <1>5 DEF OnBranch, Docs
<1>6. ASSUME Pushed, step = "push"
      PROVE  b \in handled \/ (d \in OnBranch(b) /\ (mode = "pr" => pr[b] = "open"))
             => b \in handled' \/ (d \in (OnBranch(b))' /\ (mode = "pr" => pr'[b] = "open"))
  <2>1. /\ review' = [review EXCEPT ![BranchOf[holder]] = head] /\ handled' = handled \ {BranchOf[holder]}
        /\ pr' = pr
    BY <1>6 DEF Pushed
  <2>2. BranchOf[holder] # b
    BY <1>0, <1>4, <1>6 DEF Shared
  <2>3. review'[b] = review[b]
    BY <1>0, <2>1, <2>2
  <2> QED BY <2>1, <2>2, <2>3 DEF OnBranch, Docs
<1>7. ASSUME Opened, step = "open" PROVE pr'[b] = pr[b] \/ pr'[b] = "open"
  BY <1>0, <1>7 DEF Opened
<1>8. CASE Push \/ PushLast
  BY <1>4, <1>6, <1>8 DEF Push, PushLast
<1>9. CASE Open
  <2>1. UNCHANGED <<review, handled>> /\ (pr'[b] = pr[b] \/ pr'[b] = "open")
    BY <1>7, <1>9 DEF Open, Opened
  <2> QED BY <1>4, <2>1 DEF OnBranch, Docs
<1>10. CASE PublishFails
  <2>1. CASE UNCHANGED remoteVars
    BY <1>4, <1>5, <2>1 DEF remoteVars
  <2>2. CASE step = "push" /\ Pushed
    BY <1>4, <1>6, <2>2
  <2>3. CASE step = "open" /\ Opened
    <3>1. UNCHANGED <<review, handled>> /\ (pr'[b] = pr[b] \/ pr'[b] = "open")
      BY <1>7, <2>3 DEF Opened
    <3> QED BY <1>4, <3>1 DEF OnBranch, Docs
  <2> QED BY <1>10, <2>1, <2>2, <2>3 DEF PublishFails
<1>11. CASE PeopleStep
  <2>1. ASSUME NEW c \in Branch, Merge(c) \/ Close(c) \/ Amend(c)
        PROVE  \/ b \in handled'
               \/ handled' = handled \cup {c} /\ review'[b] = review[b] /\ pr'[b] = pr[b]
    BY <1>0, <2>1 DEF Merge, Close, Amend
  <2>2. ASSUME NEW f \in File, Change(f) PROVE UNCHANGED <<handled, review, pr>>
    BY <2>2 DEF Change
  <2>3. \/ b \in handled'
        \/ handled \subseteq handled' /\ review'[b] = review[b] /\ pr'[b] = pr[b]
    BY <1>11, <2>1, <2>2 DEF PeopleStep
  <2> QED BY <1>4, <2>3 DEF OnBranch, Docs
<1>12. CASE \/ \E p \in Product : Sync(p)
            \/ Write \/ CommitStaged \/ PushRefused \/ Find \/ Edit \/ OpenRefused \/ SyncFails
            \/ UNCHANGED gitVars
  <2>1. UNCHANGED <<handled, review, pr>>
    BY <1>12 DEF Sync, Write, CommitStaged, PushRefused, Find, Edit, OpenRefused, SyncFails, gitVars, remoteVars
  <2> QED BY <1>4, <1>5, <2>1
<1> QED BY <1>8, <1>9, <1>10, <1>11, <1>12 DEF GitStep

LEMMA LookStep ==
  ASSUME GitInv, LookInv, GitStep \/ UNCHANGED gitVars
  PROVE  LookInv'
<1>0. /\ holder \in Product \cup {Nobody} /\ Nobody \notin Product /\ (step = "free" <=> holder = Nobody)
      /\ review \in [Branch -> Line \cup {NoBranch}] /\ pr \in [Branch -> {"none", "open", "closed"}]
      /\ head \in Line /\ head # NoBranch
  BY GitAssumption, DocumentAssumption DEF GitInv, GitTypeOK
<1>1. CASE \/ \E p \in Product : Sync(p)
           \/ Write \/ CommitStaged \/ PushLast \/ PushRefused \/ Edit \/ Open \/ OpenRefused \/ PublishFails
  <2>1. step' \in {"write", "commit", "push", "free"}
    BY <1>1 DEF Sync, Begins, Write, CommitStaged, PushLast, PushRefused, Edit, Open, OpenRefused, PublishFails, Free
  <2> QED BY <2>1 DEF LookInv, Looks
<1>2. CASE Push
  <2>1. /\ step = "push" /\ mode = "pr" /\ mode' = mode /\ Pushed /\ step' = "find"
        /\ UNCHANGED <<holder, doc, built>>
    BY <1>2 DEF Push
  <2>2. holder \in Product /\ BranchOf[holder] \in Branch
    BY <1>0, <2>1 DEF Branch
  <2>3. PICK h \in Branch : h = BranchOf[holder]
    BY <2>2
  <2>4. (OnBranch(h))' = {doc}
    BY <2>1, <2>3, PushInv DEF GitInv
  <2>5. (OnBranch(BranchOf[holder]))' = (OnBranch(h))'
    BY <2>1, <2>3 DEF OnBranch
  <2> QED BY <2>1, <2>4, <2>5 DEF LookInv
<1>3. CASE Find
  <2>1. /\ step = "find" /\ UNCHANGED <<mode, base, review, pr, handled, holder, doc>>
        /\ step' = IF pr[BranchOf[holder]] = "open" THEN "edit" ELSE "open"
    BY <1>3 DEF Find, remoteVars
  <2> QED BY <2>1 DEF LookInv, Shared, OnBranch, Docs, Looks
<1>4. CASE SyncFails \/ UNCHANGED gitVars
  <2>1. UNCHANGED <<mode, base, review, pr, handled, holder, doc, step>>
    BY <1>4 DEF SyncFails, gitVars, remoteVars, pubVars
  <2> QED BY <2>1 DEF LookInv, Shared, OnBranch, Docs, Looks
<1>5. CASE PeopleStep
  <2>0. UNCHANGED <<mode, holder, doc, step>>
    BY <1>5 DEF PeopleStep, Merge, Close, Amend, Change, pubVars
  <2> SUFFICES ASSUME holder # Nobody, step \in Looks PROVE LookInv'
    BY <2>0 DEF LookInv
  <2>1. holder \in Product /\ BranchOf[holder] \in Branch
    BY <1>0 DEF Branch
  <2>2. PICK b \in Branch : b = BranchOf[holder]
    BY <2>1
  <2>3. ASSUME NEW c \in Branch, Merge(c) \/ Close(c) \/ Amend(c)
        PROVE  \/ b \in handled'
               \/ handled \subseteq handled' /\ review'[b] = review[b] /\ pr'[b] = pr[b]
    BY <1>0, <2>3 DEF Merge, Close, Amend
  <2>4. ASSUME NEW f \in File, Change(f) PROVE UNCHANGED <<handled, review, pr>>
    BY <2>4 DEF Change
  <2>5. \/ b \in handled'
        \/ handled \subseteq handled' /\ review'[b] = review[b] /\ pr'[b] = pr[b]
    BY <1>5, <2>3, <2>4 DEF PeopleStep
  <2>6. review'[b] = review[b] => (OnBranch(b))' = OnBranch(b)
    BY DEF OnBranch, Docs
  <2>7. (OnBranch(BranchOf[holder]))' = (OnBranch(b))'
    BY <2>0, <2>2 DEF OnBranch
  <2>8. Shared(holder)' <=> Shared(holder)
    BY <2>0 DEF Shared
  <2> QED BY <2>0, <2>2, <2>5, <2>6, <2>7, <2>8 DEF LookInv
<1> QED BY <1>1, <1>2, <1>3, <1>4, <1>5 DEF GitStep

LEMMA WhoHasPublished ==
  ASSUME StageInv, DeliveryNext, NEW r \in Run, stage'[r] \in {"upload", "done"}
  PROVE  PublishEnds(r) \/ (stage[r] \in {"upload", "done"} /\ out'[r] = out[r])
<1>0. stage \in [Run -> Stages] /\ out \in [Run -> Doc \cup {NoDoc}]
  BY DEF StageInv
<1>1. ASSUME NEW s \in Run, RunStep(s) \/ Again(s)
      PROVE  \/ s = r /\ PublishEnds(r)
             \/ stage[r] \in {"upload", "done"} /\ out'[r] = out[r]
  <2>1. CASE Start(s) \/ GetCode(s) \/ Built(s) \/ Publishing(s)
    BY <1>0, <2>1 DEF Start, GetCode, Built, Publishing, Reaches
  <2>2. CASE PublishEnds(s)
    BY <1>0, <2>2 DEF PublishEnds, Reaches
  <2>3. CASE PublishRefused(s) \/ PublishBreaks(s) \/ UploadFails(s)
    BY <1>0, <2>3 DEF PublishRefused, PublishBreaks, UploadFails, Fails, Reaches
  <2>4. CASE Upload(s) \/ Again(s)
    BY <1>0, <2>4 DEF Upload, Again, Reaches
  <2> QED BY <1>1, <2>1, <2>2, <2>3, <2>4 DEF RunStep
<1>2. CASE People
  BY <1>2 DEF People
<1>3. CASE Crash
  BY <1>0, <1>3 DEF Crash
<1> QED BY <1>1, <1>2, <1>3 DEF DeliveryNext

LEMMA PublishedStands ==
  ASSUME WholeInv, LookInv, NEW CONSTANT r \in Run, NEW CONSTANT d, d = doc, PublishEnds(r)
  PROVE  Stands(r, d)'
<1>0. /\ holder = r /\ r \in Product /\ holder # Nobody /\ BranchOf[r] \in Branch
      /\ GitTypeOK /\ RejectInv /\ mode \in Mode
  BY RunAssumption, GitAssumption, DocumentAssumption DEF PublishEnds, WholeInv, GitInv, Branch, GitTypeOK
<1>1. CASE PushLast
  <2>1. step = "push" /\ Pushed /\ mode # "pr" /\ mode' = mode /\ built' = built
    BY <1>1 DEF PushLast, Free
  <2>2. CASE mode = "direct"
    <3>1. base' = base \o head.commits /\ Docs(head.commits) = {d}
      BY <1>0, <2>1, <2>2 DEF Pushed, RejectInv, HandInv
    <3>2. d \in Docs(base')
      BY <1>0, <3>1, DocsConcat DEF GitTypeOK, Line
    <3> QED BY <3>2 DEF Stands, Docs
  <2>3. CASE mode # "direct"
    <3>1. PICK h \in Branch : h = BranchOf[r]
      BY <1>0
    <3>2. (OnBranch(h))' = {d}
      BY <1>0, <2>1, <2>3, <3>1, PushInv
    <3> QED BY <2>1, <2>3, <3>1, <3>2 DEF Stands
  <2> QED BY <2>2, <2>3
<1>2. CASE Edit
  <2>1. step = "edit" /\ UNCHANGED <<mode, base, review, pr, handled>>
    BY <1>2 DEF Edit, remoteVars
  <2>2. \/ BranchOf[r] \in handled \/ Shared(r)
        \/ d \in OnBranch(BranchOf[r]) /\ pr[BranchOf[r]] = "open"
    BY <1>0, <2>1 DEF LookInv, Looks
  <2>3. mode = "pr"
    BY <1>0, <2>1 DEF LookInv, Looks
  <2> QED BY <2>1, <2>2, <2>3 DEF Stands, Shared, OnBranch, Docs
<1>3. CASE Open
  <2>1. /\ step = "open" /\ UNCHANGED <<mode, base, review, handled>>
        /\ pr'[BranchOf[r]] = "open"
    BY <1>0, <1>3 DEF Open, Opened, GitTypeOK
  <2>2. BranchOf[r] \in handled \/ Shared(r) \/ d \in OnBranch(BranchOf[r])
    BY <1>0, <2>1 DEF LookInv, Looks
  <2>3. mode = "pr"
    BY <1>0, <2>1 DEF LookInv, Looks
  <2> QED BY <2>1, <2>2, <2>3 DEF Stands, Shared, OnBranch, Docs
<1> QED BY <1>1, <1>2, <1>3 DEF PublishEnds

LEMMA PropStep == WholeInv /\ PropInv /\ DeliveryNext => PropInv'
<1> SUFFICES ASSUME WholeInv, PropInv, DeliveryNext PROVE PropInv'
  OBVIOUS
<1>0. GitInv /\ StageInv /\ LookInv /\ (GitStep \/ UNCHANGED gitVars)
  BY StepsOfGit DEF WholeInv, PropInv
<1>1. LookInv'
  BY <1>0, LookStep
<1>2. ASSUME NEW r \in Run, stage'[r] \in {"upload", "done"} PROVE Stands(r, out[r])'
  <2>1. CASE stage[r] \in {"upload", "done"} /\ out'[r] = out[r]
    <3>1. PICK d : d = out[r]
      OBVIOUS
    <3>2. Stands(r, d)
      BY <2>1, <3>1 DEF PropInv
    <3>3. holder # r
      BY <1>0, <2>1, RunAssumption, GitAssumption, DocumentAssumption DEF StageInv
    <3>4. Stands(r, d)'
      BY <1>0, <3>2, <3>3, StandsOn
    <3> QED BY <2>1, <3>1, <3>4 DEF Stands
  <2>2. CASE PublishEnds(r)
    <3>1. PICK d : d = doc
      OBVIOUS
    <3>2. out'[r] = d
      BY <1>0, <2>2, <3>1 DEF PublishEnds, StageInv
    <3>3. Stands(r, d)'
      BY <1>0, <2>2, <3>1, PublishedStands
    <3> QED BY <3>2, <3>3 DEF Stands
  <2> QED BY <1>0, <1>2, <2>1, <2>2, WhoHasPublished
<1> QED BY <1>1, <1>2 DEF PropInv

-----------------------------------------------------------------------------
LEMMA WholeInitInv == DeliveryInit => WholeInv /\ PropInv
<1> SUFFICES ASSUME DeliveryInit PROVE WholeInv /\ PropInv
  OBVIOUS
<1>1. CacheInv /\ GitInv
  BY CacheInitInv, GitTypeInit, TidyInit, RejectInit DEF DeliveryInit, GitInv
<1>2. /\ holder = Nobody /\ (\A r \in Run : at[r] = "out" /\ stage[r] = "idle" /\ out[r] = NoDoc)
      /\ stage \in [Run -> Stages] /\ out \in [Run -> Doc \cup {NoDoc}] /\ faults \in 0 .. MaxFaults
  BY BoundAssumption DEF DeliveryInit, CacheInit, GitInit, Stages
<1>3. StageInv
  BY <1>2 DEF StageInv
<1> QED BY <1>1, <1>2, <1>3 DEF WholeInv, PropInv, LookInv

LEMMA WholeStutter == WholeInv /\ PropInv /\ UNCHANGED deliveryVars => WholeInv' /\ PropInv'
<1> SUFFICES ASSUME WholeInv, PropInv, UNCHANGED deliveryVars PROVE WholeInv' /\ PropInv'
  OBVIOUS
<1>1. /\ UNCHANGED <<plan, tree, at, nth, stamp, marred, stage, out, faults>>
      /\ UNCHANGED gitVars
  BY DEF deliveryVars, cacheVars
<1>2. UNCHANGED <<mode, base, review, pr, handled, holder, doc, step>>
  BY <1>1 DEF gitVars, remoteVars, pubVars
<1>3. CacheInv'
  BY <1>1 DEF WholeInv, CacheInv, CacheTypeOK, RunInv, AloneInv, TreeInv, Here, Wanted, Locked
<1>4. GitInv'
  BY <1>1, GitStutter DEF WholeInv
<1>5. StageInv'
  BY <1>1, <1>2 DEF WholeInv, StageInv, Materialized
<1>6. PropInv'
  <2>1. /\ (Docs(base))' = Docs(base) /\ \A r \in Run : (OnBranch(BranchOf[r]))' = OnBranch(BranchOf[r])
        /\ (OnBranch(BranchOf[holder]))' = OnBranch(BranchOf[holder])
    BY <1>2 DEF OnBranch, Docs
  <2>2. \A r \in Run : Stands(r, out[r]) => Stands(r, out[r])'
    BY <1>1, <1>2, <2>1 DEF Stands, Shared
  <2>3. LookInv'
    BY <1>2, <2>1 DEF PropInv, LookInv, Shared
  <2> QED BY <1>1, <2>2, <2>3 DEF PropInv
<1> QED BY <1>3, <1>4, <1>5, <1>6 DEF WholeInv

LEMMA WholeIsInvariant == DeliverySpec => [](WholeInv /\ PropInv)
<1>1. WholeInv /\ PropInv /\ [DeliveryNext]_deliveryVars => (WholeInv /\ PropInv)'
  <2> SUFFICES ASSUME WholeInv, PropInv, [DeliveryNext]_deliveryVars PROVE WholeInv' /\ PropInv'
    OBVIOUS
  <2>1. CASE DeliveryNext
    <3>1. (CacheNext \/ UNCHANGED cacheVars) /\ StageInv' /\ (GitStep \/ UNCHANGED gitVars)
      BY <2>1, WholeStep, StepsOfGit
    <3>2. CacheInv'
      <4>1. CASE UNCHANGED cacheVars
        BY <4>1 DEF cacheVars, WholeInv, CacheInv, CacheTypeOK, RunInv, AloneInv, TreeInv, Here, Wanted, Locked
      <4> QED BY <3>1, <4>1, CacheNextInv DEF WholeInv
    <3>3. GitInv'
      BY <3>1, GitTypeStep, TidyStep, RejectStep, GitStutter DEF WholeInv, GitInv
    <3> QED BY <2>1, <3>1, <3>2, <3>3, PropStep DEF WholeInv
  <2>2. CASE UNCHANGED deliveryVars
    BY <2>2, WholeStutter
  <2> QED BY <2>1, <2>2
<1> QED BY <1>1, WholeInitInv, PTL DEF DeliverySpec

\* Every variable keeps its type, for any number of products and checkouts;
\* nobody works on a checkout, or holds the publisher, outside its stage.
THEOREM DeliveryTypeCorrect == DeliverySpec => []DeliveryTypeOK
<1>1. WholeInv => DeliveryTypeOK
  BY DEF WholeInv, CacheInv, GitInv, StageInv, DeliveryTypeOK
<1> QED BY <1>1, WholeIsInvariant, PTL

\* A run has the files of the commit its answers are filed under, and those
\* it asked for, however many runs share the checkout, unless a git command
\* failed or died in it (repo.go:222-265).
THEOREM CheckoutsHold == DeliverySpec => []CheckoutHolds
<1>1. WholeInv => CheckoutHolds
  BY CacheHolds DEF WholeInv
<1> QED BY <1>1, WholeIsInvariant, PTL

\* What has been published stays proposed until people, or another run for
\* the same branch, act on it (gitops.go:240-277).
THEOREM ProposalsStand == DeliverySpec => []ProposalStands
<1>1. PropInv => ProposalStands
  BY DEF PropInv, Stands, Shared, ProposalStands
<1> QED BY <1>1, WholeIsInvariant, PTL

-----------------------------------------------------------------------------
(* What a publish is refused for.                                          *)

ByPeopleOnly(c) == \A d \in c : d.by = Person

\* While the mutex is held nobody but people adds to the base, and a pull
\* request that is looked for is still as it was found, or worse.
ReasonInv ==
  /\ mode = "direct" => \A b \in Branch : pr[b] # "open"
  /\ holder # Nobody /\ mode = "direct" =>
       /\ head.from <= Len(base)
       /\ \A i \in head.from + 1 .. Len(base) : ByPeopleOnly(base[i])
  /\ step \in Looks => mode = "pr"
  /\ step \in {"find", "open"} /\ review[BranchOf[holder]] = NoBranch => BranchOf[holder] \in handled
  /\ step = "open" => pr[BranchOf[holder]] # "open"

JamInv == jammed => faults > 0

LEMMA ReasonInit == DeliveryInit => ReasonInv /\ JamInv
BY DEF DeliveryInit, GitInit, ReasonInv, JamInv, Looks

\* What is at hand when a publish takes its next step.
LEMMA AtHand ==
  ASSUME GitTypeOK
  PROVE  /\ (step = "free" <=> holder = Nobody) /\ base \in Seq(Commit) /\ Len(base) \in Nat
         /\ head \in Line /\ head.from \in Nat /\ head # NoBranch
         /\ review \in [Branch -> Line \cup {NoBranch}] /\ NoBranch \notin Line
         /\ pr \in [Branch -> {"none", "open", "closed"}]
         /\ holder # Nobody => holder \in Product /\ BranchOf[holder] \in Branch
         /\ people \in Nat /\ Nobody \notin Product
BY GitAssumption DEF GitTypeOK, Line, Branch

LEMMA ReasonPublish ==
  ASSUME GitTypeOK, ReasonInv,
         \/ \E p \in Product : Sync(p)
         \/ Write \/ CommitStaged \/ Push \/ PushLast \/ PushRefused
         \/ Find \/ Edit \/ Open \/ OpenRefused \/ PublishFails \/ SyncFails
  PROVE  ReasonInv'
<1>0. /\ (step = "free" <=> holder = Nobody) /\ Len(base) \in Nat
      /\ head.from \in Nat /\ head # NoBranch
  BY AtHand
<1>1. CASE \E p \in Product : Sync(p)
  <2>1. PICK p \in Product : Sync(p)
    BY <1>1
  <2>2. UNCHANGED <<mode, base, review, pr, handled>> /\ step' = "write" /\ head'.from = Len(base)
    BY <2>1 DEF Sync, Begins, AtBase, remoteVars
  <2> QED BY <1>0, <2>2 DEF ReasonInv, Looks
<1>2. CASE Write \/ SyncFails
  <2>1. UNCHANGED <<mode, base, review, pr, handled, head, holder>> /\ (step' = "commit" \/ step' = step)
        /\ (step' = step \/ step = "write")
    BY <1>2 DEF Write, SyncFails, remoteVars, pubVars
  <2> QED BY <2>1 DEF ReasonInv, Looks
<1>3. CASE CommitStaged
  <2>1. UNCHANGED <<mode, base, review, pr, handled, holder>> /\ step' = "push" /\ head'.from = head.from
    BY <1>3, AtHand DEF CommitStaged, remoteVars, Line
  <2> QED BY <2>1 DEF ReasonInv, Looks
<1>4. CASE Push
  <2>1. /\ UNCHANGED <<mode, base, pr, holder, head>> /\ step' = "find" /\ mode = "pr"
        /\ review' = [review EXCEPT ![BranchOf[holder]] = head] /\ holder # Nobody
    BY <1>0, <1>4 DEF Push, Pushed, copyVars
  <2>2. review'[BranchOf[holder]] = head
    BY <2>1, AtHand
  <2> QED BY <1>0, <2>1, <2>2 DEF ReasonInv, Looks
<1>5. CASE Find
  <2>1. /\ UNCHANGED <<mode, base, review, pr, handled, holder, head>>
        /\ step = "find" /\ step' = IF pr[BranchOf[holder]] = "open" THEN "edit" ELSE "open"
    BY <1>5 DEF Find, remoteVars, copyVars
  <2> QED BY <2>1 DEF ReasonInv, Looks
<1>6. CASE PushLast \/ PushRefused \/ Edit \/ Open \/ OpenRefused \/ PublishFails
  <2>1. holder' = Nobody /\ step' = "free" /\ mode' = mode
    BY <1>6 DEF PushLast, PushRefused, Edit, Open, OpenRefused, PublishFails, Free
  <2>2. ASSUME mode = "direct" PROVE pr' = pr
    <3>1. step # "open"
      BY <2>2 DEF ReasonInv, Looks
    <3> QED BY <1>6, <2>2, <3>1 DEF PushLast, PushRefused, Edit, Open, OpenRefused, PublishFails, Pushed, remoteVars
  <2> QED BY <2>1, <2>2 DEF ReasonInv, Looks
<1> QED BY <1>1, <1>2, <1>3, <1>4, <1>5, <1>6

LEMMA ReasonPeople ==
  ASSUME GitTypeOK, ReasonInv, PeopleStep
  PROVE  ReasonInv'
<1>0. UNCHANGED <<mode, head, holder, step>>
  BY DEF PeopleStep, Merge, Close, Amend, Change, copyVars, pubVars
<1>1. ASSUME NEW b \in Branch, Merge(b) \/ Close(b) \/ Amend(b)
      PROVE  ReasonInv'
  <2>1. UnderReview(b) /\ mode # "direct" /\ handled' = handled \cup {b}
    BY <1>1 DEF Merge, Close, Amend, UnderReview, ReasonInv
  <2>2. ASSUME NEW c \in Branch PROVE /\ review'[c] = NoBranch => review[c] = NoBranch \/ c \in handled'
                                      /\ pr'[c] = "open" => pr[c] = "open"
    <3>1. CASE c = b
      BY <2>1, <3>1, <1>1, AtHand DEF UnderReview
    <3>2. CASE c # b
      BY <3>2, <1>1, AtHand DEF Merge, Close, Amend
    <3> QED BY <3>1, <3>2
  <2>3. step \in {"find", "open"} => BranchOf[holder] \in Branch
    BY AtHand
  <2>4. handled \subseteq handled'
    BY <2>1
  <2> QED BY <1>0, <2>1, <2>2, <2>3, <2>4 DEF ReasonInv
<1>2. ASSUME NEW f \in File, Change(f)
      PROVE  ReasonInv'
  <2>1. base' = Append(base, {ByPeople(f)}) /\ UNCHANGED <<review, pr, handled>>
    BY <1>2 DEF Change
  <2>2. /\ {ByPeople(f)} \in Commit /\ Len(base') = Len(base) + 1 /\ Len(base) \in Nat
        /\ base'[Len(base) + 1] = {ByPeople(f)} /\ \A i \in 1 .. Len(base) : base'[i] = base[i]
    BY <2>1, AtHand, NewDocs
  <2>3. ByPeopleOnly({ByPeople(f)})
    BY DEF ByPeopleOnly, ByPeople
  <2>4. ASSUME holder # Nobody, mode = "direct",
               NEW i \in head.from + 1 .. Len(base')
        PROVE  ByPeopleOnly(base'[i])
    <3>1. CASE i = Len(base) + 1
      BY <2>2, <2>3, <3>1
    <3>2. CASE i # Len(base) + 1
      <4>1. i \in head.from + 1 .. Len(base) /\ i \in 1 .. Len(base)
        BY <2>2, <2>4, <3>2, AtHand
      <4> QED BY <2>2, <2>4, <4>1 DEF ReasonInv
    <3> QED BY <3>1, <3>2
  <2>5. holder # Nobody /\ mode = "direct" => head.from <= Len(base')
    BY <2>2, AtHand DEF ReasonInv
  <2> QED BY <1>0, <2>1, <2>4, <2>5 DEF ReasonInv, ByPeopleOnly
<1> QED BY <1>1, <1>2 DEF PeopleStep

\* Only a command that is killed leaves a lock.
LEMMA JamStep ==
  ASSUME StageInv, JamInv, DeliveryNext
  PROVE  JamInv'
<1>0. faults \in Nat /\ (Fault => faults' = faults + 1)
  BY BoundAssumption DEF StageInv, Fault
<1>1. ASSUME NEW r \in Run, RunStep(r) \/ Again(r) PROVE JamInv'
  <2>1. CASE Start(r) \/ GetCode(r) \/ Built(r) \/ Upload(r) \/ UploadFails(r) \/ Again(r)
    <3>1. jammed' = jammed /\ (faults' = faults \/ Fault)
      BY <2>1 DEF Start, GetCode, Built, Upload, UploadFails, Again, gitVars, copyVars
    <3> QED BY <1>0, <3>1 DEF JamInv
  <2>2. CASE Publishing(r) \/ PublishEnds(r) \/ PublishRefused(r)
    <3>1. jammed' = jammed /\ faults' = faults
      BY <2>2 DEF Publishing, PublishEnds, PublishRefused, Sync, Write, CommitStaged, Push, Find, PushLast,
         Edit, Open, SyncRefused, PushRefused, OpenRefused, gitVars, copyVars
    <3> QED BY <3>1 DEF JamInv
  <2>3. CASE PublishBreaks(r)
    <3>1. Fault
      BY <2>3 DEF PublishBreaks
    <3> QED BY <1>0, <3>1 DEF JamInv
  <2> QED BY <1>1, <2>1, <2>2, <2>3 DEF RunStep
<1>2. CASE People
  BY <1>2 DEF People, PeopleStep, Merge, Close, Amend, Change, copyVars, JamInv
<1>3. CASE Crash
  BY <1>0, <1>3 DEF Crash, JamInv
<1> QED BY <1>1, <1>2, <1>3 DEF DeliveryNext

\* No run of the process is refused because of another one, or of its own past
\* but for a lock: people have been at the base, or at the branch
\* (gitops.go:92-93, 137-145, 255-277).
THEOREM RefusalsHaveReasons == DeliverySpec => []RefusedForReason
<1>1. ASSUME GitTypeOK, ReasonInv, JamInv PROVE RefusedForReason
  <2>1. ASSUME step = "push", mode = "direct", ~FastForward
        PROVE  /\ head.from < Len(base)
               /\ \A i \in head.from + 1 .. Len(base) : \A d \in base[i] : d.by = Person
    BY <1>1, <2>1, AtHand DEF ReasonInv, ByPeopleOnly, FastForward
  <2>2. ASSUME step = "open", ~Openable(BranchOf[holder])
        PROVE  BranchOf[holder] \in handled
    BY <1>1, <2>2 DEF ReasonInv, Openable
  <2> QED BY <1>1, <2>1, <2>2 DEF RefusedForReason, JamInv
<1>2. ASSUME WholeInv, ReasonInv, JamInv, [DeliveryNext]_deliveryVars
      PROVE  ReasonInv' /\ JamInv'
  <2>1. CASE DeliveryNext
    <3>1. GitStep \/ UNCHANGED gitVars
      BY <2>1, StepsOfGit
    <3>2. ReasonInv'
      <4>1. CASE UNCHANGED gitVars
        BY <1>2, <4>1 DEF gitVars, remoteVars, copyVars, pubVars, ReasonInv, ByPeopleOnly
      <4>2. CASE GitStep
        BY <1>2, <4>2, ReasonPublish, ReasonPeople DEF GitStep, WholeInv, GitInv
      <4> QED BY <3>1, <4>1, <4>2
    <3> QED BY <1>2, <2>1, <3>2, JamStep DEF WholeInv
  <2>2. CASE UNCHANGED deliveryVars
    BY <1>2, <2>2 DEF deliveryVars, gitVars, remoteVars, copyVars, pubVars, ReasonInv, ByPeopleOnly, JamInv
  <2> QED BY <1>2, <2>1, <2>2
<1>3. WholeInv => GitTypeOK
  BY DEF WholeInv, GitInv
<1> QED BY <1>1, <1>2, <1>3, ReasonInit, WholeIsInvariant, PTL DEF DeliverySpec

-----------------------------------------------------------------------------
(* The safety half of EveryRunDelivers: no run goes on for ever.           *)

Less   == OpToRel(<, Nat)
Pair   == Nat \X Nat
Nearer == LexPairOrdering(Less, Less, Nat, Nat)

StageLeft(s) ==
  CASE s = "idle" -> 4 [] s = "clone" -> 3 [] s = "publish" -> 2 [] s = "upload" -> 1 [] OTHER -> 0

\* The commands for one candidate, and six for each that may follow it.
CommandsLeft(a) ==
  CASE a = "want" -> 5 [] a = "clone" -> 4 [] a = "again" -> 3 [] a = "fetch" -> 2 [] OTHER -> 1
CloneLeft(r) ==
  IF at[r] \in InGit \cup {"want"} THEN 6 * (Len(plan[r]) - nth[r]) + CommandsLeft(at[r]) ELSE 0

\* The statements of Publish, for the run that holds the mutex.
StatementsLeft(s) ==
  CASE s = "write" -> 6 [] s = "commit" -> 5 [] s = "push" -> 4 [] s = "find" -> 3 [] OTHER -> 2
PublishLeft(r) == IF holder = r THEN StatementsLeft(step) ELSE 7

\* How far a run is from its end.
Left(r) ==
  <<StageLeft(stage[r]),
    CASE stage[r] = "clone"   -> CloneLeft(r)
      [] stage[r] = "publish" -> PublishLeft(r)
      [] OTHER                -> 0>>

\* Own steps bring a run nearer to its end, unless they break it off, and those
\* of other runs and of people leave it where it is, unless the process dies or
\* the findings of a run that is done change.
RunsAdvance ==
  \A r \in Run :
    \/ stage'[r] = "idle"
    \/ <<Left(r)', Left(r)>> \in Nearer
    \/ Left(r)' = Left(r) /\ ~RunStep(r)

LEMMA NearerIsWellFounded == IsWellFoundedOn(Nearer, Pair)
<1>1. IsWellFoundedOn(Less, Nat)
  BY NatLessThanWellFounded DEF Less
<1> QED BY <1>1, WFLexPairOrdering DEF Nearer, Pair

LEMMA NearerThan ==
  ASSUME NEW a \in Nat, NEW b \in Nat, NEW c \in Nat, NEW d \in Nat,
         c < a \/ (c = a /\ d < b)
  PROVE  <<<<c, d>>, <<a, b>>>> \in Nearer
<1>1. ASSUME NEW m \in Nat, NEW n \in Nat, m < n PROVE <<m, n>> \in Less
  <2>1. <<m, n>> \in Nat \X Nat /\ <<m, n>>[1] < <<m, n>>[2]
    BY <1>1
  <2> QED BY <2>1, Zenon DEF Less, OpToRel
<1> QED BY <1>1 DEF Nearer, LexPairOrdering

LEMMA CloneLeftType ==
  ASSUME CacheInv, NEW r \in Run
  PROVE  CloneLeft(r) \in Nat
<1>1. at[r] \in InGit \cup {"want"} => Len(plan[r]) - nth[r] \in Nat
  BY Places DEF CacheInv, RunInv, Busy
<1>2. CommandsLeft(at[r]) \in 1 .. 5
  BY DEF CommandsLeft
<1> QED BY <1>1, <1>2 DEF CloneLeft

\* A command of git, whether it succeeds or not, is one command less.
LEMMA CloneLowers ==
  ASSUME CacheInv, CacheInv', NEW r \in Run, CloneStep(r) \/ CloneTrouble(r)
  PROVE  CloneLeft(r)' < CloneLeft(r)
<1>0. /\ CacheTypeOK /\ plan[r] \in Seq(Location) /\ nth[r] \in Nat /\ Len(plan[r]) \in Nat
      /\ at \in [Run -> At] /\ nth \in [Run -> Nat]
      /\ at[r] \in InGit \cup {"want"} => nth[r] <= Len(plan[r])
  BY Places DEF CacheInv, RunInv, CacheTypeOK, Busy
<1>1. plan' = plan /\ at[r] \in InGit \cup {"want"}
  BY DEF CloneStep, CloneTrouble, Enter, Cloned, Fetched, CheckedOut, OtherBranch, CloneFails, NotFetched,
     NotCheckedOut, InGit
<1>2. CommandsLeft(at[r]) \in 1 .. 5 /\ CloneLeft(r) = 6 * (Len(plan[r]) - nth[r]) + CommandsLeft(at[r])
  BY <1>1 DEF CommandsLeft, CloneLeft
<1>3. CASE at'[r] \in {"have", "without"}
  <2>1. CloneLeft(r)' = 0
    BY <1>3 DEF CloneLeft, InGit
  <2> QED BY <1>0, <1>1, <1>2, <2>1
<1>4. CASE /\ nth' = nth
           /\ \/ at[r] = "want" /\ at'[r] = "clone"
              \/ at[r] = "clone" /\ at'[r] \in {"again", "fetch"}
              \/ at[r] = "fetch" /\ at'[r] = "checkout"
  <2>1. CommandsLeft(at'[r]) < CommandsLeft(at[r]) /\ CommandsLeft(at'[r]) \in Nat
    BY <1>4 DEF CommandsLeft
  <2>2. CloneLeft(r)' = 6 * (Len(plan[r]) - nth[r]) + CommandsLeft(at'[r])
    BY <1>1, <1>4 DEF CloneLeft, InGit, CommandsLeft
  <2> QED BY <1>0, <1>1, <1>2, <2>1, <2>2
<1>5. CASE /\ at[r] \in {"clone", "again"} /\ at'[r] = "want"
           /\ nth'[r] = nth[r] + 1 /\ nth[r] < Len(plan[r])
  <2>1. CommandsLeft(at[r]) >= 3 /\ CommandsLeft(at'[r]) = 5
    BY <1>5 DEF CommandsLeft
  <2>2. CloneLeft(r)' = 6 * (Len(plan[r]) - nth'[r]) + CommandsLeft(at'[r])
    BY <1>1, <1>5 DEF CloneLeft, CommandsLeft
  <2> QED BY <1>0, <1>1, <1>2, <1>5, <2>1, <2>2
<1>6. CASE CloneStep(r)
  <2>1. CASE Enter(r)
    BY <1>0, <1>3, <1>4, <2>1 DEF Enter, HandOut, Goes
  <2>2. CASE Cloned(r)
    BY <1>0, <1>3, <1>4, <2>2 DEF Cloned, HandOut, Goes
  <2>3. CASE Fetched(r)
    BY <1>0, <1>4, <2>3 DEF Fetched, Goes
  <2>4. CASE CheckedOut(r)
    BY <1>0, <1>3, <2>4 DEF CheckedOut, HandOut, Goes
  <2> QED BY <1>6, <2>1, <2>2, <2>3, <2>4 DEF CloneStep
<1>7. CASE CloneTrouble(r)
  <2>1. CASE OtherBranch(r)
    BY <1>0, <1>4, <2>1 DEF OtherBranch, Goes
  <2>2. CASE CloneFails(r)
    BY <1>0, <1>3, <1>5, <2>2 DEF CloneFails, NextCandidate, Goes
  <2>3. CASE NotFetched(r) \/ NotCheckedOut(r)
    BY <1>0, <1>3, <2>3 DEF NotFetched, NotCheckedOut, HandOut, Goes
  <2> QED BY <1>7, <2>1, <2>2, <2>3 DEF CloneTrouble
<1> QED BY <1>6, <1>7

LeftInv ==
  \A r \in Run :
    /\ StageLeft(stage[r]) \in 0 .. 4
    /\ stage[r] = "clone" => Left(r) = <<3, CloneLeft(r)>> /\ CloneLeft(r) \in Nat
    /\ stage[r] = "publish" => Left(r) = <<2, PublishLeft(r)>> /\ PublishLeft(r) \in 2 .. 7
    /\ stage[r] \notin {"clone", "publish"} => Left(r) = <<StageLeft(stage[r]), 0>>

LEMMA LeftType == WholeInv => LeftInv
<1> SUFFICES ASSUME WholeInv, NEW r \in Run
             PROVE  /\ StageLeft(stage[r]) \in 0 .. 4
                    /\ stage[r] = "clone" => Left(r) = <<3, CloneLeft(r)>> /\ CloneLeft(r) \in Nat
                    /\ stage[r] = "publish" => Left(r) = <<2, PublishLeft(r)>> /\ PublishLeft(r) \in 2 .. 7
                    /\ stage[r] \notin {"clone", "publish"} => Left(r) = <<StageLeft(stage[r]), 0>>
  BY DEF LeftInv
<1>1. CloneLeft(r) \in Nat
  BY CloneLeftType DEF WholeInv
<1>2. PublishLeft(r) \in 2 .. 7
  BY DEF PublishLeft, StatementsLeft
<1>3. StageLeft(stage[r]) \in 0 .. 4 /\ StageLeft("clone") = 3 /\ StageLeft("publish") = 2
  BY DEF StageLeft
<1>4. CASE stage[r] = "clone"
  BY <1>1, <1>3, <1>4 DEF Left
<1>5. CASE stage[r] = "publish"
  BY <1>2, <1>3, <1>5 DEF Left
<1>6. CASE stage[r] \notin {"clone", "publish"}
  BY <1>3, <1>6 DEF Left
<1> QED BY <1>3, <1>4, <1>5, <1>6

\* Into a stage that is nearer to the end.
LEMMA NextStage ==
  ASSUME LeftInv, LeftInv', NEW r \in Run, StageLeft(stage'[r]) < StageLeft(stage[r])
  PROVE  <<Left(r)', Left(r)>> \in Nearer
<1>1. PICK b \in Nat : Left(r) = <<StageLeft(stage[r]), b>> /\ StageLeft(stage[r]) \in Nat
  <2>1. CASE stage[r] = "clone"
    BY <2>1 DEF LeftInv, StageLeft
  <2>2. CASE stage[r] = "publish"
    BY <2>2 DEF LeftInv, StageLeft
  <2>3. CASE stage[r] \notin {"clone", "publish"}
    BY <2>3 DEF LeftInv
  <2> QED BY <2>1, <2>2, <2>3
<1>2. PICK d \in Nat : Left(r)' = <<StageLeft(stage'[r]), d>> /\ StageLeft(stage'[r]) \in Nat
  <2>1. CASE stage'[r] = "clone"
    BY <2>1 DEF LeftInv, StageLeft
  <2>2. CASE stage'[r] = "publish"
    BY <2>2 DEF LeftInv, StageLeft
  <2>3. CASE stage'[r] \notin {"clone", "publish"}
    BY <2>3 DEF LeftInv
  <2> QED BY <2>1, <2>2, <2>3
<1> QED BY <1>1, <1>2, NearerThan

\* A step of Publish is one statement less for the run that holds the mutex,
\* and leaves those that wait where they are.
LEMMA PublishLowers ==
  ASSUME GitTypeOK, NEW r \in Run, Publishing(r)
  PROVE  /\ PublishLeft(r)' < PublishLeft(r)
         /\ \A s \in Run \ {r} : PublishLeft(s)' = PublishLeft(s)
<1>0. (step = "free" <=> holder = Nobody) /\ r # Nobody /\ Nobody \notin Run
  BY AtHand, RunAssumption
<1>1. CASE Sync(r)
  <2>1. holder = Nobody /\ holder' = r /\ step' = "write"
    BY <1>1 DEF Sync, Begins
  <2> QED BY <1>0, <2>1 DEF PublishLeft, StatementsLeft
<1>2. CASE holder = r /\ (Write \/ CommitStaged \/ Push \/ Find)
  <2>1. /\ holder = r /\ holder' = r
        /\ \/ step = "write" /\ step' = "commit"
           \/ step = "commit" /\ step' = "push"
           \/ step = "push" /\ step' = "find"
           \/ step = "find" /\ step' \in {"edit", "open"}
    BY <1>2 DEF Write, CommitStaged, Push, Find
  <2> QED BY <2>1 DEF PublishLeft, StatementsLeft
<1> QED BY <1>1, <1>2 DEF Publishing

\* Where a run stands is its own affair.
LEMMA OthersStay ==
  ASSUME WholeInv, LeftInv, LeftInv', NEW r \in Run, RunStep(r) \/ Again(r), NEW s \in Run \ {r}
  PROVE  Left(s)' = Left(s) /\ stage'[s] = stage[s]
<1>0. /\ CacheInv /\ GitTypeOK /\ StageInv /\ stage \in [Run -> Stages] /\ nth \in [Run -> Nat \ {0}]
      /\ Nobody \notin Run /\ at \in [Run -> At]
  BY AtHand, RunAssumption DEF WholeInv, GitInv, CacheInv, CacheTypeOK, StageInv
<1>1. stage'[s] = stage[s]
  BY <1>0 DEF RunStep, Again, Start, GetCode, Built, Publishing, PublishEnds, PublishRefused, PublishBreaks,
     Upload, UploadFails, Fails, Reaches
<1>2. at'[s] = at[s] /\ nth'[s] = nth[s] /\ plan' = plan
  <2>1. CASE CacheStep(r)
    <3>1. nth'[s] = nth[s] /\ plan' = plan
      BY <1>0, <2>1 DEF CacheStep, Materialize, CloneStep, Enter, Cloned, Fetched, CheckedOut,
         CloneTrouble, OtherBranch, CloneFails, NotFetched, NotCheckedOut, NextCandidate, Release
    <3> QED BY <1>0, <2>1, <3>1, CacheKeepsOthers
  <2>2. CASE Release(r) \/ UNCHANGED cacheVars
    BY <1>0, <2>2 DEF Release, cacheVars
  <2>3. CacheStep(r) \/ Release(r) \/ UNCHANGED cacheVars
    BY DEF RunStep, Again, Start, GetCode, Built, Publishing, PublishEnds, PublishRefused, PublishBreaks,
       Upload, UploadFails, Fails, CacheStep
  <2> QED BY <2>1, <2>2, <2>3
<1>3. CloneLeft(s)' = CloneLeft(s)
  BY <1>2 DEF CloneLeft
<1>4. PublishLeft(s)' = PublishLeft(s)
  <2>1. CASE Publishing(r)
    BY <1>0, <2>1, PublishLowers
  <2>2. CASE ~Publishing(r)
    <3>1. (holder' = holder /\ step' = step) \/ (holder = r /\ holder' = Nobody)
      BY <2>2 DEF RunStep, Again, Start, GetCode, Built, PublishEnds, PublishRefused, PublishBreaks,
         Upload, UploadFails, PushLast, Edit, Open, SyncRefused, PushRefused, OpenRefused, SyncFails,
         PublishFails, Free, gitVars, pubVars
    <3> QED BY <1>0, <3>1 DEF PublishLeft
  <2> QED BY <2>1, <2>2
<1>5. CASE stage[s] = "clone"
  BY <1>1, <1>3, <1>5 DEF LeftInv
<1>6. CASE stage[s] = "publish"
  BY <1>1, <1>4, <1>6 DEF LeftInv
<1>7. CASE stage[s] \notin {"clone", "publish"}
  BY <1>1, <1>7 DEF LeftInv
<1> QED BY <1>1, <1>5, <1>6, <1>7

LEMMA OwnStep ==
  ASSUME WholeInv, WholeInv', LeftInv, LeftInv', NEW r \in Run, RunStep(r), stage'[r] # "idle"
  PROVE  <<Left(r)', Left(r)>> \in Nearer
<1>0. /\ CacheInv /\ CacheInv' /\ GitTypeOK /\ stage \in [Run -> Stages]
  BY DEF WholeInv, GitInv, StageInv
<1>1. CASE Start(r) \/ Built(r) \/ PublishEnds(r) \/ Upload(r)
  <2>1. \/ stage[r] = "idle" /\ stage'[r] = "clone"
        \/ stage[r] = "clone" /\ stage'[r] = "publish"
        \/ stage[r] = "publish" /\ stage'[r] = "upload"
        \/ stage[r] = "upload" /\ stage'[r] = "done"
    BY <1>0, <1>1 DEF Start, Built, PublishEnds, Upload, Reaches
  <2>2. StageLeft(stage'[r]) < StageLeft(stage[r])
    BY <2>1 DEF StageLeft
  <2> QED BY <2>2, NextStage
<1>2. CASE GetCode(r)
  <2>1. stage[r] = "clone" /\ stage'[r] = "clone" /\ CloneLeft(r)' < CloneLeft(r)
    BY <1>0, <1>2, CloneLowers DEF GetCode
  <2>2. /\ Left(r) = <<3, CloneLeft(r)>> /\ Left(r)' = <<3, CloneLeft(r)'>>
        /\ CloneLeft(r) \in Nat /\ CloneLeft(r)' \in Nat
    BY <2>1 DEF LeftInv
  <2> QED BY <2>1, <2>2, NearerThan
<1>3. CASE Publishing(r)
  <2>1. stage[r] = "publish" /\ stage'[r] = "publish" /\ PublishLeft(r)' < PublishLeft(r)
    BY <1>0, <1>3, PublishLowers DEF Publishing
  <2>2. /\ Left(r) = <<2, PublishLeft(r)>> /\ Left(r)' = <<2, PublishLeft(r)'>>
        /\ PublishLeft(r) \in Nat /\ PublishLeft(r)' \in Nat
    BY <2>1 DEF LeftInv
  <2> QED BY <2>1, <2>2, NearerThan
<1>4. CASE PublishRefused(r) \/ PublishBreaks(r) \/ UploadFails(r)
  BY <1>0, <1>4 DEF PublishRefused, PublishBreaks, UploadFails, Fails, Reaches
<1> QED BY <1>1, <1>2, <1>3, <1>4 DEF RunStep

LEMMA RunsAdvancing ==
  ASSUME WholeInv, WholeInv', LeftInv, LeftInv', DeliveryNext
  PROVE  RunsAdvance
<1> SUFFICES ASSUME NEW r \in Run, stage'[r] # "idle"
             PROVE  <<Left(r)', Left(r)>> \in Nearer \/ (Left(r)' = Left(r) /\ ~RunStep(r))
  BY DEF RunsAdvance
<1>1. CASE RunStep(r)
  BY <1>1, OwnStep
<1>2. ASSUME NEW s \in Run, RunStep(s) \/ Again(s), ~RunStep(r)
      PROVE  Left(r)' = Left(r)
  <2>1. CASE s = r
    <3>1. Again(r)
      BY <1>2, <2>1
    <3>2. stage'[r] = "idle"
      BY <3>1 DEF Again, Reaches, WholeInv, StageInv
    <3> QED BY <3>2
  <2>2. CASE s # r
    BY <1>2, <2>2, OthersStay
  <2> QED BY <2>1, <2>2
<1>3. CASE People
  <2>1. UNCHANGED <<plan, at, nth, stage, holder, step>>
    BY <1>3 DEF People, PeopleStep, Merge, Close, Amend, Change, pubVars, cacheVars
  <2>2. CloneLeft(r)' = CloneLeft(r) /\ PublishLeft(r)' = PublishLeft(r)
    BY <2>1 DEF CloneLeft, PublishLeft
  <2>3. Left(r)' = Left(r)
    BY <2>1, <2>2 DEF Left
  <2> QED BY <1>1, <2>3
<1>4. CASE Crash
  <2>1. stage[r] = "done" /\ stage'[r] = "done"
    BY <1>4 DEF Crash
  <2>2. Left(r)' = Left(r)
    BY <2>1 DEF LeftInv
  <2> QED BY <1>1, <2>2
<1> QED BY <1>1, <1>2, <1>3, <1>4 DEF DeliveryNext

\* However many candidates, retries and statements there are, a run takes
\* finitely many steps to its end or to the error that ends it, whatever other
\* runs do between them: its place descends in an order that has no infinite
\* descent, and nothing but a failure, a refusal or the death of the process
\* takes it back (pipeline.go:367-383, repo.go:222-265, gitops.go:84-155).
THEOREM RunsComeToAnEnd ==
  IsWellFoundedOn(Nearer, Pair) /\ (DeliverySpec => [][RunsAdvance]_deliveryVars)
<1>1. WholeInv /\ WholeInv' /\ LeftInv /\ LeftInv' /\ [DeliveryNext]_deliveryVars
        => [RunsAdvance]_deliveryVars
  BY RunsAdvancing
<1>2. WholeInv => LeftInv
  BY LeftType
<1>3. DeliverySpec => [][RunsAdvance]_deliveryVars
  BY <1>1, <1>2, WholeIsInvariant, PTL DEF DeliverySpec
<1> QED BY <1>3, NearerIsWellFounded

\* Waiting for the lock of a checkout, or for the publisher.
WaitsForCheckout(r)  == stage[r] = "clone" /\ at[r] = "want" /\ Locked(Here(r))
WaitsForPublisher(r) == stage[r] = "publish" /\ holder \notin {r, Nobody}
Waits(r) == WaitsForCheckout(r) \/ WaitsForPublisher(r)

\* Whoever waits, waits for a run that has what it wants and waits for nothing.
WaitedForMoves ==
  \A r \in Run :
    /\ WaitsForCheckout(r) =>
         \E s \in Run \ {r} : at[s] \in InGit /\ Here(s) = Here(r) /\ ~Waits(s)
    /\ WaitsForPublisher(r) =>
         holder \in Run \ {r} /\ step # "free" /\ ~Waits(holder)

\* No run holds a checkout or the publisher while it waits, so the locks and
\* the mutex cannot bring runs to a standstill, in whatever order they come
\* (repo.go:222-265, gitops.go:92-93).
THEOREM NobodyHoldsAndWaits == DeliverySpec => []WaitedForMoves
<1>1. ASSUME WholeInv PROVE WaitedForMoves
  <2>0. /\ (step = "free" <=> holder = Nobody) /\ holder \in Run \cup {Nobody} /\ StageInv
        /\ \A s \in Run : stage[s] = "publish" => at[s] \in {"have", "without"}
    BY <1>1, AtHand, RunAssumption DEF WholeInv, GitInv, StageInv, Materialized
  <2>1. ASSUME NEW r \in Run, WaitsForCheckout(r)
        PROVE  \E s \in Run \ {r} : at[s] \in InGit /\ Here(s) = Here(r) /\ ~Waits(s)
    <3>1. PICK s \in Run : at[s] \in InGit /\ Here(s) = Here(r)
      BY <2>1 DEF WaitsForCheckout, Locked
    <3>2. s # r /\ at[s] # "want"
      BY <2>1, <3>1 DEF WaitsForCheckout, InGit
    <3>3. stage[s] # "publish"
      BY <2>0, <3>1 DEF InGit
    <3> QED BY <3>1, <3>2, <3>3 DEF Waits, WaitsForCheckout, WaitsForPublisher
  <2>2. ASSUME NEW r \in Run, WaitsForPublisher(r)
        PROVE  holder \in Run \ {r} /\ step # "free" /\ ~Waits(holder)
    <3>1. holder \in Run \ {r} /\ step # "free" /\ stage[holder] = "publish"
      BY <2>0, <2>2 DEF WaitsForPublisher, StageInv
    <3> QED BY <3>1 DEF Waits, WaitsForCheckout, WaitsForPublisher
  <2> QED BY <2>1, <2>2 DEF WaitedForMoves
<1> QED BY <1>1, WholeIsInvariant, PTL

-----------------------------------------------------------------------------
(* Delivery implements Review.                                             *)

\* The document in hand is the last of its product, and what is pushed is one
\* commit with nothing but it.
ShapeInv ==
  /\ holder # Nobody => doc = [file |-> FileOf[holder], by |-> holder, no |-> built[holder]]
  /\ step \in {"write", "commit"} => head.commits = << >>
  /\ step = "push" => head.commits = <<{doc}>>

LEMMA ShapeStep ==
  ASSUME GitInv, ShapeInv, GitStep \/ UNCHANGED gitVars
  PROVE  ShapeInv'
<1>0. /\ (step = "free" <=> holder = Nobody) /\ head \in Line /\ built \in [Product -> Nat]
      /\ HandInv
  BY DEF GitInv, GitTypeOK, RejectInv
<1>1. CASE \E p \in Product : Sync(p)
  <2>1. PICK p \in Product : Sync(p)
    BY <1>1
  <2>2. /\ holder' = p /\ doc' = [file |-> FileOf[p], by |-> p, no |-> built'[p]]
        /\ step' = "write" /\ head'.commits = << >>
    BY <2>1 DEF Sync, Begins, AtBase
  <2> QED BY <2>2 DEF ShapeInv
<1>2. CASE Write
  BY <1>2 DEF Write, ShapeInv
<1>3. CASE CommitStaged
  <2>1. staged = {doc} /\ head.commits = << >> /\ holder # Nobody
    BY <1>0, <1>3 DEF CommitStaged, ShapeInv, HandInv
  <2>2. head'.commits = Append(<< >>, {doc}) /\ UNCHANGED <<holder, doc, built>> /\ step' = "push"
    BY <1>0, <1>3, <2>1 DEF CommitStaged, Line
  <2>3. Append(<< >>, {doc}) = <<{doc}>>
    OBVIOUS
  <2> QED BY <2>2, <2>3 DEF ShapeInv
<1>4. CASE Push \/ Find
  BY <1>4 DEF Push, Find, copyVars, ShapeInv
<1>5. CASE PushLast \/ PushRefused \/ Edit \/ Open \/ OpenRefused \/ PublishFails
  <2>1. holder' = Nobody /\ step' = "free"
    BY <1>5 DEF PushLast, PushRefused, Edit, Open, OpenRefused, PublishFails, Free
  <2> QED BY <2>1 DEF ShapeInv
<1>6. CASE SyncFails \/ PeopleStep \/ UNCHANGED gitVars
  <2>1. UNCHANGED <<holder, step, doc, built, head>>
    BY <1>6 DEF SyncFails, PeopleStep, Merge, Close, Amend, Change, copyVars, pubVars, gitVars
  <2> QED BY <2>1 DEF ShapeInv
<1> QED BY <1>1, <1>2, <1>3, <1>4, <1>5, <1>6 DEF GitStep

LineOf(rv) == [b \in Branch |-> IF rv[b] = NoBranch THEN << >> ELSE rv[b].commits]

\* The two modules speak of the same things.
LEMMA Names ==
  /\ Looked!Branch = Branch /\ Looked!File = File /\ Looked!Doc = Doc
  /\ \A s : Looked!Docs(s) = Docs(s)
  /\ \A p : Looked!Latest(p) = [file |-> FileOf[p], by |-> p, no |-> built[p]]
  /\ \A f : Looked!ByPeople(f) = ByPeople(f)
<1>1. Looked!Branch = Branch /\ Looked!File = File
  BY DEF Looked!Branch, Branch, Looked!File, File
<1>2. Looked!Doc = Doc
  BY <1>1 DEF Looked!Doc, Doc
<1>3. \A s : Looked!Docs(s) = Docs(s)
  BY DEF Looked!Docs, Docs
<1>4. \A p : Looked!Latest(p) = [file |-> FileOf[p], by |-> p, no |-> built[p]]
  BY DEF Looked!Latest
<1>5. \A f : Looked!ByPeople(f) = ByPeople(f)
  BY DEF Looked!ByPeople, ByPeople
<1> QED BY <1>1, <1>2, <1>3, <1>4, <1>5

LEMMA SameBranch ==
  ASSUME NEW b \in Branch
  PROVE  Looked!OnBranch(b) = OnBranch(b) /\ (Looked!OnBranch(b))' = (OnBranch(b))'
<1>1. Docs(<< >>) = {}
  BY DEF Docs
<1>2. Looked!OnBranch(b) = OnBranch(b)
  BY <1>1, Names DEF Looked!OnBranch, OnBranch
<1>3. (Looked!OnBranch(b))' = (OnBranch(b))'
  BY <1>1, Names DEF Looked!OnBranch, OnBranch
<1> QED BY <1>2, <1>3

LEMMA SameStand ==
  ASSUME NEW CONSTANT p \in Product, NEW CONSTANT d
  PROVE  Stands(p, d)' => Looked!Stands(p, d)'
<1>1. PICK b \in Branch : b = BranchOf[p]
  BY DEF Branch
<1>2. (Looked!OnBranch(b))' = (OnBranch(b))' /\ \A s : Looked!Docs(s) = Docs(s)
  BY SameBranch, Names
<1> QED BY <1>1, <1>2, RunAssumption DEF Stands, Shared, Looked!Stands

LEMMA PushPublishes ==
  ASSUME WholeInv, ShapeInv, step = "push", Pushed, NEW CONSTANT p \in Product, p = holder
  PROVE  Looked!Publish(p)
<1> DEFINE d == [file |-> FileOf[p], by |-> p, no |-> built[p]]
<1>0. /\ GitTypeOK /\ HandInv /\ StageInv /\ holder # Nobody /\ doc = d /\ d \in Doc
      /\ head.commits = <<{d}>> /\ head # NoBranch /\ base \in Seq(Commit)
      /\ review \in [Branch -> Line \cup {NoBranch}]
  BY GitAssumption DEF WholeInv, GitInv, RejectInv, ShapeInv, GitTypeOK
<1>1. Looked!Latest(p) = d
  BY Names
<1> HIDE DEF d
<1>2. out[p] = NoDoc
  BY <1>0, RunAssumption DEF StageInv
<1>3. d \notin Looked!Around
  <2>1. d \notin Docs(base) /\ d \notin rejected /\ \A b \in Branch : d \notin OnBranch(b)
    BY <1>0 DEF HandInv
  <2> QED BY <2>1, Names, SameBranch DEF Looked!Around
<1>4. CASE mode = "direct"
  <2>1. base' = base \o <<{d}>> /\ UNCHANGED <<review, pr, handled>>
    BY <1>0, <1>4 DEF Pushed
  <2>2. base' = Append(base, {d})
    <3>1. {d} \in Commit
      BY <1>0 DEF Commit
    <3> QED BY <1>0, <2>1, <3>1, Appended
  <2> QED BY <1>1, <1>2, <1>3, <1>4, <2>1, <2>2 DEF Looked!Publish
<1>5. CASE mode # "direct"
  <2>1. PICK b \in Branch : b = BranchOf[p]
    BY DEF Branch
  <2>2. /\ review' = [review EXCEPT ![b] = head] /\ handled' = handled \ {b}
        /\ UNCHANGED <<base, pr>>
    BY <1>5, <2>1 DEF Pushed
  <2>3. LineOf(review') = [LineOf(review) EXCEPT ![b] = <<{d}>>]
    BY <1>0, <2>2 DEF LineOf
  <2> QED BY <1>1, <1>2, <1>3, <1>5, <2>1, <2>2, <2>3 DEF Looked!Publish, LineOf
<1> QED BY <1>4, <1>5

LEMMA OpenProposes ==
  ASSUME WholeInv, LookInv, step = "open", Opened, NEW CONSTANT b \in Branch, b = BranchOf[holder]
  PROVE  Looked!Propose(b)
<1>0. HandInv /\ holder # Nobody /\ step \in Looks
  BY DEF WholeInv, GitInv, GitTypeOK, RejectInv, Looks
<1>1. mode = "pr" /\ OnBranch(b) \cap (rejected \cup Docs(base)) = {}
  BY <1>0 DEF HandInv, LookInv
<1>2. pr' = [pr EXCEPT ![b] = "open"] /\ UNCHANGED <<base, review, handled>>
  BY DEF Opened
<1> QED BY <1>1, <1>2, Names, SameBranch DEF Looked!Propose

\* What a publish does to the repository, whichever way it ends.
LEMMA PublishBot ==
  ASSUME WholeInv, ShapeInv, LookInv,
         \/ UNCHANGED remoteVars
         \/ step = "push" /\ Pushed
         \/ step = "open" /\ Opened
  PROVE  /\ \/ UNCHANGED Looked!repoVars
            \/ \E p \in Product : Looked!Publish(p)
            \/ \E b \in Branch : Looked!Propose(b)
         /\ UNCHANGED <<rejected, people>>
<1>0. holder # Nobody => holder \in Product /\ BranchOf[holder] \in Branch
  BY DEF WholeInv, GitInv, GitTypeOK, Branch
<1>1. CASE UNCHANGED remoteVars
  BY <1>1 DEF remoteVars, Looked!repoVars
<1>2. CASE step = "push" /\ Pushed
  <2>1. PICK p \in Product : p = holder
    BY <1>0, <1>2 DEF WholeInv, GitInv, GitTypeOK
  <2> QED BY <1>2, <2>1, PushPublishes DEF Pushed
<1>3. CASE step = "open" /\ Opened
  <2>1. PICK b \in Branch : b = BranchOf[holder]
    BY <1>0, <1>3 DEF WholeInv, GitInv, GitTypeOK
  <2> QED BY <1>3, <2>1, OpenProposes DEF Opened
<1> QED BY <1>1, <1>2, <1>3

LEMMA BotStep ==
  ASSUME WholeInv, ShapeInv, LookInv, mode' = mode, built' = built,
         \/ UNCHANGED remoteVars
         \/ step = "push" /\ Pushed
         \/ step = "open" /\ Opened,
         out' \in [Run -> Doc \cup {NoDoc}],
         \A r \in Run : \/ out'[r] \in {out[r], NoDoc}
                        \/ r = holder /\ out'[r] = doc /\ Stands(r, out[r])'
  PROVE  Looked!Bot
<1>1. /\ \/ UNCHANGED Looked!repoVars
         \/ \E p \in Product : Looked!Publish(p)
         \/ \E b \in Branch : Looked!Propose(b)
      /\ UNCHANGED <<rejected, people>>
  BY PublishBot
<1>2. ASSUME NEW p \in Product, out'[p] \notin {out[p], NoDoc}
      PROVE  out'[p] = Looked!Latest(p) /\ Looked!Stands(p, Looked!Latest(p))'
  <2>1. p = holder /\ out'[p] = doc /\ Stands(p, out[p])' /\ holder # Nobody
    BY <1>2, RunAssumption, GitAssumption
  <2>2. PICK d : d = doc
    OBVIOUS
  <2>3. Looked!Latest(p) = d /\ (Looked!Latest(p))' = d
    BY <2>1, <2>2, Names DEF ShapeInv, Looked!Latest
  <2>4. Stands(p, d)'
    BY <2>1, <2>2 DEF Stands
  <2>5. Looked!Stands(p, d)'
    BY <2>4, SameStand
  <2>6. Looked!Stands(p, Looked!Latest(p))'
    BY <2>3, <2>5 DEF Looked!Stands
  <2> QED BY <2>1, <2>2, <2>3, <2>6
<1>3. Looked!Report
  BY <1>2, RunAssumption, Names DEF Looked!Report
<1> QED BY <1>1, <1>3, Names DEF Looked!Bot

\* Nothing that can be seen from outside.
LEMMA Unseen ==
  ASSUME UNCHANGED <<mode, base, review, pr, handled, rejected, people, built, out>>
  PROVE  UNCHANGED Looked!reviewVars
BY DEF Looked!reviewVars, Looked!repoVars

LEMMA SyncDrafts ==
  ASSUME WholeInv, NEW CONSTANT p \in Product, Sync(p), stage[p] = "publish", out' = out
  PROVE  Looked!Draft(p)
<1>1. out[p] = NoDoc
  BY RunAssumption DEF WholeInv, StageInv
<1>2. /\ built' = [built EXCEPT ![p] = @ + 1]
      /\ UNCHANGED <<mode, base, review, pr, people, handled, rejected>>
  BY DEF Sync, Begins, remoteVars
<1> QED BY <1>1, <1>2 DEF Looked!Draft, Looked!repoVars

LEMMA PeopleAct ==
  ASSUME WholeInv, PeopleStep, out' = out
  PROVE  Looked!People
<1>0. /\ review \in [Branch -> Line \cup {NoBranch}]
      /\ people' = people + 1 /\ UNCHANGED <<mode, built>>
      /\ GitTypeOK
  BY DEF WholeInv, GitInv, GitTypeOK, PeopleStep, Merge, Close, Amend, Change, Acts, pubVars
<1>1. ASSUME NEW b \in Branch, Merge(b) PROVE Looked!Merge(b)
  <2>1. /\ pr[b] = "open" /\ review[b] # NoBranch /\ base' = base \o review[b].commits
        /\ pr' = [pr EXCEPT ![b] = "closed"] /\ review' = [review EXCEPT ![b] = NoBranch]
        /\ handled' = handled \cup {b} /\ rejected' = rejected
    BY <1>1 DEF Merge, UnderReview
  <2>2. LineOf(review') = [LineOf(review) EXCEPT ![b] = << >>] /\ LineOf(review)[b] = review[b].commits
    BY <1>0, <2>1 DEF LineOf
  <2> QED BY <2>1, <2>2 DEF Looked!Merge, LineOf
<1>2. ASSUME NEW b \in Branch, Close(b) PROVE Looked!Close(b)
  <2>1. /\ pr[b] = "open" /\ pr' = [pr EXCEPT ![b] = "closed"]
        /\ rejected' \in {rejected, rejected \cup OnBranch(b)}
        /\ handled' = handled \cup {b} /\ base' = base
    BY <1>2 DEF Close, UnderReview
  <2>2. PICK kept \in {review[b], NoBranch} : review' = [review EXCEPT ![b] = kept]
    BY <1>2 DEF Close
  <2>3. \E rest \in {LineOf(review)[b], << >>} : LineOf(review') = [LineOf(review) EXCEPT ![b] = rest]
    <3>1. CASE kept = review[b]
      <4>1. LineOf(review') = [LineOf(review) EXCEPT ![b] = LineOf(review)[b]]
        BY <1>0, <2>2, <3>1 DEF LineOf
      <4> QED BY <4>1
    <3>2. CASE kept = NoBranch
      <4>1. LineOf(review') = [LineOf(review) EXCEPT ![b] = << >>]
        BY <1>0, <2>2, <3>2 DEF LineOf
      <4> QED BY <4>1
    <3> QED BY <3>1, <3>2
  <2> QED BY <2>1, <2>3, SameBranch DEF Looked!Close, LineOf
<1>3. ASSUME NEW b \in Branch, Amend(b) PROVE Looked!Amend(b)
  <2>1. /\ pr[b] = "open" /\ review[b] # NoBranch
        /\ handled' = handled \cup {b} /\ UNCHANGED <<base, pr, rejected>>
    BY <1>3 DEF Amend, UnderReview
  <2>2. PICK f \in Touched(b) : review' = [review EXCEPT ![b].commits = Append(@, {ByPeople(f)})]
    BY <1>3 DEF Amend
  <2>3. f \in File
    BY <1>0, NewDocs
  <2>4. /\ review[b] \in Line /\ review[b].commits \in Seq(Commit) /\ {ByPeople(f)} \in Commit
    BY <1>0, <2>1, <2>3, NewDocs
  <2>5. PICK s : s = Append(review[b].commits, {ByPeople(f)})
    OBVIOUS
  <2>6. [review[b] EXCEPT !.commits = s] \in Line /\ [review[b] EXCEPT !.commits = s].commits = s
    BY <2>4, <2>5, Appended DEF Line
  <2>7. review' = [review EXCEPT ![b] = [review[b] EXCEPT !.commits = s]]
    BY <1>0, <2>2, <2>5
  <2>8. LineOf(review') = [LineOf(review) EXCEPT ![b] = s] /\ LineOf(review)[b] = review[b].commits
    BY <1>0, <2>1, <2>6, <2>7, GitAssumption DEF LineOf
  <2>9. LineOf(review') = [LineOf(review) EXCEPT ![b] = Append(@, {Looked!ByPeople(f)})]
    BY <2>5, <2>8, Names
  <2> QED BY <2>1, <2>3, <2>9, Names DEF Looked!Amend, LineOf
<1>4. ASSUME NEW f \in File, Change(f) PROVE Looked!Change(f)
  BY <1>4, Names DEF Change, Looked!Change
<1> QED BY <1>0, <1>1, <1>2, <1>3, <1>4, Names DEF PeopleStep, Looked!People

LookedStep == Looked!ReviewNext \/ UNCHANGED Looked!reviewVars

LEMMA RunsAreLooked ==
  ASSUME WholeInv, PropInv, ShapeInv, PropInv', StageInv', NEW r \in Run, RunStep(r) \/ Again(r)
  PROVE  LookedStep
<1>0. LookInv /\ StageInv /\ out' \in [Run -> Doc \cup {NoDoc}] /\ r \in Product
  BY RunAssumption DEF PropInv, WholeInv, StageInv
<1>1. CASE Start(r) \/ GetCode(r) \/ Built(r) \/ Upload(r)
  <2>1. UNCHANGED gitVars /\ out' = out
    BY <1>1 DEF Start, GetCode, Built, Upload
  <2> QED BY <2>1, Unseen DEF gitVars, remoteVars, pubVars, LookedStep
<1>2. CASE UploadFails(r) \/ Again(r)
  <2>1. UNCHANGED gitVars /\ \A s \in Run : out'[s] \in {out[s], NoDoc}
    BY <1>0, <1>2 DEF UploadFails, Fails, Again, StageInv
  <2>2. Looked!Bot
    BY <1>0, <2>1, BotStep DEF gitVars, pubVars
  <2> QED BY <2>2 DEF LookedStep, Looked!ReviewNext
<1>3. CASE Publishing(r)
  <2>1. stage[r] = "publish" /\ out' = out
    BY <1>3 DEF Publishing
  <2>2. CASE Sync(r)
    BY <1>0, <2>1, <2>2, SyncDrafts DEF LookedStep, Looked!ReviewNext
  <2>3. CASE Write \/ CommitStaged \/ Find
    BY <2>1, <2>3, Unseen DEF Write, CommitStaged, Find, remoteVars, LookedStep
  <2>4. CASE Push
    <3>1. /\ step = "push" /\ Pushed /\ UNCHANGED <<mode, built>>
          /\ \A s \in Run : out'[s] \in {out[s], NoDoc}
      BY <2>1, <2>4 DEF Push
    <3>2. Looked!Bot
      BY <1>0, <3>1, BotStep
    <3> QED BY <3>2 DEF LookedStep, Looked!ReviewNext
  <2> QED BY <1>3, <2>2, <2>3, <2>4 DEF Publishing
<1>4. CASE PublishEnds(r)
  <2>1. /\ holder = r /\ out' = [out EXCEPT ![r] = doc] /\ stage'[r] \in {"upload", "done"}
        /\ UNCHANGED <<mode, built>>
        /\ \/ UNCHANGED remoteVars
           \/ step = "push" /\ Pushed
           \/ step = "open" /\ Opened
    BY <1>0, <1>4 DEF PublishEnds, Reaches, StageInv, PushLast, Edit, Open, Free
  <2>2. Stands(r, out[r])'
    BY <2>1 DEF PropInv
  <2>3. \A s \in Run : \/ out'[s] \in {out[s], NoDoc}
                       \/ s = holder /\ out'[s] = doc /\ Stands(s, out[s])'
    <3> SUFFICES ASSUME NEW s \in Run, out'[s] # out[s]
                 PROVE  s = holder /\ out'[s] = doc /\ Stands(s, out[s])'
      OBVIOUS
    <3>1. s = r
      BY <1>0, <2>1 DEF StageInv
    <3> QED BY <1>0, <2>1, <2>2, <3>1 DEF StageInv
  <2>4. Looked!Bot
    BY <1>0, <2>1, <2>3, BotStep
  <2> QED BY <2>4 DEF LookedStep, Looked!ReviewNext
<1>5. CASE PublishRefused(r) \/ PublishBreaks(r)
  <2>1. \A s \in Run : out'[s] \in {out[s], NoDoc}
    BY <1>0, <1>5 DEF PublishRefused, PublishBreaks, Fails, StageInv
  <2>2. /\ UNCHANGED <<mode, built>>
        /\ \/ UNCHANGED remoteVars
           \/ step = "push" /\ Pushed
           \/ step = "open" /\ Opened
    BY <1>5 DEF PublishRefused, PublishBreaks, SyncRefused, PushRefused, OpenRefused, SyncFails,
       PublishFails, Free, gitVars, pubVars
  <2>3. Looked!Bot
    BY <1>0, <2>1, <2>2, BotStep
  <2> QED BY <2>3 DEF LookedStep, Looked!ReviewNext
<1> QED BY <1>1, <1>2, <1>3, <1>4, <1>5 DEF RunStep

LEMMA StepsAreLooked ==
  ASSUME WholeInv, PropInv, ShapeInv, PropInv', StageInv', [DeliveryNext]_deliveryVars
  PROVE  LookedStep
<1>1. CASE People
  BY <1>1, PeopleAct DEF People, LookedStep, Looked!ReviewNext
<1>2. CASE Crash
  <2>1. /\ \A s \in Run : out'[s] \in {out[s], NoDoc}
        /\ out' \in [Run -> Doc \cup {NoDoc}] /\ LookInv
    BY <1>2 DEF Crash, StageInv, PropInv
  <2>2. PublishFails \/ SyncFails \/ UNCHANGED gitVars
    BY <1>2 DEF Crash
  <2>3. /\ UNCHANGED <<mode, built>>
        /\ \/ UNCHANGED remoteVars
           \/ step = "push" /\ Pushed
           \/ step = "open" /\ Opened
    BY <2>2 DEF PublishFails, SyncFails, Free, gitVars, pubVars
  <2>4. Looked!Bot
    BY <2>1, <2>3, BotStep
  <2> QED BY <2>4 DEF LookedStep, Looked!ReviewNext
<1>3. CASE UNCHANGED deliveryVars
  BY <1>3, Unseen DEF deliveryVars, gitVars, remoteVars, pubVars, LookedStep
<1> QED BY <1>1, <1>2, <1>3, RunsAreLooked DEF DeliveryNext

LEMMA InitIsLooked == DeliveryInit => Looked!ReviewInit
<1> SUFFICES ASSUME DeliveryInit PROVE Looked!ReviewInit
  OBVIOUS
<1>1. LineOf(review) = [b \in Branch |-> << >>]
  BY DEF DeliveryInit, GitInit, LineOf
<1> QED BY <1>1, RunAssumption, Names DEF DeliveryInit, GitInit, LineOf, Looked!ReviewInit

LEMMA ShapeIsInvariant == DeliverySpec => []ShapeInv
<1>1. DeliveryInit => ShapeInv
  BY DEF DeliveryInit, GitInit, ShapeInv
<1>2. GitInv /\ ShapeInv /\ [DeliveryNext]_deliveryVars => ShapeInv'
  <2>1. UNCHANGED deliveryVars => UNCHANGED gitVars
    BY DEF deliveryVars
  <2> QED BY <2>1, StepsOfGit, ShapeStep
<1> QED BY <1>1, <1>2, GitIsInvariant, PTL DEF DeliverySpec

\* Refinement: to the people who look after the repository, runs that share a
\* working copy, die and begin again are a bot that publishes one new document
\* at a time and asks for reviews of nothing that was turned down
\* (gitops.go:84-155, pipeline.go:472-507).
THEOREM DeliveryImplementsReview == DeliverySpec => ImplementsReview
<1> DEFINE Inv == WholeInv /\ PropInv /\ ShapeInv
<1>1. DeliverySpec => []Inv
  BY WholeIsInvariant, ShapeIsInvariant, PTL
<1>2. Inv /\ Inv' /\ [DeliveryNext]_deliveryVars => [Looked!ReviewNext]_Looked!reviewVars
  <2>1. WholeInv' => StageInv'
    BY DEF WholeInv
  <2> QED BY <2>1, StepsAreLooked DEF LookedStep
<1> HIDE DEF Inv
<1> QED BY <1>1, <1>2, InitIsLooked, PTL DEF DeliverySpec, ImplementsReview, Looked!ReviewSpec

-----------------------------------------------------------------------------
(* What follows from the refinement alone.                                 *)

Promised == INSTANCE ReviewProof WITH
              line   <- [b \in Branch |-> IF review[b] = NoBranch THEN << >> ELSE review[b].commits],
              drafts <- built,
              claims <- out

LEMMA WhatIsPromised == ImplementsReview => Promised!ReviewSpec
<1>1. Looked!ReviewInit => Promised!ReviewInit
  BY DEF Looked!ReviewInit, Promised!ReviewInit, Looked!Branch, Promised!Branch
<1>2. [Looked!ReviewNext]_Looked!reviewVars => [Promised!ReviewNext]_Promised!reviewVars
  BY Zenon DEF Looked!ReviewNext, Promised!ReviewNext, Looked!reviewVars, Promised!reviewVars,
     Looked!repoVars, Promised!repoVars, Looked!Bot, Promised!Bot, Looked!People, Promised!People,
     Looked!Draft, Promised!Draft, Looked!Publish, Promised!Publish, Looked!Propose, Promised!Propose,
     Looked!Report, Promised!Report, Looked!Stands, Promised!Stands, Looked!Latest, Promised!Latest,
     Looked!Around, Promised!Around, Looked!OnBranch, Promised!OnBranch, Looked!Docs, Promised!Docs,
     Looked!Branch, Promised!Branch, Looked!File, Promised!File, Looked!Doc, Promised!Doc,
     Looked!Merge, Promised!Merge, Looked!Close, Promised!Close, Looked!Amend, Promised!Amend,
     Looked!Change, Promised!Change, Looked!ByPeople, Promised!ByPeople
<1> QED BY <1>1, <1>2, PTL DEF ImplementsReview, Looked!ReviewSpec, Promised!ReviewSpec

\* Review says enough: by it alone no document is in the base twice, nothing
\* that was turned down is, the base only grows, and with the types of the
\* runs what is published stands (gitops.go:84-155, 240-277).
THEOREM ReviewSuffices ==
  ImplementsReview =>
    /\ []RejectedStaysOut
    /\ []Looked!NothingTwice
    /\ BaseKeepsHistory
    /\ []DeliveryTypeOK => []ProposalStands
<1>1. ImplementsReview => []Promised!TurnedDownStaysOut
  BY WhatIsPromised, Promised!NothingComesBack, DocumentAssumption, PTL
     DEF Mode, Promised!Mode, Doc, Promised!Doc, File, Promised!File
<1>2. ImplementsReview => []Promised!NothingTwice
  BY WhatIsPromised, Promised!NothingIsMergedTwice, DocumentAssumption, PTL
     DEF Mode, Promised!Mode, Doc, Promised!Doc, File, Promised!File
<1>3. ImplementsReview => Promised!BaseOnlyGrows
  BY WhatIsPromised, Promised!BaseNeverShrinks, DocumentAssumption, PTL
     DEF Mode, Promised!Mode, Doc, Promised!Doc, File, Promised!File
<1>4. ImplementsReview => []Promised!ReportsHold
  BY WhatIsPromised, Promised!ReportsAreTrue, DocumentAssumption, PTL
     DEF Mode, Promised!Mode, Doc, Promised!Doc, File, Promised!File
<1>5. Promised!TurnedDownStaysOut => RejectedStaysOut
  BY DEF Promised!TurnedDownStaysOut, RejectedStaysOut, Promised!Docs, Docs
<1>6. Promised!NothingTwice => Looked!NothingTwice
  BY DEF Promised!NothingTwice, Looked!NothingTwice
<1>7. Promised!ReportsHold /\ DeliveryTypeOK => ProposalStands
  <2> SUFFICES ASSUME Promised!ReportsHold, DeliveryTypeOK,
                      NEW r \in Run, stage[r] \in {"upload", "done"}
               PROVE  Stands(r, out[r])
    BY DEF ProposalStands, Stands, Shared
  <2>1. out[r] # NoDoc /\ r \in Product /\ BranchOf[r] \in Branch
    BY RunAssumption DEF DeliveryTypeOK, Branch
  <2>2. \A s : Promised!Docs(s) = Docs(s)
    BY DEF Promised!Docs, Docs
  <2>3. Promised!OnBranch(BranchOf[r]) = OnBranch(BranchOf[r])
    <3>1. Docs(<< >>) = {}
      BY DEF Docs
    <3>2. PICK b \in Branch : b = BranchOf[r]
      BY <2>1
    <3>3. Promised!OnBranch(b) = OnBranch(b)
      BY <2>2, <3>1 DEF Promised!OnBranch, OnBranch
    <3> QED BY <3>2, <3>3
  <2>4. Promised!Stands(r, out[r])
    BY <2>1 DEF Promised!ReportsHold
  <2> QED BY <2>2, <2>3, <2>4, RunAssumption DEF Promised!Stands, Stands, Shared
<1> QED BY <1>1, <1>2, <1>3, <1>4, <1>5, <1>6, <1>7, PTL DEF Promised!BaseOnlyGrows, BaseKeepsHistory
=============================================================================
