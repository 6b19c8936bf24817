------------------------------ MODULE ReviewProof ------------------------------
(***************************************************************************)
(* What Review gives the people who look after the repository, for any     *)
(* number of products, and products that share a file or a branch.         *)
(***************************************************************************)
EXTENDS Review, TLAPS

-----------------------------------------------------------------------------
(* Sequences of commits.                                                   *)

LEMMA Joined ==
  ASSUME NEW a \in Seq(Commit), NEW b \in Seq(Commit)
  PROVE  /\ a \o b \in Seq(Commit)
         /\ DOMAIN a = 1 .. Len(a) /\ DOMAIN b = 1 .. Len(b) /\ Len(a) \in Nat /\ Len(b) \in Nat
         /\ DOMAIN (a \o b) = 1 .. Len(a) + Len(b)
         /\ \A i \in DOMAIN a : i \in DOMAIN (a \o b) /\ (a \o b)[i] = a[i]
         /\ \A j \in DOMAIN b : Len(a) + j \in DOMAIN (a \o b) /\ (a \o b)[Len(a) + j] = b[j]
         /\ \A i \in DOMAIN (a \o b) : i \in DOMAIN a \/ \E j \in DOMAIN b : i = Len(a) + j
<1>1. /\ a \o b \in Seq(Commit) /\ Len(a \o b) = Len(a) + Len(b)
      /\ DOMAIN a = 1 .. Len(a) /\ DOMAIN b = 1 .. Len(b) /\ Len(a) \in Nat /\ Len(b) \in Nat
      /\ DOMAIN (a \o b) = 1 .. Len(a \o b)
  OBVIOUS
<1>2. ASSUME NEW i \in 1 .. Len(a) + Len(b), i \notin 1 .. Len(a)
      PROVE  \E j \in 1 .. Len(b) : i = Len(a) + j
  <2>1. i - Len(a) \in 1 .. Len(b) /\ i = Len(a) + (i - Len(a))
    BY <1>1, <1>2
  <2> QED BY <2>1
<1>3. \A i \in 1 .. Len(a) : i \in 1 .. Len(a) + Len(b) /\ (a \o b)[i] = a[i]
  BY <1>1
<1>4. \A j \in 1 .. Len(b) : Len(a) + j \in 1 .. Len(a) + Len(b) /\ (a \o b)[Len(a) + j] = b[j]
  BY <1>1
<1> QED BY <1>1, <1>2, <1>3, <1>4

LEMMA DocsJoined ==
  ASSUME NEW a \in Seq(Commit), NEW b \in Seq(Commit)
  PROVE  Docs(a \o b) = Docs(a) \cup Docs(b)
<1>1. ASSUME NEW d \in Docs(a \o b) PROVE d \in Docs(a) \cup Docs(b)
  <2>1. PICK i \in DOMAIN (a \o b) : d \in (a \o b)[i]
    BY <1>1 DEF Docs
  <2>2. CASE i \in DOMAIN a
    BY <2>1, <2>2, Joined DEF Docs
  <2>3. CASE \E j \in DOMAIN b : i = Len(a) + j
    BY <2>1, <2>3, Joined DEF Docs
  <2> QED BY <2>2, <2>3, Joined
<1>2. ASSUME NEW d \in Docs(a) PROVE d \in Docs(a \o b)
  <2>1. PICK i \in DOMAIN a : d \in a[i]
    BY <1>2 DEF Docs
  <2> QED BY <2>1, Joined DEF Docs
<1>3. ASSUME NEW d \in Docs(b) PROVE d \in Docs(a \o b)
  <2>1. PICK j \in DOMAIN b : d \in b[j]
    BY <1>3 DEF Docs
  <2>2. Len(a) + j \in DOMAIN (a \o b) /\ d \in (a \o b)[Len(a) + j]
    BY <2>1, Joined
  <2> QED BY <2>2 DEF Docs
<1> QED BY <1>1, <1>2, <1>3

LEMMA DocsTyped ==
  ASSUME NEW a \in Seq(Commit)
  PROVE  Docs(a) \subseteq Doc
<1>1. ASSUME NEW d \in Docs(a) PROVE d \in Doc
  <2>1. PICK i \in DOMAIN a : d \in a[i]
    BY <1>1 DEF Docs
  <2>2. a[i] \in Commit
    BY <2>1
  <2> QED BY <2>1, <2>2 DEF Commit
<1> QED BY <1>1

\* No two commits have a document in common.
Once(a) == \A i, j \in DOMAIN a : i # j => a[i] \cap a[j] = {}

LEMMA OnceJoined ==
  ASSUME NEW a \in Seq(Commit), NEW b \in Seq(Commit), Once(a), Once(b),
         Docs(a) \cap Docs(b) = {}
  PROVE  Once(a \o b)
<1> DEFINE s == a \o b
<1>0. \A i \in DOMAIN a : \A k \in DOMAIN b : a[i] \cap b[k] = {}
  BY DEF Docs
<1> SUFFICES ASSUME NEW i \in DOMAIN s, NEW j \in DOMAIN s, i # j PROVE s[i] \cap s[j] = {}
  BY DEF Once
<1>1. CASE i \in DOMAIN a /\ j \in DOMAIN a
  BY <1>1, Joined DEF Once
<1>2. CASE i \in DOMAIN a /\ \E k \in DOMAIN b : j = Len(a) + k
  <2>1. PICK k \in DOMAIN b : j = Len(a) + k
    BY <1>2
  <2>2. s[i] = a[i] /\ s[j] = b[k]
    BY <1>2, <2>1, Joined
  <2> QED BY <1>0, <1>2, <2>2
<1>3. CASE j \in DOMAIN a /\ \E k \in DOMAIN b : i = Len(a) + k
  <2>1. PICK k \in DOMAIN b : i = Len(a) + k
    BY <1>3
  <2>2. s[j] = a[j] /\ s[i] = b[k]
    BY <1>3, <2>1, Joined
  <2> QED BY <1>0, <1>3, <2>2
<1>4. CASE /\ \E k \in DOMAIN b : i = Len(a) + k
           /\ \E k \in DOMAIN b : j = Len(a) + k
  <2>1. PICK k \in DOMAIN b : i = Len(a) + k
    BY <1>4
  <2>2. PICK m \in DOMAIN b : j = Len(a) + m
    BY <1>4
  <2>3. s[i] = b[k] /\ s[j] = b[m] /\ k # m
    BY <2>1, <2>2, Joined
  <2> QED BY <2>3 DEF Once
<1> QED BY <1>1, <1>2, <1>3, <1>4, Joined

LEMMA One ==
  ASSUME NEW d \in Doc
  PROVE  /\ {d} \in Commit /\ <<{d}>> \in Seq(Commit)
         /\ Docs(<<{d}>>) = {d} /\ Once(<<{d}>>)
         /\ << >> \in Seq(Commit)
<1>1. {d} \in Commit
  BY DEF Commit
<1>2. <<{d}>> \in Seq(Commit) /\ DOMAIN <<{d}>> = {1} /\ <<{d}>>[1] = {d}
  BY <1>1
<1>3. ASSUME NEW e \in Docs(<<{d}>>) PROVE e = d
  BY <1>2, <1>3 DEF Docs
<1>4. d \in Docs(<<{d}>>)
  BY <1>2 DEF Docs
<1>5. Once(<<{d}>>)
  BY <1>2 DEF Once
<1> QED BY <1>1, <1>2, <1>3, <1>4, <1>5

LEMMA None == Docs(<< >>) = {} /\ Once(<< >>) /\ << >> \in Seq(Commit)
<1>1. << >> \in Seq(Commit) /\ DOMAIN << >> = {}
  OBVIOUS
<1> QED BY <1>1 DEF Docs, Once

LEMMA Appended ==
  ASSUME NEW a \in Seq(Commit), NEW c \in Commit
  PROVE  Append(a, c) = a \o <<c>> /\ Append(a, c) \in Seq(Commit)
OBVIOUS

\* A document more at the end of a branch.
LEMMA OneMore ==
  ASSUME NEW a \in Seq(Commit), NEW d \in Doc, d \notin Docs(a), Once(a)
  PROVE  /\ Append(a, {d}) \in Seq(Commit) /\ Append(a, {d}) = a \o <<{d}>>
         /\ Docs(Append(a, {d})) = Docs(a) \cup {d}
         /\ Once(Append(a, {d}))
<1>1. {d} \in Commit
  BY One
<1>2. Append(a, {d}) = a \o <<{d}>> /\ Append(a, {d}) \in Seq(Commit)
  BY <1>1, Appended
<1>3. <<{d}>> \in Seq(Commit) /\ Docs(<<{d}>>) = {d} /\ Once(<<{d}>>)
  BY One
<1>4. Docs(a \o <<{d}>>) = Docs(a) \cup {d}
  BY <1>3, DocsJoined
<1>5. Once(a \o <<{d}>>)
  BY <1>3, OnceJoined
<1> QED BY <1>2, <1>4, <1>5

-----------------------------------------------------------------------------
(* A repository in order: what was turned down is not in the base; what is *)
(* open for review was neither turned down nor merged; no document is in   *)
(* two places; what people have written is numbered.                       *)

Numbered(S, n) == \A d \in S : d.by = Person => d.no < n

InOrder(ba, li, st, re, n) ==
  /\ re \cap Docs(ba) = {}
  /\ \A b \in Branch : st[b] = "open" => Docs(li[b]) \cap (re \cup Docs(ba)) = {}
  /\ \A b, c \in Branch : b # c => Docs(li[b]) \cap Docs(li[c]) = {}
  /\ Once(ba) /\ \A b \in Branch : Once(li[b])
  /\ Numbered(Docs(ba), n) /\ Numbered(re, n) /\ \A b \in Branch : Numbered(Docs(li[b]), n)

Repository(ba, li, st, re) ==
  /\ ba \in Seq(Commit) /\ li \in [Branch -> Seq(Commit)]
  /\ st \in [Branch -> {"none", "open", "closed"}]
  /\ re \subseteq Doc

\* Documents that are nowhere.
Unseen(d, ba, li, re) ==
  d \in Doc /\ d \notin Docs(ba) /\ d \notin re /\ \A b \in Branch : d \notin Docs(li[b])

LEMMA NumbersGrow ==
  ASSUME NEW S \in SUBSET Doc, NEW n \in Nat, NEW m \in Nat, n <= m, Numbered(S, n)
  PROVE  Numbered(S, m)
<1> SUFFICES ASSUME NEW d \in S, d.by = Person PROVE d.no < m
  BY DEF Numbered
<1>1. d.no \in Nat /\ d.no < n
  BY DEF Numbered, Doc
<1> QED BY <1>1

\* The order does not depend on how much more people have done.
LEMMA OrderLasts ==
  ASSUME NEW ba, NEW li, NEW st, NEW re, NEW n \in Nat, NEW m \in Nat, n <= m,
         Repository(ba, li, st, re), InOrder(ba, li, st, re, n)
  PROVE  InOrder(ba, li, st, re, m)
<1>1. Docs(ba) \in SUBSET Doc /\ re \in SUBSET Doc /\ \A b \in Branch : Docs(li[b]) \in SUBSET Doc
  BY DocsTyped DEF Repository
<1>2. Numbered(Docs(ba), m) /\ Numbered(re, m) /\ \A b \in Branch : Numbered(Docs(li[b]), m)
  BY <1>1, NumbersGrow DEF InOrder
<1> QED BY <1>2 DEF InOrder

LEMMA OrderWithMoreInBase ==
  ASSUME NEW ba, NEW li, NEW st, NEW re, NEW n \in Nat, NEW d,
         Repository(ba, li, st, re), InOrder(ba, li, st, re, n),
         Unseen(d, ba, li, re), d.by = Person => d.no < n
  PROVE  Append(ba, {d}) \in Seq(Commit) /\ InOrder(Append(ba, {d}), li, st, re, n)
<1>1. /\ Append(ba, {d}) \in Seq(Commit) /\ Docs(Append(ba, {d})) = Docs(ba) \cup {d}
      /\ Once(Append(ba, {d}))
  BY OneMore DEF Repository, Unseen, InOrder
<1>2. Numbered(Docs(ba) \cup {d}, n)
  BY DEF InOrder, Numbered
<1>3. re \cap (Docs(ba) \cup {d}) = {}
  BY DEF InOrder, Unseen
<1>4. \A b \in Branch : st[b] = "open" => Docs(li[b]) \cap (re \cup (Docs(ba) \cup {d})) = {}
  BY DEF InOrder, Unseen
<1> QED BY <1>1, <1>2, <1>3, <1>4 DEF InOrder

\* One branch changes, and what it holds is not elsewhere.
LEMMA OrderWithBranch ==
  ASSUME NEW ba, NEW li, NEW st, NEW re, NEW n \in Nat, NEW b \in Branch, NEW s \in Seq(Commit),
         Repository(ba, li, st, re), InOrder(ba, li, st, re, n),
         Once(s), Numbered(Docs(s), n),
         st[b] = "open" => Docs(s) \cap (re \cup Docs(ba)) = {},
         \A c \in Branch \ {b} : Docs(s) \cap Docs(li[c]) = {}
  PROVE  InOrder(ba, [li EXCEPT ![b] = s], st, re, n)
<1> DEFINE ln == [li EXCEPT ![b] = s]
<1>1. ln[b] = s /\ \A c \in Branch \ {b} : ln[c] = li[c]
  BY DEF Repository
<1> HIDE DEF ln
<1>2. \A c \in Branch : st[c] = "open" => Docs(ln[c]) \cap (re \cup Docs(ba)) = {}
  BY <1>1 DEF InOrder
<1>3. ASSUME NEW c \in Branch, NEW e \in Branch, c # e PROVE Docs(ln[c]) \cap Docs(ln[e]) = {}
  BY <1>1, <1>3 DEF InOrder
<1>4. \A c \in Branch : Once(ln[c]) /\ Numbered(Docs(ln[c]), n)
  BY <1>1 DEF InOrder
<1>5. InOrder(ba, ln, st, re, n)
  BY <1>2, <1>3, <1>4 DEF InOrder
<1> QED BY <1>5 DEF ln

\* A review is asked for, or ends.
LEMMA OrderWithReview ==
  ASSUME NEW ba, NEW li, NEW st, NEW re, NEW n \in Nat, NEW b \in Branch, NEW v,
         Repository(ba, li, st, re), InOrder(ba, li, st, re, n),
         v = "open" => Docs(li[b]) \cap (re \cup Docs(ba)) = {}
  PROVE  InOrder(ba, li, [st EXCEPT ![b] = v], re, n)
<1> DEFINE sw == [st EXCEPT ![b] = v]
<1>1. sw[b] = v /\ \A c \in Branch \ {b} : sw[c] = st[c]
  BY DEF Repository
<1> HIDE DEF sw
<1>2. \A c \in Branch : sw[c] = "open" => Docs(li[c]) \cap (re \cup Docs(ba)) = {}
  BY <1>1 DEF InOrder
<1>3. InOrder(ba, li, sw, re, n)
  BY <1>2 DEF InOrder
<1> QED BY <1>3 DEF sw

\* What was open for review is merged.
LEMMA OrderAfterMerge ==
  ASSUME NEW ba, NEW li, NEW st, NEW re, NEW n \in Nat, NEW b \in Branch, st[b] = "open",
         Repository(ba, li, st, re), InOrder(ba, li, st, re, n)
  PROVE  /\ ba \o li[b] \in Seq(Commit)
         /\ InOrder(ba \o li[b], [li EXCEPT ![b] = << >>], [st EXCEPT ![b] = "closed"], re, n)
<1> DEFINE bb == ba \o li[b]
           ln == [li EXCEPT ![b] = << >>]
           sw == [st EXCEPT ![b] = "closed"]
<1>0. ba \in Seq(Commit) /\ li[b] \in Seq(Commit)
  BY DEF Repository
<1>1. /\ ln[b] = << >> /\ \A c \in Branch \ {b} : ln[c] = li[c]
      /\ sw[b] = "closed" /\ \A c \in Branch \ {b} : sw[c] = st[c]
  BY DEF Repository
<1>2. /\ bb \in Seq(Commit) /\ Docs(bb) = Docs(ba) \cup Docs(li[b]) /\ Once(bb)
  BY <1>0, Joined, DocsJoined, OnceJoined DEF InOrder
<1> HIDE DEF bb, ln, sw
<1>3. re \cap Docs(bb) = {}
  BY <1>2 DEF InOrder
<1>4. ASSUME NEW c \in Branch, sw[c] = "open" PROVE Docs(ln[c]) \cap (re \cup Docs(bb)) = {}
  <2>1. c # b
    BY <1>1, <1>4
  <2>2. /\ ln[c] = li[c] /\ st[c] = "open" /\ Docs(li[c]) \cap Docs(li[b]) = {}
        /\ Docs(li[c]) \cap (re \cup Docs(ba)) = {}
    BY <1>1, <1>4, <2>1 DEF InOrder
  <2> QED BY <1>2, <2>2
<1>5. ASSUME NEW c \in Branch, NEW e \in Branch, c # e PROVE Docs(ln[c]) \cap Docs(ln[e]) = {}
  BY <1>1, <1>5, None DEF InOrder
<1>6. \A c \in Branch : Once(ln[c]) /\ Numbered(Docs(ln[c]), n)
  BY <1>1, None DEF InOrder, Numbered
<1>7. Numbered(Docs(bb), n)
  BY <1>2 DEF InOrder, Numbered
<1>8. InOrder(bb, ln, sw, re, n)
  BY <1>2, <1>3, <1>4, <1>5, <1>6, <1>7 DEF InOrder
<1> QED BY <1>2, <1>8 DEF bb, ln, sw

\* What was open for review is turned down, or the review only ends.
LEMMA OrderAfterClose ==
  ASSUME NEW ba, NEW li, NEW st, NEW re, NEW n \in Nat, NEW b \in Branch, st[b] = "open",
         NEW rest, rest = li[b] \/ rest = << >>, NEW rr, rr = re \/ rr = re \cup Docs(li[b]),
         Repository(ba, li, st, re), InOrder(ba, li, st, re, n)
  PROVE  InOrder(ba, [li EXCEPT ![b] = rest], [st EXCEPT ![b] = "closed"], rr, n)
<1> DEFINE ln == [li EXCEPT ![b] = rest]
           sw == [st EXCEPT ![b] = "closed"]
<1>1. /\ ln[b] \in {li[b], << >>} /\ \A c \in Branch \ {b} : ln[c] = li[c]
      /\ sw[b] = "closed" /\ \A c \in Branch \ {b} : sw[c] = st[c]
  BY DEF Repository
<1> HIDE DEF ln, sw
<1>2. rr \cap Docs(ba) = {}
  BY DEF InOrder
<1>3. ASSUME NEW c \in Branch, sw[c] = "open" PROVE Docs(ln[c]) \cap (rr \cup Docs(ba)) = {}
  <2>1. c # b
    BY <1>1, <1>3
  <2>2. /\ ln[c] = li[c] /\ st[c] = "open" /\ Docs(li[c]) \cap Docs(li[b]) = {}
        /\ Docs(li[c]) \cap (re \cup Docs(ba)) = {}
    BY <1>1, <1>3, <2>1 DEF InOrder
  <2> QED BY <2>2
<1>4. \A c \in Branch : Docs(ln[c]) \subseteq Docs(li[c])
  BY <1>1, None
<1>5. ASSUME NEW c \in Branch, NEW e \in Branch, c # e PROVE Docs(ln[c]) \cap Docs(ln[e]) = {}
  BY <1>4, <1>5 DEF InOrder
<1>6. \A c \in Branch : Once(ln[c]) /\ Numbered(Docs(ln[c]), n)
  BY <1>1, None DEF InOrder, Numbered
<1>7. Numbered(rr, n)
  BY DEF InOrder, Numbered
<1>8. InOrder(ba, ln, sw, rr, n)
  BY <1>2, <1>3, <1>5, <1>6, <1>7 DEF InOrder
<1> QED BY <1>8 DEF ln, sw

-----------------------------------------------------------------------------
(* The steps of the bot and of people.                                     *)

RepoInOrder == InOrder(base, line, pr, rejected, people)

ReviewInv == ReviewTypeOK /\ RepoInOrder

LEMMA ReviewInitInv == ReviewInit => ReviewInv
<1> SUFFICES ASSUME ReviewInit PROVE ReviewInv
  OBVIOUS
<1>1. {} \in Commit /\ base \in Seq(Commit) /\ DOMAIN base = {1} /\ base[1] = {}
  BY DEF ReviewInit, Commit
<1>2. Docs(base) = {} /\ Once(base)
  BY <1>1 DEF Docs, Once
<1>3. \A b \in Branch : line[b] = << >>
  BY DEF ReviewInit
<1>4. RepoInOrder
  BY <1>2, <1>3, None DEF ReviewInit, RepoInOrder, InOrder, Numbered
<1>5. line \in [Branch -> Seq(Commit)]
  BY None DEF ReviewInit
<1>6. ReviewTypeOK
  BY <1>1, <1>5 DEF ReviewInit, ReviewTypeOK
<1> QED BY <1>4, <1>6 DEF ReviewInv

LEMMA InTypes ==
  ASSUME ReviewTypeOK
  PROVE  /\ Repository(base, line, pr, rejected) /\ people \in Nat
         /\ \A p \in Product : /\ Latest(p) \in Doc /\ Latest(p).by # Person
                               /\ BranchOf[p] \in Branch
         /\ \A f \in File : ByPeople(f) \in Doc /\ ByPeople(f).by = Person /\ ByPeople(f).no = people
<1>1. ASSUME NEW p \in Product PROVE Latest(p) \in Doc /\ Latest(p).by # Person
  <2>1. FileOf[p] \in File /\ drafts[p] \in Nat /\ p # Person
    BY DocumentAssumption DEF File, ReviewTypeOK
  <2> QED BY <2>1 DEF Latest, Doc
<1>2. \A p \in Product : BranchOf[p] \in Branch
  BY DEF Branch
<1>3. \A f \in File : ByPeople(f) \in Doc /\ ByPeople(f).by = Person /\ ByPeople(f).no = people
  BY DEF ReviewTypeOK, ByPeople, Doc
<1> QED BY <1>1, <1>2, <1>3 DEF ReviewTypeOK, Repository

\* What people write is new.
LEMMA PeopleWriteNew ==
  ASSUME ReviewInv, NEW f \in File
  PROVE  Unseen(ByPeople(f), base, line, rejected)
BY InTypes DEF ReviewInv, RepoInOrder, InOrder, Numbered, Unseen

LEMMA NewOnes ==
  ASSUME ReviewInv, NEW p \in Product, Latest(p) \notin Around
  PROVE  Unseen(Latest(p), base, line, rejected)
<1>1. Latest(p) \in Doc
  BY InTypes DEF ReviewInv
<1> QED BY <1>1 DEF Around, OnBranch, Unseen

LEMMA BotInv ==
  ASSUME ReviewInv, Bot
  PROVE  ReviewInv'
<1>0. /\ UNCHANGED <<mode, rejected, people, drafts>> /\ claims' \in [Product -> Doc \cup {NoDoc}]
      /\ Repository(base, line, pr, rejected) /\ people \in Nat /\ RepoInOrder /\ ReviewTypeOK
  BY InTypes DEF Bot, Report, ReviewInv
<1>1. CASE UNCHANGED repoVars
  BY <1>0, <1>1 DEF repoVars, ReviewInv, ReviewTypeOK, RepoInOrder
<1>2. ASSUME NEW p \in Product, Publish(p) PROVE ReviewInv'
  <2>1. PICK d \in Doc : d = Latest(p) /\ d.by # Person
    BY <1>0, InTypes
  <2>2. Unseen(d, base, line, rejected)
    BY <1>2, <2>1, NewOnes DEF Publish
  <2>3. CASE mode = "direct"
    <3>1. base' = Append(base, {d}) /\ UNCHANGED <<line, pr, handled>>
      BY <1>2, <2>1, <2>3 DEF Publish
    <3>2. /\ Append(base, {d}) \in Seq(Commit)
          /\ InOrder(Append(base, {d}), line, pr, rejected, people)
      BY <1>0, <2>1, <2>2, OrderWithMoreInBase DEF RepoInOrder
    <3> QED BY <1>0, <3>1, <3>2 DEF ReviewInv, ReviewTypeOK, RepoInOrder
  <2>4. CASE mode # "direct"
    <3>1. PICK b \in Branch : b = BranchOf[p]
      BY <1>0, InTypes
    <3>2. /\ line' = [line EXCEPT ![b] = <<{d}>>] /\ handled' = handled \ {b}
          /\ UNCHANGED <<base, pr>>
      BY <1>2, <2>1, <2>4, <3>1 DEF Publish
    <3>3. <<{d}>> \in Seq(Commit) /\ Docs(<<{d}>>) = {d} /\ Once(<<{d}>>)
      BY One
    <3>4. Numbered({d}, people)
      BY <2>1 DEF Numbered
    <3>5. InOrder(base, [line EXCEPT ![b] = <<{d}>>], pr, rejected, people)
      <4> DEFINE s == <<{d}>>
      <4>1. s \in Seq(Commit) /\ Once(s) /\ Numbered(Docs(s), people)
        BY <3>3, <3>4
      <4>2. Docs(s) \cap (rejected \cup Docs(base)) = {}
        BY <2>2, <3>3 DEF Unseen
      <4>3. \A c \in Branch \ {b} : Docs(s) \cap Docs(line[c]) = {}
        BY <2>2, <3>3 DEF Unseen
      <4>4. Repository(base, line, pr, rejected) /\ InOrder(base, line, pr, rejected, people) /\ people \in Nat
        BY <1>0 DEF RepoInOrder
      <4> HIDE DEF s
      <4>5. InOrder(base, [line EXCEPT ![b] = s], pr, rejected, people)
        BY <4>1, <4>2, <4>3, <4>4, OrderWithBranch
      <4> QED BY <4>5 DEF s
    <3> QED BY <1>0, <3>2, <3>3, <3>5 DEF ReviewInv, ReviewTypeOK, RepoInOrder
  <2> QED BY <2>3, <2>4
<1>3. ASSUME NEW b \in Branch, Propose(b) PROVE ReviewInv'
  <2>1. /\ Docs(line[b]) \cap (rejected \cup Docs(base)) = {}
        /\ pr' = [pr EXCEPT ![b] = "open"] /\ UNCHANGED <<base, line, handled>>
    BY <1>3 DEF Propose, OnBranch
  <2>2. InOrder(base, line, [pr EXCEPT ![b] = "open"], rejected, people)
    BY <1>0, <2>1, OrderWithReview DEF RepoInOrder
  <2> QED BY <1>0, <2>1, <2>2 DEF ReviewInv, ReviewTypeOK, RepoInOrder
<1> QED BY <1>1, <1>2, <1>3 DEF Bot

LEMMA PeopleInv ==
  ASSUME ReviewInv, People
  PROVE  ReviewInv'
<1>0. /\ UNCHANGED <<mode, drafts, claims>> /\ people' = people + 1 /\ people + 1 \in Nat
      /\ Repository(base, line, pr, rejected) /\ ReviewTypeOK
      /\ InOrder(base, line, pr, rejected, people + 1)
  <2>1. people + 1 \in Nat /\ people <= people + 1
    BY InTypes DEF ReviewInv
  <2> QED BY <2>1, InTypes, OrderLasts DEF People, ReviewInv, RepoInOrder
<1>1. ASSUME NEW b \in Branch, Merge(b) PROVE ReviewInv'
  <2>1. /\ pr[b] = "open" /\ base' = base \o line[b] /\ line' = [line EXCEPT ![b] = << >>]
        /\ pr' = [pr EXCEPT ![b] = "closed"] /\ handled' = handled \cup {b} /\ rejected' = rejected
    BY <1>1 DEF Merge
  <2>2. /\ base \o line[b] \in Seq(Commit)
        /\ InOrder(base \o line[b], [line EXCEPT ![b] = << >>], [pr EXCEPT ![b] = "closed"], rejected, people + 1)
    BY <1>0, <2>1, OrderAfterMerge
  <2> QED BY <1>0, <2>1, <2>2, None DEF ReviewInv, ReviewTypeOK, RepoInOrder
<1>2. ASSUME NEW b \in Branch, Close(b) PROVE ReviewInv'
  <2>1. /\ pr[b] = "open" /\ base' = base /\ pr' = [pr EXCEPT ![b] = "closed"]
        /\ handled' = handled \cup {b} /\ rejected' \in {rejected, rejected \cup Docs(line[b])}
    BY <1>2 DEF Close, OnBranch
  <2>2. PICK rest \in {line[b], << >>} : line' = [line EXCEPT ![b] = rest]
    BY <1>2 DEF Close
  <2>3. InOrder(base, [line EXCEPT ![b] = rest], [pr EXCEPT ![b] = "closed"], rejected', people + 1)
    <3>1. PICK rr \in {rejected, rejected \cup Docs(line[b])} : rr = rejected'
      BY <2>1
    <3>2. InOrder(base, [line EXCEPT ![b] = rest], [pr EXCEPT ![b] = "closed"], rr, people + 1)
      BY <1>0, <2>1, OrderAfterClose
    <3> QED BY <3>1, <3>2
  <2>4. rejected' \subseteq Doc /\ rest \in Seq(Commit)
    <3>1. line[b] \in Seq(Commit)
      BY <1>0 DEF ReviewTypeOK
    <3> QED BY <1>0, <2>1, <3>1, None, DocsTyped DEF ReviewTypeOK
  <2> QED BY <1>0, <2>1, <2>2, <2>3, <2>4 DEF ReviewInv, ReviewTypeOK, RepoInOrder
<1>3. ASSUME NEW f \in File
      PROVE  \E d \in Doc : /\ d = ByPeople(f) /\ Unseen(d, base, line, rejected)
                            /\ d.by = Person => d.no < people + 1
  BY <1>0, <1>3, InTypes, PeopleWriteNew
<1>4. ASSUME NEW b \in Branch, Amend(b) PROVE ReviewInv'
  <2>1. PICK f \in File : line' = [line EXCEPT ![b] = Append(@, {ByPeople(f)})]
    BY <1>4 DEF Amend
  <2>2. PICK d \in Doc : /\ d = ByPeople(f) /\ Unseen(d, base, line, rejected)
                         /\ d.by = Person => d.no < people + 1
    BY <1>3
  <2>3. PICK s \in Seq(Commit) : s = Append(line[b], {d}) /\ Docs(s) = Docs(line[b]) \cup {d} /\ Once(s)
    BY <1>0, <2>2, OneMore DEF Repository, InOrder, Unseen
  <2>4. /\ line' = [line EXCEPT ![b] = s] /\ pr[b] = "open" /\ handled' = handled \cup {b}
        /\ UNCHANGED <<base, pr, rejected>>
    BY <1>0, <1>4, <2>1, <2>2, <2>3 DEF Amend
  <2>5. Numbered(Docs(s), people + 1)
    BY <1>0, <2>2, <2>3 DEF InOrder, Numbered
  <2>6. /\ Docs(s) \cap (rejected \cup Docs(base)) = {}
        /\ \A c \in Branch \ {b} : Docs(s) \cap Docs(line[c]) = {}
    BY <1>0, <2>2, <2>3, <2>4 DEF InOrder, Unseen
  <2>7. InOrder(base, [line EXCEPT ![b] = s], pr, rejected, people + 1)
    BY <1>0, <2>3, <2>5, <2>6, OrderWithBranch
  <2> QED BY <1>0, <2>4, <2>7 DEF ReviewInv, ReviewTypeOK, RepoInOrder
<1>5. ASSUME NEW f \in File, Change(f) PROVE ReviewInv'
  <2>1. PICK d \in Doc : /\ d = ByPeople(f) /\ Unseen(d, base, line, rejected)
                         /\ d.by = Person => d.no < people + 1
    BY <1>3
  <2>2. base' = Append(base, {d}) /\ UNCHANGED <<line, pr, handled, rejected>>
    BY <1>5, <2>1 DEF Change
  <2>3. Append(base, {d}) \in Seq(Commit) /\ InOrder(Append(base, {d}), line, pr, rejected, people + 1)
    BY <1>0, <2>1, OrderWithMoreInBase
  <2> QED BY <1>0, <2>2, <2>3 DEF ReviewInv, ReviewTypeOK, RepoInOrder
<1> QED BY <1>1, <1>2, <1>4, <1>5 DEF People

LEMMA ReviewStepInv == ReviewInv /\ [ReviewNext]_reviewVars => ReviewInv'
<1> SUFFICES ASSUME ReviewInv, [ReviewNext]_reviewVars PROVE ReviewInv'
  OBVIOUS
<1>1. ASSUME NEW p \in Product, Draft(p) PROVE ReviewInv'
  BY <1>1 DEF Draft, repoVars, ReviewInv, ReviewTypeOK, RepoInOrder
<1>2. CASE UNCHANGED reviewVars
  BY <1>2 DEF reviewVars, repoVars, ReviewInv, ReviewTypeOK, RepoInOrder
<1> QED BY <1>1, <1>2, BotInv, PeopleInv DEF ReviewNext

LEMMA ReviewIsInvariant == ReviewSpec => []ReviewInv
BY ReviewInitInv, ReviewStepInv, PTL DEF ReviewSpec

\* What people turned down never reaches the base: "a stale branch never
\* resurrects old statements" (gitops.go:103-104).
THEOREM NothingComesBack == ReviewSpec => []TurnedDownStaysOut
<1>1. ReviewInv => TurnedDownStaysOut
  BY DEF ReviewInv, RepoInOrder, InOrder, TurnedDownStaysOut
<1> QED BY <1>1, ReviewIsInvariant, PTL

\* Nobody finds one document in two commits of the base, whichever way each
\* of them has come (gitops.go:240-277).
THEOREM NothingIsMergedTwice == ReviewSpec => []NothingTwice
<1>1. ReviewInv => NothingTwice
  BY DEF ReviewInv, RepoInOrder, InOrder, Once, NothingTwice
<1> QED BY <1>1, ReviewIsInvariant, PTL

\* The base only gets longer, whoever commits to it (gitops.go:137-145).
THEOREM BaseNeverShrinks == ReviewSpec => BaseOnlyGrows
<1>1. ASSUME NEW a \in Seq(Commit), NEW b \in Seq(Commit)
      PROVE  SubSeq(a \o b, 1, Len(a)) = a
  OBVIOUS
<1>2. ASSUME ReviewInv, ReviewNext PROVE base' = base \/ \E more \in Seq(Commit) : base' = base \o more
  <2>0. base \in Seq(Commit) /\ line \in [Branch -> Seq(Commit)]
    BY <1>2 DEF ReviewInv, ReviewTypeOK
  <2>1. ASSUME NEW d \in Doc, base' = Append(base, {d})
        PROVE  \E more \in Seq(Commit) : base' = base \o more
    BY <2>0, <2>1, One, Appended
  <2>2. ASSUME NEW p \in Product, Publish(p)
        PROVE  base' = base \/ \E more \in Seq(Commit) : base' = base \o more
    <3>1. PICK d \in Doc : d = Latest(p)
      BY <1>2, InTypes DEF ReviewInv
    <3> QED BY <2>1, <2>2, <3>1 DEF Publish
  <2>3. ASSUME NEW f \in File, Change(f)
        PROVE  \E more \in Seq(Commit) : base' = base \o more
    <3>1. PICK d \in Doc : d = ByPeople(f)
      BY <1>2, InTypes DEF ReviewInv
    <3> QED BY <2>1, <2>3, <3>1 DEF Change
  <2>4. ASSUME NEW b \in Branch, Merge(b)
        PROVE  \E more \in Seq(Commit) : base' = base \o more
    BY <2>0, <2>4 DEF Merge
  <2> QED BY <1>2, <2>2, <2>3, <2>4 DEF ReviewNext, Bot, People, Draft, Propose, Close, Amend, repoVars
<1>3. ReviewInv /\ [ReviewNext]_reviewVars => [SubSeq(base', 1, Len(base)) = base]_base
  <2> SUFFICES ASSUME ReviewInv, [ReviewNext]_reviewVars
               PROVE  base' = base \/ SubSeq(base', 1, Len(base)) = base
    OBVIOUS
  <2>1. base \in Seq(Commit)
    BY DEF ReviewInv, ReviewTypeOK
  <2> QED BY <1>1, <1>2, <2>1 DEF reviewVars, repoVars
<1> QED BY <1>3, ReviewIsInvariant, PTL DEF ReviewSpec, BaseOnlyGrows

-----------------------------------------------------------------------------
(* What is reported.                                                       *)

\* A document stands until the bot publishes the next one of its product, and
\* where it is found afterwards does not depend on what other products do.
LEMMA StandsOn ==
  ASSUME ReviewInv, ReviewNext, NEW CONSTANT p \in Product, NEW CONSTANT d,
         Stands(p, d), claims[p] # NoDoc
  PROVE  Stands(p, d)'
<1>0. /\ base \in Seq(Commit) /\ line \in [Branch -> Seq(Commit)]
      /\ pr \in [Branch -> {"none", "open", "closed"}]
  BY DEF ReviewInv, ReviewTypeOK
<1>1. mode' = mode
  BY DEF ReviewNext, Bot, People, Draft
<1>2. PICK b \in Branch : b = BranchOf[p]
  BY DEF Branch
<1>3. (Docs(base))' = Docs(base') /\ (OnBranch(BranchOf[p]))' = Docs(line'[b])
  BY <1>2 DEF OnBranch, Docs
<1> SUFFICES ASSUME ~ Stands(p, d)'
             PROVE  FALSE
  OBVIOUS
<1>4. /\ d \notin Docs(base')
      /\ \/ mode = "direct"
         \/ /\ b \notin handled' /\ ~ \E q \in Product \ {p} : BranchOf[q] = b
            /\ ~ (d \in Docs(line'[b]) /\ (mode = "pr" => pr'[b] = "open"))
  BY <1>1, <1>2, <1>3 DEF Stands
<1>5. ASSUME NEW d1 \in Doc, base' = Append(base, {d1}) PROVE Docs(base) \subseteq Docs(base')
  <2>1. base' = base \o <<{d1}>> /\ <<{d1}>> \in Seq(Commit)
    BY <1>0, <1>5, One, Appended
  <2> QED BY <1>0, <2>1, DocsJoined
<1>6. d \notin Docs(base)
  <2>1. ASSUME NEW q \in Product, Publish(q) PROVE Docs(base) \subseteq Docs(base')
    <3>1. PICK e \in Doc : e = Latest(q)
      BY InTypes DEF ReviewInv
    <3> QED BY <1>5, <2>1, <3>1 DEF Publish
  <2>2. ASSUME NEW f \in File, Change(f) PROVE Docs(base) \subseteq Docs(base')
    <3>1. PICK e \in Doc : e = ByPeople(f)
      BY InTypes DEF ReviewInv
    <3> QED BY <1>5, <2>2, <3>1 DEF Change
  <2>3. ASSUME NEW c \in Branch, Merge(c) PROVE Docs(base) \subseteq Docs(base')
    BY <1>0, <2>3, DocsJoined DEF Merge
  <2>4. base' = base \/ Docs(base) \subseteq Docs(base')
    BY <2>1, <2>2, <2>3 DEF ReviewNext, Bot, People, Draft, Propose, Close, Amend, repoVars
  <2> QED BY <1>4, <2>4
<1>7. /\ mode # "direct" /\ b \notin handled' /\ ~ \E q \in Product \ {p} : BranchOf[q] = b
      /\ ~ (d \in Docs(line'[b]) /\ (mode = "pr" => pr'[b] = "open"))
      /\ b \in handled \/ (d \in Docs(line[b]) /\ (mode = "pr" => pr[b] = "open"))
  BY <1>2, <1>4, <1>6 DEF Stands, OnBranch
<1>8. ASSUME NEW q \in Product, Publish(q), claims[q] = NoDoc
      PROVE  /\ b \in handled => b \in handled'
             /\ line'[b] = line[b] /\ pr'[b] = pr[b]
  <2>1. q # p /\ BranchOf[q] # b
    BY <1>7, <1>8
  <2> QED BY <1>0, <1>8, <2>1 DEF Publish
<1>9. ASSUME NEW c \in Branch, Propose(c)
      PROVE  handled' = handled /\ line' = line /\ (pr[b] = "open" => pr'[b] = "open")
  BY <1>0, <1>9 DEF Propose
<1>10. ASSUME NEW c \in Branch, Merge(c) \/ Close(c) \/ Amend(c)
       PROVE  \/ b \in handled'
              \/ handled \subseteq handled' /\ line'[b] = line[b] /\ pr'[b] = pr[b]
  BY <1>0, <1>10 DEF Merge, Close, Amend
<1>11. CASE Bot
  BY <1>7, <1>8, <1>9, <1>11 DEF Bot, Publish, repoVars
<1>12. CASE People
  BY <1>7, <1>10, <1>12 DEF People, Change
<1>13. CASE \E q \in Product : Draft(q)
  BY <1>7, <1>13 DEF Draft, repoVars
<1> QED BY <1>11, <1>12, <1>13 DEF ReviewNext

LEMMA ReportsStep ==
  ASSUME ReviewInv, ReportsHold, ReviewNext
  PROVE  ReportsHold'
<1> SUFFICES ASSUME NEW p \in Product, claims'[p] # NoDoc PROVE Stands(p, claims[p])'
  BY DEF ReportsHold
<1>1. CASE claims'[p] = claims[p]
  <2>1. PICK d : d = claims[p]
    OBVIOUS
  <2>2. Stands(p, d) /\ claims[p] # NoDoc
    BY <1>1, <2>1 DEF ReportsHold
  <2>3. Stands(p, d)'
    BY <2>2, StandsOn
  <2> QED BY <1>1, <2>1, <2>3 DEF Stands
<1>2. CASE claims'[p] # claims[p]
  <2>1. Bot
    BY <1>2 DEF ReviewNext, People, Draft
  <2>2. claims'[p] = Latest(p) /\ Stands(p, Latest(p))' /\ drafts' = drafts
    BY <1>2, <2>1 DEF Bot, Report
  <2> QED BY <2>2 DEF Stands, Latest
<1> QED BY <1>1, <1>2

\* What is reported as published stands until it is withdrawn or people act
\* on it (pipeline.go:472-507).
THEOREM ReportsAreTrue == ReviewSpec => []ReportsHold
<1>1. ReviewInit => ReportsHold
  BY DEF ReviewInit, ReportsHold
<1>2. ReviewInv /\ ReportsHold /\ [ReviewNext]_reviewVars => ReportsHold'
  <2>1. ReportsHold /\ UNCHANGED reviewVars => ReportsHold'
    BY DEF reviewVars, repoVars, ReportsHold, Stands, OnBranch, Docs
  <2> QED BY <2>1, ReportsStep
<1> QED BY <1>1, <1>2, ReviewIsInvariant, PTL DEF ReviewSpec
=============================================================================
