----------------------------- MODULE TriageProof -----------------------------
(***************************************************************************)
(* Proofs about the choice of findings, and about what becomes of a        *)
(* person's verdicts and of a run's document later: for any rows, names,   *)
(* alias lists, runners, options and statements, old gateways and new.     *)
(***************************************************************************)
EXTENDS Triage, NaturalsInduction, WellFoundedInduction, TLAPS

-----------------------------------------------------------------------------
(* The newest statement.                                                   *)

\* Of statements up to some moment one is the newest.
LEMMA NewestExists ==
  ASSUME NEW M \in SUBSET Writing, M # {}, NEW n \in Nat, \A s \in M : s.at <= n
  PROVE  \E s \in M : \A t \in M : t.at <= s.at
<1> DEFINE Ages == {n - s.at : s \in M}
<1>1. Ages \subseteq Nat /\ Ages # {}
  BY DEF Writing
<1>2. \E a \in Ages : \A b \in Ages : ~(<<b, a>> \in OpToRel(<, Nat))
  <2> HIDE DEF Ages
  <2> QED BY <1>1, WFMin, NatLessThanWellFounded, Zenon
<1>3. PICK a \in Ages : \A b \in Ages : ~(b < a)
  BY <1>1, <1>2, Zenon DEF OpToRel
<1>4. PICK s \in M : a = n - s.at
  BY <1>3
<1>5. \A t \in M : ~(n - t.at < n - s.at)
  BY <1>3, <1>4
<1> QED BY <1>5 DEF Writing

\* No statement is from the future.
Past ==
  /\ \A i \in Id : \A s \in said[i] : s.at <= now
  /\ \A d \in inbox : d.at <= now
  /\ \A w \in Runner : doc[w].at <= now

\* What a runner uploads is a document.
Built ==
  \A w \in Runner : phase[w] \in {"built", "waiting", "checking", "reported"} => doc[w] \in Doc

TriageInv == TriageTypeOK /\ Past /\ Built

LEMMA NamesType ==
  ASSUME TriageTypeOK
  PROVE  \A r \in Row : r \in Names[r] /\ Names[r] \subseteq Id
BY IdAssumption DEF TriageTypeOK, Names

\* What is in force is one of the statements that match, if there are any.
LEMMA InForceType ==
  ASSUME TriageInv, NEW r \in Row
  PROVE  /\ InForce(r) \in Reading
         /\ IF Matching(r) = {} THEN InForce(r) = Silence ELSE InForce(r) \in Matching(r)
         /\ Matching(r) \subseteq Writing
<1>1. \A i \in Names[r] : said[i] \subseteq Writing /\ \A s \in said[i] : s.at <= now
  BY NamesType DEF TriageInv, TriageTypeOK, Past
<1>2. Matching(r) \subseteq Writing /\ \A s \in Matching(r) : s.at <= now
  BY <1>1 DEF Matching
<1>3. CASE Matching(r) = {}
  BY <1>3 DEF InForce, Reading
<1>4. CASE Matching(r) # {}
  <2>1. \E s \in Matching(r) : \A t \in Matching(r) : t.at <= s.at
    BY <1>2, <1>4, NewestExists DEF TriageInv, TriageTypeOK
  <2>2. InForce(r) \in Matching(r)
    BY <1>4, <2>1 DEF InForce
  <2> QED BY <1>2, <1>4, <2>2 DEF Reading
<1> QED BY <1>3, <1>4, <1>2

\* Only what nobody has answered has no status.
LEMMA SilenceMeansNothing ==
  ASSUME TriageInv, NEW r \in Row, InForce(r).status = ""
  PROVE  Matching(r) = {}
BY InForceType, StatusAssumption DEF Writing

-----------------------------------------------------------------------------
(* The findings of a listing.                                              *)

\* What merging does: findings share no name, every row shares one with some
\* finding, with one that has a verdict if it has one itself, and a finding has
\* its verdict from a row of its own name or of a twin.
Merged(rows, ids, found) ==
  /\ \A f, g \in found : f # g => ids[f.id] \cap ids[g.id] = {}
  /\ \A a \in rows : \E f \in found : ids[f.id] \cap ids[a.id] # {}
  /\ \A a \in rows : a.status # "" =>
       \E f \in found : f.status # "" /\ ids[f.id] \cap ids[a.id] # {}
  /\ \A f \in found : \E k, a \in rows :
       /\ f = Finding(k, a)
       /\ a = k \/ ids[a.id] \cap ids[k.id] # {}

\* It does so for any listing and any names.
LEMMA CollapsedFindings ==
  \A rows, ids : \A found \in Collapsed(rows, ids) :
    (\A a \in rows : ids[a.id] # {}) => Merged(rows, ids, found)
<1> SUFFICES ASSUME NEW rows, NEW ids, NEW found \in Collapsed(rows, ids),
                    \A a \in rows : ids[a.id] # {}
             PROVE  Merged(rows, ids, found)
  BY Zenon
<1>1. PICK K \in Kept(rows, ids) :
        found \in UNION {
          {{Finding(k, by[k]) : k \in K} : by \in {b \in [K -> rows] : \A k \in K : b[k] \in Deciders(k, into)}}
          : into \in {t \in [rows \ K -> K] : \A a \in rows \ K : Twins(a, t[a], ids)}}
  BY Zenon DEF Collapsed
<1>2. PICK into \in {t \in [rows \ K -> K] : \A a \in rows \ K : Twins(a, t[a], ids)} :
        found \in {{Finding(k, by[k]) : k \in K} :
                     by \in {b \in [K -> rows] : \A k \in K : b[k] \in Deciders(k, into)}}
  BY <1>1, Zenon
<1>3. PICK by \in {b \in [K -> rows] : \A k \in K : b[k] \in Deciders(k, into)} :
        found = {Finding(k, by[k]) : k \in K}
  BY <1>2, Zenon
<1>4. /\ K \subseteq rows
      /\ \A a, b \in K : a # b => ids[a.id] \cap ids[b.id] = {}
      /\ \A a \in rows : \E b \in K : a = b \/ ids[a.id] \cap ids[b.id] # {}
  BY <1>1 DEF Kept, Twins
<1>5. /\ into \in [rows \ K -> K]
      /\ \A a \in rows \ K : ids[a.id] \cap ids[into[a].id] # {}
      /\ \A k \in K : by[k] \in rows /\ by[k] \in Deciders(k, into)
  BY <1>2, <1>3 DEF Twins
<1>6. \A k \in K : Finding(k, by[k]).id = k.id /\ Finding(k, by[k]).status = by[k].status
  BY DEF Finding
<1>7. ASSUME NEW f \in found, NEW g \in found, f # g
      PROVE  ids[f.id] \cap ids[g.id] = {}
  <2>1. PICK k \in K : f = Finding(k, by[k])
    BY <1>3
  <2>2. PICK m \in K : g = Finding(m, by[m])
    BY <1>3
  <2>3. k # m
    BY <1>7, <2>1, <2>2
  <2> QED BY <1>4, <1>6, <2>1, <2>2, <2>3
<1>8. ASSUME NEW a \in rows
      PROVE  \E f \in found : ids[f.id] \cap ids[a.id] # {}
  <2>1. PICK b \in K : a = b \/ ids[a.id] \cap ids[b.id] # {}
    BY <1>4
  <2>2. Finding(b, by[b]) \in found /\ ids[b.id] \cap ids[a.id] # {}
    BY <1>3, <2>1
  <2> QED BY <1>6, <2>2
<1>9. ASSUME NEW a \in rows, a.status # ""
      PROVE  \E f \in found : f.status # "" /\ ids[f.id] \cap ids[a.id] # {}
  <2> DEFINE k == IF a \in K THEN a ELSE into[a]
  <2>1. k \in K /\ ids[k.id] \cap ids[a.id] # {}
    BY <1>5
  <2>2. by[k].status # ""
    BY <1>5, <1>9, <2>1 DEF Deciders
  <2>3. Finding(k, by[k]) \in found
    BY <1>3, <2>1
  <2> QED BY <1>6, <2>1, <2>2, <2>3
<1>10. ASSUME NEW f \in found
       PROVE  \E k, a \in rows : f = Finding(k, a) /\ (a = k \/ ids[a.id] \cap ids[k.id] # {})
  <2>1. PICK k \in K : f = Finding(k, by[k])
    BY <1>3
  <2>2. by[k] = k \/ (by[k] \in rows \ K /\ into[by[k]] = k)
    BY <1>5 DEF Deciders
  <2> QED BY <1>4, <1>5, <2>1, <2>2
<1> QED BY <1>7, <1>8, <1>9, <1>10 DEF Merged

-----------------------------------------------------------------------------
(* Types.                                                                  *)

\* The fields of what a row may show.
LEMMA ReadingFields ==
  ASSUME NEW s \in Reading
  PROVE  s.status \in Status \cup {""} /\ s.tool \in Tool /\ s.at \in Nat
<1>1. CASE s \in Writing
  BY <1>1 DEF Writing
<1>2. CASE s = Silence
  BY <1>2 DEF Silence, Tool
<1> QED BY <1>1, <1>2 DEF Reading

\* Every row of the listing shows a statement that matches it, or none; a new
\* gateway shows the one in force.
LEMMA ListingRows ==
  ASSUME TriageInv
  PROVE  /\ \A row \in Listing : \E r \in Row : \E s \in Reading :
              /\ row = RowOf(r, s)
              /\ gateway = "new" => s = InForce(r)
              /\ IF Matching(r) = {} THEN s = Silence ELSE s \in Matching(r)
         /\ \A r \in Row : RowOf(r, InForce(r)) \in Listing
<1> DEFINE shown(r) == IF gateway = "new" \/ Matching(r) = {} THEN {InForce(r)} ELSE Matching(r)
<1>0. Listing = UNION {{RowOf(r, s) : s \in shown(r)} : r \in Row}
  BY DEF Listing
<1>1. ASSUME NEW row \in Listing
      PROVE  \E r \in Row : \E s \in Reading :
               /\ row = RowOf(r, s)
               /\ gateway = "new" => s = InForce(r)
               /\ IF Matching(r) = {} THEN s = Silence ELSE s \in Matching(r)
  <2>1. PICK r \in Row : row \in {RowOf(r, s) : s \in shown(r)}
    BY <1>0, Zenon
  <2>2. PICK s \in shown(r) : row = RowOf(r, s)
    BY <2>1, Zenon
  <2> QED BY <2>2, InForceType DEF Reading
<1>2. ASSUME NEW r \in Row
      PROVE  RowOf(r, InForce(r)) \in Listing
  <2>1. InForce(r) \in shown(r)
    BY InForceType
  <2>2. RowOf(r, InForce(r)) \in {RowOf(r, s) : s \in shown(r)}
    BY <2>1
  <2>3. {RowOf(r, s) : s \in shown(r)} \in {{RowOf(q, s) : s \in shown(q)} : q \in Row}
    OBVIOUS
  <2> HIDE DEF shown
  <2> QED BY <1>0, <2>2, <2>3
<1> QED BY <1>1, <1>2

\* Rows and findings have the same type.
LEMMA ListingType ==
  ASSUME TriageInv
  PROVE  Listing \subseteq Found
<1> SUFFICES ASSUME NEW row \in Listing PROVE row \in Found
  OBVIOUS
<1>1. PICK r \in Row, s \in Reading : row = RowOf(r, s)
  BY ListingRows
<1>2. s.status \in Status \cup {""} /\ s.tool \in Tool /\ s.at \in Nat
  BY ReadingFields
<1>3. "" \in Tool /\ 0 \in Nat
  BY DEF Tool
<1> QED BY <1>1, <1>2, <1>3 DEF RowOf, Found

\* What merging does to a listing.
LEMMA FoundInListing ==
  ASSUME TriageInv, NEW found \in Collapsed(Listing, Names)
  PROVE  Merged(Listing, Names, found)
<1>1. \A a \in Listing : Names[a.id] # {}
  BY ListingType, NamesType DEF TriageInv, Found
<1> QED BY <1>1, CollapsedFindings, Zenon

LEMMA FindingsType ==
  ASSUME TriageInv, NEW found \in Collapsed(Listing, Names)
  PROVE  found \subseteq Found
<1> SUFFICES ASSUME NEW f \in found PROVE f \in Found
  OBVIOUS
<1>1. PICK k \in Listing, a \in Listing : f = Finding(k, a)
  BY FoundInListing DEF Merged
<1>2. k \in Found /\ a \in Found
  BY ListingType
<1> QED BY <1>1, <1>2 DEF Finding, Found

LEMMA TriageInitType == TriageInit => TriageInv
<1> SUFFICES ASSUME TriageInit PROVE TriageInv
  OBVIOUS
<1>1. [r \in Row |-> Silence] \in [Row -> Reading]
  BY DEF Reading
<1>2. Unasked \in [applied : SUBSET Row, overridden : SUBSET Row, pending : SUBSET Row]
  BY DEF Unasked
<1>3. NoDoc.at = 0
  BY DEF NoDoc
<1>4. TriageTypeOK
  BY <1>1, <1>2 DEF TriageInit, TriageTypeOK
<1>5. Past /\ Built
  BY <1>3 DEF TriageInit, Past, Built
<1> QED BY <1>4, <1>5 DEF TriageInv

\* Ending a run keeps its part of the types.
LEMMA OverType ==
  ASSUME TriageInv, NEW w \in Runner, Over(w)
  PROVE  /\ phase' \in [Runner -> {"idle", "loaded", "assess", "built", "waiting", "checking", "reported"}]
         /\ opts' \in [Runner -> Option \cup {Plain}] /\ saw' \in [Runner -> [Row -> Reading]]
         /\ findings' \in [Runner -> SUBSET Found]
         /\ work' \in [Runner -> SUBSET Row] /\ doc' \in [Runner -> Doc \cup {NoDoc}]
         /\ verified' \in [Runner -> [applied : SUBSET Row, overridden : SUBSET Row,
                                      pending : SUBSET Row]]
         /\ \A v \in Runner : doc'[v].at <= now
         /\ Built'
<1>1. [r \in Row |-> Silence] \in [Row -> Reading]
  BY DEF Reading
<1>2. Unasked \in [applied : SUBSET Row, overridden : SUBSET Row, pending : SUBSET Row]
  BY DEF Unasked
<1>3. NoDoc.at = 0
  BY DEF NoDoc
<1>4. doc' \in [Runner -> Doc \cup {NoDoc}] /\ \A v \in Runner : doc'[v].at <= now
  BY <1>3 DEF Over, TriageInv, TriageTypeOK, Past
<1>5. Built'
  BY DEF Over, TriageInv, TriageTypeOK, Built
<1> QED BY <1>1, <1>2, <1>4, <1>5 DEF Over, TriageInv, TriageTypeOK

\* Every step of a runner keeps types and times.
LEMMA RunType ==
  ASSUME TriageInv, NEW w \in Runner, Run(w)
  PROVE  TriageInv'
<1> USE DEF TriageInv, TriageTypeOK, Past, Built
<1>1. CASE Load(w)
  <2>1. PICK o \in Option : \E found \in Collapsed(Listing, Names) : LoadAs(w, o, found)
    BY <1>1 DEF Load
  <2>2. PICK found \in Collapsed(Listing, Names) : LoadAs(w, o, found)
    BY <2>1
  <2>3. [r \in Row |-> InForce(r)] \in [Row -> Reading]
    BY InForceType
  <2>4. found \subseteq Found
    BY FindingsType
  <2> QED BY <2>2, <2>3, <2>4 DEF LoadAs, bomhortVars
<1>2. CASE Filter(w)
  <2>1. PICK cutoff \in 0 .. now + 1, listed \in BOOLEAN :
          work' = [work EXCEPT ![w] =
                     {f.id : f \in {g \in findings[w] : Wanted(g, opts[w], cutoff, listed)}}]
    BY <1>2 DEF Filter
  <2>2. {f.id : f \in {g \in findings[w] : Wanted(g, opts[w], cutoff, listed)}} \subseteq Row
    <3>1. findings[w] \subseteq Found
      OBVIOUS
    <3> HIDE DEF TriageInv, TriageTypeOK, Past, Built
    <3> QED BY <3>1 DEF Found
  <2> QED BY <1>2, <2>1, <2>2 DEF Filter, bomhortVars
<1>3. CASE Build(w)
  <2>0. PICK answered \in SUBSET work[w] : \E says \in [answered -> Status] :
          /\ answered # {}
          /\ doc' = [doc EXCEPT ![w] = [at |-> now + 1, says |-> says,
                                        forced |-> opts[w].force, saw |-> saw[w]]]
    BY <1>3 DEF Build
  <2>1. PICK says \in [answered -> Status] :
          /\ answered # {}
          /\ doc' = [doc EXCEPT ![w] = [at |-> now + 1, says |-> says,
                                        forced |-> opts[w].force, saw |-> saw[w]]]
    BY <2>0
  <2>2. says \in Says
    BY <2>1 DEF Says
  <2>3. opts[w].force \in BOOLEAN
    <3>1. opts[w] \in Option \/ opts[w] = Plain
      OBVIOUS
    <3> HIDE DEF TriageInv, TriageTypeOK, Past, Built
    <3>2. CASE opts[w] \in Option
      BY <3>2, OptionAssumption
    <3>3. CASE opts[w] = Plain
      BY <3>3 DEF Plain
    <3> QED BY <3>1, <3>2, <3>3
  <2>4. [at |-> now + 1, says |-> says, forced |-> opts[w].force, saw |-> saw[w]] \in Doc
    <3>1. now + 1 \in Nat /\ saw[w] \in [Row -> Reading]
      OBVIOUS
    <3> HIDE DEF TriageInv, TriageTypeOK, Past, Built
    <3> QED BY <2>2, <2>3, <3>1 DEF Doc
  <2>5. doc' \in [Runner -> Doc \cup {NoDoc}]
    BY <2>1, <2>4
  <2>6. \A v \in Runner : doc'[v].at <= now + 1
    <3>1. \A v \in Runner : doc[v].at <= now /\ doc[v].at \in Nat /\ now \in Nat
      BY DEF Doc, NoDoc
    <3>2. doc'[w].at = now + 1 /\ \A v \in Runner : v # w => doc'[v] = doc[v]
      BY <2>1
    <3> HIDE DEF TriageInv, TriageTypeOK, Past, Built
    <3> SUFFICES ASSUME NEW v \in Runner PROVE doc'[v].at <= now + 1
      OBVIOUS
    <3>3. CASE v = w
      BY <3>1, <3>2, <3>3
    <3>4. CASE v # w
      BY <3>1, <3>2, <3>4
    <3> QED BY <3>3, <3>4
  <2>7. \A v \in Runner : phase'[v] \in {"built", "waiting", "checking", "reported"} => doc'[v] \in Doc
    BY <1>3, <2>1, <2>4 DEF Build
  <2>8. (\A i \in Id : \A s \in said[i] : s.at <= now + 1) /\ \A d \in inbox : d.at <= now + 1
    <3>1. (\A i \in Id : \A s \in said[i] : s.at \in Nat) /\ \A d \in inbox : d.at \in Nat
      BY DEF Writing, Doc
    <3> QED BY <3>1
  <2> QED BY <1>3, <2>5, <2>6, <2>7, <2>8 DEF Build
<1>4. CASE Upload(w)
  <2>1. doc[w] \in Doc
    BY <1>4 DEF Upload
  <2> QED BY <1>4, <2>1 DEF Upload
<1>5. CASE UploadFails(w)
  <2>1. doc[w] \in Doc /\ doc[w].at <= now
    BY <1>5 DEF UploadFails
  <2>2. inbox' \subseteq Doc /\ \A d \in inbox' : d.at <= now
    BY <1>5, <2>1 DEF UploadFails
  <2>3. Over(w) /\ UNCHANGED <<gateway, alias, said, now>>
    BY <1>5 DEF UploadFails
  <2> QED BY <2>2, <2>3, OverType
<1>6. CASE SeeDocument(w)
  BY <1>6 DEF SeeDocument, bomhortVars
<1>7. CASE Verify(w)
  <2>1. doc[w] \in Doc
    BY <1>7 DEF Verify
  <2>2. DOMAIN doc[w].says \subseteq Row
    BY <2>1 DEF Doc, Says
  <2>3. PICK shown : verified' = [verified EXCEPT ![w] = Verification(doc[w].says, shown)]
                     /\ phase' = [phase EXCEPT ![w] =
                          IF Verification(doc[w].says, shown).pending = {} THEN "reported" ELSE "checking"]
    BY <1>7 DEF Verify
  <2>4. Verification(doc[w].says, shown) \in [applied : SUBSET Row, overridden : SUBSET Row,
                                              pending : SUBSET Row]
    <3> HIDE DEF TriageInv, TriageTypeOK, Past, Built
    <3> QED BY <2>2 DEF Verification
  <2> QED BY <1>7, <2>1, <2>3, <2>4 DEF Verify, bomhortVars
<1>8. CASE Leave(w)
  BY <1>8, OverType DEF Leave, bomhortVars
<1> QED BY <1>1, <1>2, <1>3, <1>4, <1>5, <1>6, <1>7, <1>8 DEF Run

\* What is past stays past.
LEMMA StillPast ==
  ASSUME TriageInv
  PROVE  /\ now + 1 \in Nat
         /\ \A i \in Id : \A s \in said[i] : s.at <= now + 1
         /\ \A d \in inbox : d.at <= now + 1
         /\ \A w \in Runner : doc[w].at <= now + 1
<1>1. /\ now \in Nat /\ said \in [Id -> SUBSET Writing] /\ inbox \subseteq Doc
      /\ doc \in [Runner -> Doc \cup {NoDoc}] /\ Past
  BY DEF TriageInv, TriageTypeOK
<1>2. \A i \in Id : \A s \in said[i] : s.at \in Nat /\ s.at <= now
  BY <1>1 DEF Writing, Past
<1>3. \A d \in inbox : d.at \in Nat /\ d.at <= now
  BY <1>1 DEF Doc, Past
<1>4. \A w \in Runner : doc[w].at \in Nat /\ doc[w].at <= now
  BY <1>1 DEF Doc, NoDoc, Past
<1> QED BY <1>1, <1>2, <1>3, <1>4

\* A moment is not after itself.
LEMMA NotAfterItself == \A n \in Nat : n <= n
  OBVIOUS

\* A person's statement keeps types and times.
LEMMA SayType ==
  ASSUME TriageInv, NEW i \in Id, NEW status \in Status, NEW tool \in {"manual", ""},
         Say(i, status, tool)
  PROVE  TriageInv'
<1>1. now + 1 \in Nat /\ now + 1 <= now + 1
  BY StillPast, NotAfterItself
<1> DEFINE s == [status |-> status, tool |-> tool, at |-> now + 1]
<1>2. s \in Writing /\ s.at <= now + 1
  <2>1. tool \in Tool
    BY DEF Tool
  <2>2. s \in Writing
    BY <1>1, <2>1 DEF Writing
  <2>3. s.at = now + 1
    OBVIOUS
  <2> QED BY <1>1, <2>2, <2>3, Zenon
<1>3. said' = [said EXCEPT ![i] = @ \cup {s}] /\ now' = now + 1
      /\ UNCHANGED <<gateway, alias, inbox, runVars>>
  BY DEF Say
<1> HIDE DEF s
<1>4. TriageTypeOK'
  BY <1>1, <1>2, <1>3 DEF TriageInv, TriageTypeOK, runVars
<1>5. Past'
  BY <1>2, <1>3, StillPast DEF TriageInv, TriageTypeOK, Past, runVars
<1>6. Built'
  BY <1>3 DEF TriageInv, Built, runVars
<1> QED BY <1>4, <1>5, <1>6 DEF TriageInv

\* So does a document that is ingested.
LEMMA IngestType ==
  ASSUME TriageInv, NEW d \in inbox, Ingest(d)
  PROVE  TriageInv'
<1> DEFINE new(i) == [status |-> d.says[i], tool |-> "vexviper", at |-> d.at]
<1>1. d \in Doc /\ d.at <= now /\ inbox \subseteq Doc /\ said \in [Id -> SUBSET Writing]
  BY DEF TriageInv, TriageTypeOK, Past
<1>2. d.says \in Says /\ d.at \in Nat
  BY <1>1 DEF Doc
<1>3. PICK S \in SUBSET Row : d.says \in [S -> Status]
  BY <1>2 DEF Says
<1>4. \A i \in DOMAIN d.says : new(i) \in Writing /\ new(i).at <= now
  BY <1>1, <1>2, <1>3 DEF Writing, Tool
<1>5. /\ said' = [i \in Id |-> IF i \in DOMAIN d.says THEN said[i] \cup {new(i)} ELSE said[i]]
      /\ inbox' \subseteq inbox /\ UNCHANGED <<gateway, alias, now, runVars>>
  BY DEF Ingest
<1> HIDE DEF new
<1>6. said' \in [Id -> SUBSET Writing]
  BY <1>1, <1>4, <1>5
<1>7. \A i \in Id : \A t \in said'[i] : t.at <= now
  BY <1>4, <1>5 DEF TriageInv, Past
<1>8. TriageTypeOK' /\ Past' /\ Built'
  BY <1>5, <1>6, <1>7 DEF TriageInv, TriageTypeOK, Past, Built, runVars
<1> QED BY <1>8 DEF TriageInv

LEMMA TriageTypeStep == TriageInv /\ [TriageNext]_triageVars => TriageInv'
<1> SUFFICES ASSUME TriageInv, [TriageNext]_triageVars PROVE TriageInv'
  OBVIOUS
<1>1. CASE UNCHANGED triageVars
  BY <1>1 DEF triageVars, bomhortVars, runVars, TriageInv, TriageTypeOK, Past, Built
<1> QED BY <1>1, RunType, SayType, IngestType DEF TriageNext

\* Listings, findings, documents and reports are what their types say, for any
\* number of runs, statements and documents under way.
THEOREM TriageTypeCorrect == TriageSpec => []TriageTypeOK
<1>1. TriageInv => TriageTypeOK
  BY DEF TriageInv
<1> QED BY <1>1, TriageInitType, TriageTypeStep, PTL DEF TriageSpec

LEMMA TriageAlways == TriageSpec => []TriageInv
BY TriageInitType, TriageTypeStep, PTL DEF TriageSpec

-----------------------------------------------------------------------------
(* The inductive invariant: what a run knows of the rows after loading is  *)
(* what makes its choice right after filtering.                            *)

\* Twins had the same statement in force.
TwinsAgree(w) ==
  Mutual => \A r, s \in Row : Names[r] \cap Names[s] # {} => saw[w][r] = saw[w][s]

\* The findings are told apart, complete, and show what was in force.
LoadedWell(w) ==
  /\ \A f, g \in findings[w] : f # g => Names[f.id] \cap Names[g.id] = {}
  /\ \A r \in Row : \E f \in findings[w] : Names[f.id] \cap Names[r] # {}
  /\ \A r \in Row : saw[w][r].status # "" =>
       \E f \in findings[w] : f.status # "" /\ Names[f.id] \cap Names[r] # {}
  /\ Told => \A f \in findings[w] : f.status = saw[w][f.id].status /\ f.tool = saw[w][f.id].tool
  /\ Mutual => \A f \in findings[w] : saw[w][f.id].status = "" => f.status = ""

\* The choice is as the properties ask.
ChosenWell(w) ==
  /\ \A i, j \in work[w] : i # j => Names[i] \cap Names[j] = {}
  /\ Told /\ ~opts[w].force =>
       \A i \in work[w], r \in Row : i \in Names[r] =>
         ~Signed(saw[w][r]) /\ saw[w][r].status \notin Settled
  /\ Mutual /\ opts[w].only = {} =>
       \A r \in Row : Due(saw[w][r], opts[w]) => \E i \in work[w] : i \in Names[r]

RunWell(w) ==
  /\ phase[w] \in {"idle", "loaded"} => work[w] = {}
  /\ phase[w] = "loaded" => TwinsAgree(w) /\ LoadedWell(w)
  /\ phase[w] \notin {"idle", "loaded"} => ChosenWell(w)

\* A run that keeps its data, or goes on working with it, stays well.
LEMMA Frame ==
  ASSUME NEW w \in Runner, RunWell(w), UNCHANGED <<gateway, alias>>,
         saw'[w] = saw[w], work'[w] = work[w], opts'[w] = opts[w],
         \/ phase'[w] = phase[w] /\ findings'[w] = findings[w]
         \/ phase[w] \notin {"idle", "loaded"} /\ phase'[w] \notin {"idle", "loaded"}
  PROVE  RunWell(w)'
<1>1. Names' = Names /\ Mutual' = Mutual /\ Told' = Told
  BY DEF Names, Mutual, Told
<1>2. TwinsAgree(w)' = TwinsAgree(w) /\ ChosenWell(w)' = ChosenWell(w)
  BY <1>1 DEF TwinsAgree, ChosenWell, Signed, Due
<1>3. findings'[w] = findings[w] => LoadedWell(w)' = LoadedWell(w)
  BY <1>1 DEF LoadedWell
<1> QED BY <1>2, <1>3 DEF RunWell

\* Equal names mean equal statements.
LEMMA SameNames ==
  ASSUME TriageInv, NEW r \in Row, NEW s \in Row, Names[r] = Names[s]
  PROVE  Matching(r) = Matching(s) /\ InForce(r) = InForce(s)
<1>1. Matching(r) = Matching(s)
  BY DEF Matching
<1> QED BY <1>1 DEF InForce

\* Loading leaves the findings as the choice needs them.
LEMMA LoadIsWell ==
  ASSUME TriageInv, NEW w \in Runner, RunWell(w), Load(w)
  PROVE  RunWell(w)'
<1>1. PICK o \in Option : \E found \in Collapsed(Listing, Names) : LoadAs(w, o, found)
  BY DEF Load
<1>2. PICK found \in Collapsed(Listing, Names) : LoadAs(w, o, found)
  BY <1>1
<1>3. Merged(Listing, Names, found) /\ found \subseteq Found
  BY FoundInListing, FindingsType
<1>4. /\ phase'[w] = "loaded" /\ work'[w] = {} /\ findings'[w] = found
      /\ saw'[w] = [r \in Row |-> InForce(r)]
      /\ Names' = Names /\ Mutual' = Mutual /\ Told' = Told
  BY <1>2 DEF LoadAs, bomhortVars, RunWell, TriageInv, TriageTypeOK, Names, Mutual, Told
<1>5. TwinsAgree(w)'
  BY <1>4, SameNames DEF TwinsAgree, Mutual
<1>6. ASSUME NEW f \in found
      PROVE  \E r \in Row : \E s \in Reading :
               /\ f.id \in Row /\ Names[f.id] \cap Names[r] # {}
               /\ f.status = s.status
               /\ gateway = "new" => s = InForce(r) /\ f.tool = s.tool
               /\ Matching(r) = {} => s = Silence
  <2>1. PICK k \in Listing, a \in Listing :
          f = Finding(k, a) /\ (a = k \/ Names[a.id] \cap Names[k.id] # {})
    BY <1>3 DEF Merged
  <2>2. PICK r \in Row, s \in Reading :
          /\ a = RowOf(r, s)
          /\ gateway = "new" => s = InForce(r)
          /\ IF Matching(r) = {} THEN s = Silence ELSE s \in Matching(r)
    BY ListingRows
  <2>3. a.id = r /\ a.status = s.status /\ (gateway = "new" => a.tool = s.tool)
    BY <2>2 DEF RowOf
  <2>4. f.id = k.id /\ f.status = a.status /\ f.tool = a.tool
    BY <2>1 DEF Finding
  <2>5. f.id \in Row
    BY <1>3 DEF Found
  <2>6. Names[f.id] \cap Names[r] # {}
    BY <2>1, <2>3, <2>4, <2>5, NamesType DEF TriageInv
  <2> QED BY <2>2, <2>3, <2>4, <2>5, <2>6
<1>7. \A r \in Row : \E f \in found : Names[f.id] \cap Names[r] # {}
  <2>1. \A r \in Row : RowOf(r, InForce(r)) \in Listing /\ RowOf(r, InForce(r)).id = r
    BY ListingRows DEF RowOf
  <2>2. \A a \in Listing : \E f \in found : Names[f.id] \cap Names[a.id] # {}
    BY <1>3 DEF Merged
  <2> QED BY <2>1, <2>2
<1>8. \A r \in Row : InForce(r).status # "" =>
        \E f \in found : f.status # "" /\ Names[f.id] \cap Names[r] # {}
  <2>1. \A r \in Row : /\ RowOf(r, InForce(r)) \in Listing /\ RowOf(r, InForce(r)).id = r
                      /\ RowOf(r, InForce(r)).status = InForce(r).status
    BY ListingRows DEF RowOf
  <2> QED BY <1>3, <2>1 DEF Merged
<1>9. Told => \A f \in found : f.status = InForce(f.id).status /\ f.tool = InForce(f.id).tool
  BY <1>6, SameNames DEF Told, Mutual
<1>10. ASSUME Mutual, NEW f \in found, InForce(f.id).status = ""
       PROVE  f.status = ""
  <2>1. PICK r \in Row : \E s \in Reading :
               /\ f.id \in Row /\ Names[f.id] \cap Names[r] # {}
               /\ f.status = s.status
               /\ Matching(r) = {} => s = Silence
    BY <1>6
  <2>2. Matching(f.id) = {}
    BY <1>10, <2>1, SilenceMeansNothing
  <2>3. Matching(r) = {}
    BY <1>10, <2>1, <2>2, SameNames DEF Mutual
  <2>4. Silence.status = ""
    BY DEF Silence
  <2> QED BY <2>1, <2>3, <2>4
<1>11. \A f \in found : f.id \in Row
  BY <1>3 DEF Found
<1>12. LoadedWell(w)'
  BY <1>3, <1>4, <1>7, <1>8, <1>9, <1>10, <1>11 DEF LoadedWell, Merged
<1> QED BY <1>4, <1>5, <1>12 DEF RunWell

\* A verdict without a status is nobody's.
LEMMA OpenIsSilent ==
  ASSUME NEW s \in Reading, s.status = ""
  PROVE  ~Signed(s) /\ s.status \notin Settled
<1>1. s = Silence
  BY StatusAssumption DEF Reading, Writing
<1> QED BY <1>1 DEF Silence, Signed, Settled

\* Filtering turns what is known of the findings into the right choice.
LEMMA FilterIsWell ==
  ASSUME TriageInv, NEW w \in Runner, RunWell(w), Filter(w)
  PROVE  RunWell(w)'
<1>1. /\ TwinsAgree(w) /\ LoadedWell(w)
      /\ findings[w] \subseteq Found /\ saw[w] \in [Row -> Reading]
  BY DEF Filter, RunWell, TriageInv, TriageTypeOK
<1> DEFINE fs == findings[w]
           o  == opts[w]
<1>2. PICK cutoff \in 0 .. now + 1, listed \in BOOLEAN :
        work' = [work EXCEPT ![w] = {f.id : f \in {g \in fs : Wanted(g, o, cutoff, listed)}}]
  BY DEF Filter
<1> DEFINE chosen == {f.id : f \in {g \in fs : Wanted(g, o, cutoff, listed)}}
<1>3. /\ work'[w] = chosen /\ phase'[w] = "assess"
      /\ saw' = saw /\ opts' = opts
      /\ Names' = Names /\ Mutual' = Mutual /\ Told' = Told
  BY <1>2 DEF Filter, bomhortVars, TriageInv, TriageTypeOK, Names, Mutual, Told
<1>4. \A f \in fs : f.id \in Row /\ f.id \in Names[f.id]
  BY <1>1, NamesType DEF TriageInv, Found
<1>5. \A i \in chosen : \E f \in fs : i = f.id /\ Wanted(f, o, cutoff, listed)
  OBVIOUS
<1>6. \A f \in fs : Wanted(f, o, cutoff, listed) => f.id \in chosen
  OBVIOUS
<1> HIDE DEF chosen
<1>7. ASSUME NEW i \in chosen, NEW j \in chosen, i # j
      PROVE  Names[i] \cap Names[j] = {}
  <2>1. PICK f \in fs : i = f.id
    BY <1>5
  <2>2. PICK g \in fs : j = g.id
    BY <1>5
  <2> QED BY <1>1, <1>7, <2>1, <2>2 DEF LoadedWell
<1>8. ASSUME Told, ~o.force, NEW i \in chosen, NEW r \in Row, i \in Names[r]
      PROVE  ~Signed(saw[w][r]) /\ saw[w][r].status \notin Settled
  <2>1. PICK f \in fs : i = f.id /\ Wanted(f, o, cutoff, listed)
    BY <1>5
  <2>2. saw[w][r] = saw[w][i] /\ saw[w][i] \in Reading
    BY <1>1, <1>4, <1>8, <2>1 DEF TwinsAgree, Told
  <2>3. f.status = saw[w][i].status /\ f.tool = saw[w][i].tool
    BY <1>1, <1>8, <2>1 DEF LoadedWell
  <2>4. CASE f.status = ""
    BY <2>2, <2>3, <2>4, OpenIsSilent
  <2>5. CASE f.status # ""
    <3>1. ~Foreign(f) /\ (f.status \notin Settled \/ Stale(f, cutoff, listed))
      BY <1>8, <2>1, <2>5 DEF Wanted
    <3>2. f.status \notin Settled
      BY <3>1 DEF Stale, Settled, Reassessable
    <3> QED BY <2>2, <2>3, <3>1, <3>2 DEF Foreign, Signed
  <2> QED BY <2>4, <2>5
<1>9. ASSUME Mutual, o.only = {}, NEW r \in Row, Due(saw[w][r], o)
      PROVE  \E i \in chosen : i \in Names[r]
  <2>1. PICK f \in fs : Names[f.id] \cap Names[r] # {}
    BY <1>1 DEF LoadedWell
  <2>2. Names[f.id] = Names[r] /\ saw[w][f.id] = saw[w][r]
    BY <1>1, <1>4, <1>9, <2>1 DEF TwinsAgree, Mutual
  <2>3. Wanted(f, o, cutoff, listed)
    <3>1. CASE saw[w][r].status = ""
      BY <1>1, <1>9, <2>2, <3>1 DEF LoadedWell, Wanted
    <3>2. CASE o.force
      BY <1>9, <3>2 DEF Wanted
    <3>3. CASE /\ gateway = "new" /\ o.regenerate
               /\ saw[w][r].status \notin Settled /\ ~Signed(saw[w][r])
      <4>1. f.status = saw[w][r].status /\ f.tool = saw[w][r].tool
        BY <1>1, <1>9, <2>2, <3>3 DEF LoadedWell, Told
      <4> QED BY <1>9, <3>3, <4>1 DEF Wanted, Foreign, Signed
    <3> QED BY <1>9, <3>1, <3>2, <3>3 DEF Due
  <2> QED BY <1>4, <1>6, <2>2, <2>3
<1>10. ChosenWell(w)'
  <2>1. \A r \in Row : Due(saw[w][r], o)' = Due(saw[w][r], o) /\ Signed(saw[w][r])' = Signed(saw[w][r])
    BY <1>3 DEF Filter, bomhortVars, Due, Signed
  <2> QED BY <1>3, <1>7, <1>8, <1>9, <2>1 DEF ChosenWell
<1> QED BY <1>3, <1>10 DEF RunWell

\* Ending a run leaves nothing to be wrong.
LEMMA OverIsWell ==
  ASSUME TriageInv, NEW w \in Runner, Over(w)
  PROVE  RunWell(w)'
BY DEF Over, RunWell, TriageInv, TriageTypeOK

AllWell == \A w \in Runner : RunWell(w)

LEMMA TriageStep == TriageInv /\ AllWell /\ [TriageNext]_triageVars => AllWell'
<1> SUFFICES ASSUME TriageInv, AllWell, [TriageNext]_triageVars, NEW v \in Runner
             PROVE  RunWell(v)'
  BY DEF AllWell
<1>0. RunWell(v)
  BY DEF AllWell
<1>1. CASE UNCHANGED runVars /\ UNCHANGED <<gateway, alias>>
  BY <1>0, <1>1, Frame DEF runVars
<1>2. ASSUME NEW w \in Runner, Run(w)
      PROVE  RunWell(v)'
  <2>1. UNCHANGED <<gateway, alias>>
    BY <1>2 DEF Run, Load, LoadAs, Filter, Build, Upload, UploadFails, SeeDocument, Verify, Leave,
                bomhortVars
  <2>2. CASE v # w
    <3>1. /\ saw'[v] = saw[v] /\ work'[v] = work[v] /\ opts'[v] = opts[v]
          /\ phase'[v] = phase[v] /\ findings'[v] = findings[v]
      BY <1>2, <2>2 DEF Run, Load, LoadAs, Filter, Build, Upload, UploadFails, SeeDocument, Verify,
                        Leave, Over, bomhortVars, TriageInv, TriageTypeOK
    <3> QED BY <1>0, <2>1, <3>1, Frame
  <2>3. CASE v = w /\ (Load(w) \/ Filter(w))
    BY <1>0, <2>3, LoadIsWell, FilterIsWell
  <2>4. CASE v = w /\ (UploadFails(w) \/ Leave(w))
    BY <2>4, OverIsWell DEF UploadFails, Leave
  <2>5. CASE v = w /\ (Build(w) \/ Upload(w) \/ SeeDocument(w) \/ Verify(w))
    <3>1. /\ saw' = saw /\ work' = work /\ opts' = opts
          /\ phase[w] \notin {"idle", "loaded"} /\ phase'[w] \notin {"idle", "loaded"}
      BY <2>5 DEF Build, Upload, SeeDocument, Verify, bomhortVars, TriageInv, TriageTypeOK
    <3> QED BY <1>0, <2>1, <2>5, <3>1, Frame
  <2> QED BY <1>2, <2>2, <2>3, <2>4, <2>5 DEF Run
<1>3. CASE UNCHANGED triageVars
  BY <1>1, <1>3 DEF triageVars, bomhortVars
<1>4. ASSUME NEW i \in Id, NEW status \in Status, NEW tool \in {"manual", ""}, Say(i, status, tool)
      PROVE  RunWell(v)'
  BY <1>1, <1>4 DEF Say
<1>5. ASSUME NEW d \in inbox, Ingest(d)
      PROVE  RunWell(v)'
  BY <1>1, <1>5 DEF Ingest
<1> QED BY <1>2, <1>3, <1>4, <1>5 DEF TriageNext

LEMMA TriageInitWell == TriageInit => AllWell
BY DEF TriageInit, AllWell, RunWell

LEMMA AlwaysWell == TriageSpec => []AllWell
BY TriageInitWell, TriageStep, TriageAlways, PTL DEF TriageSpec

-----------------------------------------------------------------------------
(* Theorems about the choice.                                              *)

\* A verdict known under any name survives the merging of rows.
THEOREM VerdictsAreNotMergedAway == TriageSpec => []VerdictsSurviveMerging
<1>1. AllWell => VerdictsSurviveMerging
  BY DEF AllWell, RunWell, LoadedWell, VerdictsSurviveMerging
<1> QED BY <1>1, AlwaysWell, PTL

\* A person's verdict in force at loading is not assessed again, short of Force.
THEOREM SignedVerdictsAreLeftAlone == TriageSpec => []SignedVerdictsLeftAlone
<1>1. AllWell => SignedVerdictsLeftAlone
  BY DEF AllWell, RunWell, ChosenWell, SignedVerdictsLeftAlone, Working
<1> QED BY <1>1, AlwaysWell, PTL

\* Neither is one that is settled.
THEOREM SettledVerdictsAlwaysStay == TriageSpec => []SettledVerdictsStay
<1>1. AllWell => SettledVerdictsStay
  BY DEF AllWell, RunWell, ChosenWell, SettledVerdictsStay, Working
<1> QED BY <1>1, AlwaysWell, PTL

\* Twins are assessed once, however one-sided the aliases.
THEOREM TwinsAreAssessedOnce == TriageSpec => []TwinsAssessedOnce
<1>1. TriageInv /\ AllWell => TwinsAssessedOnce
  <2> SUFFICES ASSUME TriageInv, AllWell, NEW w \in Runner
               PROVE  \A i, j \in work[w] : i # j => Names[i] \cap Names[j] = {}
    BY DEF TwinsAssessedOnce
  <2>1. CASE phase[w] \in {"idle", "loaded"}
    BY <2>1 DEF AllWell, RunWell
  <2>2. CASE phase[w] \notin {"idle", "loaded"}
    BY <2>2 DEF AllWell, RunWell, ChosenWell
  <2> QED BY <2>1, <2>2
<1> QED BY <1>1, AlwaysWell, TriageAlways, PTL

\* No row that is due is left out.
THEOREM DueRowsAreAlwaysWorked == TriageSpec => []DueRowsAreWorked
<1>1. AllWell => DueRowsAreWorked
  BY DEF AllWell, RunWell, ChosenWell, DueRowsAreWorked, Working
<1> QED BY <1>1, AlwaysWell, PTL

-----------------------------------------------------------------------------
(* Moments: whatever was made at one moment comes from one document or     *)
(* from one person.                                                        *)

Filled(w) == phase[w] \in {"built", "waiting", "checking", "reported"}

\* Documents that may still be ingested or reported on.
Documents == inbox \cup {doc[w] : w \in {v \in Runner : Filled(v)}}

OneDocument == \A d, e \in Documents : d.at = e.at => d = e

OneTool ==
  \A i, j \in Id : \A s \in said[i] : \A t \in said[j] : s.at = t.at => s.tool = t.tool

\* A statement of a document's moment is VEXViper's, and all of the document
\* has been ingested with it.
AllAtOnce ==
  \A d \in Documents : \A i \in Id : \A s \in said[i] : s.at = d.at =>
    /\ s.tool = "vexviper"
    /\ \A j \in DOMAIN d.says : \E t \in said[j] : t.at = d.at

\* No document states anything its run saw signed, short of Force.
Unsigned(d) ==
  d.forced \/ \A i \in DOMAIN d.says, r \in Row : i \in Names[r] => ~Signed(d.saw[r])

MomentInv ==
  /\ OneDocument /\ OneTool /\ AllAtOnce
  /\ Told => \A d \in Documents : Unsigned(d)

LEMMA DocumentTypes ==
  ASSUME TriageInv
  PROVE  /\ \A d \in Documents : d \in Doc /\ d.at \in Nat /\ d.at <= now /\ DOMAIN d.says \subseteq Row
         /\ \A i \in Id : \A s \in said[i] : s \in Writing /\ s.at \in Nat /\ s.at <= now
         /\ now \in Nat
<1>1. ASSUME NEW d \in Documents PROVE d \in Doc /\ d.at <= now
  <2>1. CASE d \in inbox
    BY <2>1 DEF TriageInv, TriageTypeOK, Past
  <2>2. CASE d \notin inbox
    BY <2>2 DEF Documents, Filled, TriageInv, Built, Past
  <2> QED BY <2>1, <2>2
<1>2. \A d \in Documents : d.at \in Nat /\ DOMAIN d.says \subseteq Row
  BY <1>1 DEF Doc, Says
<1>3. \A i \in Id : said[i] \subseteq Writing
  BY DEF TriageInv, TriageTypeOK
<1>4. \A s \in Writing : s.at \in Nat
  BY DEF Writing
<1> QED BY <1>1, <1>2, <1>3, <1>4 DEF TriageInv, TriageTypeOK, Past

LEMMA NotTheNext == \A n, m \in Nat : n <= m => n # m + 1
OBVIOUS

LEMMA MomentInit == TriageInit => MomentInv
<1> SUFFICES ASSUME TriageInit PROVE MomentInv
  OBVIOUS
<1>1. Documents = {} /\ \A i \in Id : said[i] = {}
  BY DEF TriageInit, Documents, Filled
<1> QED BY <1>1 DEF MomentInv, OneDocument, OneTool, AllAtOnce

\* Nothing new is said.
LEMMA MomentKept ==
  ASSUME MomentInv, Documents' \subseteq Documents, UNCHANGED <<said, gateway, alias>>
  PROVE  MomentInv'
<1>1. Names' = Names /\ Told' = Told
  BY DEF Names, Told, Mutual
<1>2. OneDocument'
  BY DEF MomentInv, OneDocument
<1>3. OneTool'
  BY DEF MomentInv, OneTool
<1>4. AllAtOnce'
  BY DEF MomentInv, AllAtOnce
<1>5. Told' => \A d \in Documents' : Unsigned(d)'
  BY <1>1 DEF MomentInv, Unsigned, Signed
<1> QED BY <1>2, <1>3, <1>4, <1>5 DEF MomentInv

\* A new document has a moment of its own, and states what was chosen.
LEMMA MomentBuild ==
  ASSUME TriageInv, AllWell, MomentInv, NEW w \in Runner, Build(w)
  PROVE  MomentInv'
<1>0. PICK answered \in SUBSET work[w] : \E says \in [answered -> Status] :
        doc' = [doc EXCEPT ![w] = [at |-> now + 1, says |-> says,
                                   forced |-> opts[w].force, saw |-> saw[w]]]
  BY DEF Build
<1>1. PICK says \in [answered -> Status] :
        doc' = [doc EXCEPT ![w] = [at |-> now + 1, says |-> says,
                                   forced |-> opts[w].force, saw |-> saw[w]]]
  BY <1>0
<1> DEFINE e == [at |-> now + 1, says |-> says, forced |-> opts[w].force, saw |-> saw[w]]
<1>2. PICK new : new = e
  OBVIOUS
<1>3. /\ new.at = now + 1 /\ DOMAIN new.says = answered /\ new.forced = opts[w].force
      /\ new.saw = saw[w] /\ doc' = [doc EXCEPT ![w] = new]
  BY <1>1, <1>2
<1>4. /\ UNCHANGED <<gateway, alias, said, inbox>> /\ phase[w] = "assess"
      /\ phase' = [phase EXCEPT ![w] = "built"]
      /\ Names' = Names /\ Told' = Told
  BY DEF Build, Names, Told, Mutual
<1>5. Documents' \subseteq Documents \cup {new}
  <2> SUFFICES ASSUME NEW d \in Documents' PROVE d \in Documents \cup {new}
    OBVIOUS
  <2>1. CASE d \in inbox'
    BY <1>4, <2>1 DEF Documents
  <2>2. CASE d \notin inbox'
    <3>1. PICK v \in Runner : d = doc'[v] /\ Filled(v)'
      BY <2>2 DEF Documents
    <3>2. doc \in [Runner -> Doc \cup {NoDoc}] /\ phase \in [Runner -> {"idle", "loaded", "assess", "built", "waiting", "checking", "reported"}]
      BY DEF TriageInv, TriageTypeOK
    <3>3. CASE v = w
      BY <1>3, <3>1, <3>2, <3>3
    <3>4. CASE v # w
      <4>1. d = doc[v] /\ Filled(v)
        BY <1>3, <1>4, <3>1, <3>2, <3>4 DEF Filled
      <4> QED BY <4>1 DEF Documents
    <3> QED BY <3>3, <3>4
  <2> QED BY <2>1, <2>2
<1>6. /\ \A d \in Documents : d.at # new.at
      /\ \A i \in Id : \A s \in said[i] : s.at # new.at
  <2>1. now \in Nat /\ \A n \in Nat : n <= now => n # now + 1
    BY DocumentTypes, NotTheNext
  <2> QED BY <1>3, <2>1, DocumentTypes
<1>7. Told => Unsigned(new)
  <2> SUFFICES ASSUME Told, ~opts[w].force, NEW i \in answered, NEW r \in Row, i \in Names[r]
               PROVE  ~Signed(saw[w][r])
    BY <1>3 DEF Unsigned
  <2>1. ChosenWell(w)
    BY <1>4 DEF AllWell, RunWell
  <2> QED BY <2>1 DEF ChosenWell
<1>8. OneDocument'
  BY <1>5, <1>6 DEF MomentInv, OneDocument
<1>9. OneTool'
  BY <1>4 DEF MomentInv, OneTool
<1>10. AllAtOnce'
  <2> SUFFICES ASSUME NEW d \in Documents', NEW i \in Id, NEW s \in said[i], s.at = d.at
               PROVE  /\ s.tool = "vexviper"
                      /\ \A j \in DOMAIN d.says : \E t \in said[j] : t.at = d.at
    BY <1>4 DEF AllAtOnce
  <2>1. d \in Documents
    BY <1>5, <1>6
  <2> QED BY <2>1 DEF MomentInv, AllAtOnce
<1>11. Told' => \A d \in Documents' : Unsigned(d)'
  <2>1. \A d : Unsigned(d)' <=> Unsigned(d)
    BY <1>4 DEF Unsigned, Signed
  <2> QED BY <1>4, <1>5, <1>7, <2>1 DEF MomentInv
<1> QED BY <1>8, <1>9, <1>10, <1>11 DEF MomentInv

\* So has what somebody else says.
LEMMA MomentSay ==
  ASSUME TriageInv, MomentInv, NEW i \in Id, NEW st, NEW who,
         Say(i, st, who)
  PROVE  MomentInv'
<1>1. PICK new : new = [status |-> st, tool |-> who, at |-> now + 1]
  OBVIOUS
<1>2. /\ said' = [said EXCEPT ![i] = @ \cup {new}] /\ new.at = now + 1
      /\ UNCHANGED <<gateway, alias, inbox, phase, doc>>
      /\ said \in [Id -> SUBSET Writing]
  BY <1>1 DEF Say, runVars, TriageInv, TriageTypeOK
<1>3. Names' = Names /\ Told' = Told /\ Documents' = Documents
  BY <1>2 DEF Names, Told, Mutual, Documents, Filled
<1>4. \A j \in Id : \A s \in said'[j] : s \in said[j] \/ s = new
  BY <1>2
<1>5. /\ \A d \in Documents : d.at # new.at
      /\ \A j \in Id : \A s \in said[j] : s.at # new.at
  <2>1. now \in Nat /\ \A n \in Nat : n <= now => n # now + 1
    BY DocumentTypes, NotTheNext
  <2> QED BY <1>2, <2>1, DocumentTypes
<1>6. OneDocument'
  BY <1>3 DEF MomentInv, OneDocument
<1>7. OneTool'
  <2> SUFFICES ASSUME NEW j \in Id, NEW k \in Id, NEW s \in said'[j], NEW t \in said'[k], s.at = t.at
               PROVE  s.tool = t.tool
    BY DEF OneTool
  <2>1. s = new <=> t = new
    BY <1>4, <1>5
  <2>2. CASE s # new
    <3>1. s \in said[j] /\ t \in said[k]
      BY <1>4, <2>1, <2>2
    <3> QED BY <3>1 DEF MomentInv, OneTool
  <2> QED BY <2>1, <2>2
<1>8. AllAtOnce'
  <2> SUFFICES ASSUME NEW d \in Documents, NEW j \in Id, NEW s \in said'[j], s.at = d.at
               PROVE  /\ s.tool = "vexviper"
                      /\ \A k \in DOMAIN d.says : \E t \in said'[k] : t.at = d.at
    BY <1>3 DEF AllAtOnce
  <2>1. s \in said[j]
    BY <1>4, <1>5
  <2>2. s.tool = "vexviper" /\ \A k \in DOMAIN d.says : \E t \in said[k] : t.at = d.at
    BY <2>1 DEF MomentInv, AllAtOnce
  <2>3. \A k \in DOMAIN d.says : k \in Id
    BY DocumentTypes, IdAssumption
  <2>4. \A k \in Id : said[k] \subseteq said'[k]
    BY <1>2
  <2> QED BY <2>2, <2>3, <2>4
<1>9. Told' => \A d \in Documents' : Unsigned(d)'
  <2>1. \A d : Unsigned(d)' <=> Unsigned(d)
    BY <1>3 DEF Unsigned, Signed
  <2> QED BY <1>3, <2>1 DEF MomentInv
<1> QED BY <1>6, <1>7, <1>8, <1>9 DEF MomentInv

\* A document's statements come together.
LEMMA MomentIngest ==
  ASSUME TriageInv, MomentInv, NEW d \in inbox, Ingest(d)
  PROVE  MomentInv'
<1> DEFINE new(i) == [status |-> d.says[i], tool |-> "vexviper", at |-> d.at]
<1>1. /\ d \in Documents /\ Documents' \subseteq Documents
      /\ UNCHANGED <<gateway, alias>> /\ Names' = Names /\ Told' = Told
      /\ \A i \in Id : said'[i] = IF i \in DOMAIN d.says THEN said[i] \cup {new(i)} ELSE said[i]
  BY DEF Ingest, runVars, Documents, Filled, Names, Told, Mutual
<1>2. \A i : new(i).tool = "vexviper" /\ new(i).at = d.at
  OBVIOUS
<1>3. DOMAIN d.says \subseteq Id /\ \A e \in Documents : DOMAIN e.says \subseteq Id
  BY <1>1, DocumentTypes, IdAssumption
<1> HIDE DEF new
<1>4. ASSUME NEW i \in Id, NEW s \in said'[i]
      PROVE  s \in said[i] \/ (s.at = d.at /\ s.tool = "vexviper")
  <2>1. s \in said[i] \/ s = new(i)
    BY <1>1
  <2>2. new(i).at = d.at /\ new(i).tool = "vexviper"
    BY DEF new
  <2> QED BY <2>1, <2>2
<1>5. \A i \in Id : \A s \in said[i] : s.at = d.at => s.tool = "vexviper"
  BY <1>1 DEF MomentInv, AllAtOnce
<1>6. OneDocument'
  BY <1>1 DEF MomentInv, OneDocument
<1>7. OneTool'
  BY <1>4, <1>5 DEF MomentInv, OneTool
<1>8. ASSUME NEW e \in Documents, NEW i \in Id, NEW s \in said'[i], s.at = e.at
      PROVE  /\ s.tool = "vexviper"
             /\ \A j \in DOMAIN e.says : \E t \in said'[j] : t.at = e.at
  <2>1. \A j \in Id : said[j] \subseteq said'[j]
    BY <1>1
  <2>2. CASE s \in said[i]
    BY <1>3, <1>8, <2>1, <2>2 DEF MomentInv, AllAtOnce
  <2>3. CASE s \notin said[i]
    <3>1. s.tool = "vexviper" /\ e = d
      BY <1>1, <1>4, <1>8, <2>3 DEF MomentInv, OneDocument
    <3>2. \A j \in DOMAIN d.says : new(j) \in said'[j]
      BY <1>1, <1>3
    <3> QED BY <1>2, <3>1, <3>2
  <2> QED BY <2>2, <2>3
<1>9. AllAtOnce'
  BY <1>1, <1>8 DEF AllAtOnce
<1>10. Told' => \A e \in Documents' : Unsigned(e)'
  <2>1. \A e : Unsigned(e)' <=> Unsigned(e)
    BY <1>1 DEF Unsigned, Signed
  <2> QED BY <1>1, <2>1 DEF MomentInv
<1> QED BY <1>6, <1>7, <1>9, <1>10 DEF MomentInv

LEMMA DocumentsKept ==
  ASSUME TriageInv, NEW w \in Runner, Run(w), ~Build(w)
  PROVE  Documents' \subseteq Documents /\ UNCHANGED <<said, gateway, alias>>
<1>1. phase \in [Runner -> {"idle", "loaded", "assess", "built", "waiting", "checking", "reported"}]
      /\ doc \in [Runner -> Doc \cup {NoDoc}]
  BY DEF TriageInv, TriageTypeOK
<1>2. UNCHANGED <<said, gateway, alias>>
  BY DEF Run, Load, LoadAs, Filter, Upload, UploadFails, SeeDocument, Verify, Leave, bomhortVars
<1>3. inbox' \subseteq inbox \/ (Filled(w) /\ inbox' \subseteq inbox \cup {doc[w]})
  BY DEF Run, Load, LoadAs, Filter, Upload, UploadFails, SeeDocument, Verify, Leave, bomhortVars, Filled
<1>4. inbox' \subseteq Documents
  BY <1>3 DEF Documents
<1>5. ASSUME NEW v \in Runner, Filled(v)' PROVE doc'[v] = doc[v] /\ Filled(v)
  BY <1>1, <1>5 DEF Run, Load, LoadAs, Filter, Upload, UploadFails, SeeDocument, Verify, Leave, Over, Filled
<1> QED BY <1>2, <1>4, <1>5 DEF Documents

LEMMA MomentStep == TriageInv /\ AllWell /\ MomentInv /\ [TriageNext]_triageVars => MomentInv'
<1> SUFFICES ASSUME TriageInv, AllWell, MomentInv, [TriageNext]_triageVars PROVE MomentInv'
  OBVIOUS
<1>1. ASSUME NEW w \in Runner, Run(w) PROVE MomentInv'
  <2>1. CASE Build(w)
    BY <2>1, MomentBuild
  <2>2. CASE ~Build(w)
    BY <1>1, <2>2, DocumentsKept, MomentKept
  <2> QED BY <2>1, <2>2
<1>2. CASE UNCHANGED triageVars
  <2>1. Documents' = Documents /\ UNCHANGED <<said, gateway, alias>>
    BY <1>2 DEF triageVars, bomhortVars, runVars, Documents, Filled
  <2> QED BY <2>1, MomentKept
<1> QED BY <1>1, <1>2, MomentSay, MomentIngest DEF TriageNext

LEMMA MomentAlways == TriageSpec => [](TriageInv /\ AllWell /\ MomentInv)
<1>1. TriageInit => TriageInv /\ AllWell /\ MomentInv
  BY TriageInitType, TriageInitWell, MomentInit
<1>2. TriageInv /\ AllWell /\ MomentInv /\ [TriageNext]_triageVars => (TriageInv /\ AllWell /\ MomentInv)'
  BY TriageTypeStep, TriageStep, MomentStep
<1> QED BY <1>1, <1>2, PTL DEF TriageSpec

\* No matching statement is newer than the one in force.
LEMMA InForceNewest ==
  ASSUME TriageInv, NEW r \in Row, NEW t \in Matching(r)
  PROVE  t.at <= InForce(r).at
<1>1. \A i \in Names[r] : said[i] \subseteq Writing /\ \A s \in said[i] : s.at <= now
  BY NamesType DEF TriageInv, TriageTypeOK, Past
<1>2. Matching(r) \subseteq Writing /\ \A s \in Matching(r) : s.at <= now
  BY <1>1 DEF Matching
<1>3. \E s \in Matching(r) : \A u \in Matching(r) : u.at <= s.at
  BY <1>2, NewestExists DEF TriageInv, TriageTypeOK
<1> QED BY <1>3 DEF InForce

\* What is reported was looked up after the document was seen.
ReportWell(w) ==
  /\ phase[w] \in {"checking", "reported"} => Listable(doc[w])
  /\ verified[w].applied \cup verified[w].overridden
       \subseteq IF phase[w] \in {"checking", "reported"} THEN DOMAIN doc[w].says ELSE {}

ReportInv == \A w \in Runner : ReportWell(w)

LEMMA ReportInit == TriageInit => ReportInv
BY DEF TriageInit, ReportInv, ReportWell, Unasked

\* A run that keeps its report keeps its reason.
LEMMA ReportKept ==
  ASSUME TriageInv, NEW w \in Runner, ReportWell(w),
         phase'[w] = phase[w], doc'[w] = doc[w], verified'[w] = verified[w],
         \A i \in Id : said[i] \subseteq said'[i]
  PROVE  ReportWell(w)'
<1>1. phase[w] \in {"checking", "reported"} => DOMAIN doc[w].says \subseteq Id
  <2>1. phase[w] \in {"checking", "reported"} => doc[w] \in Documents
    BY DEF Documents, Filled
  <2> QED BY <2>1, DocumentTypes, IdAssumption
<1>2. phase[w] \in {"checking", "reported"} => Listable(doc[w])'
  BY <1>1 DEF ReportWell, Listable
<1> QED BY <1>2 DEF ReportWell

LEMMA ReportRun ==
  ASSUME TriageInv, NEW w \in Runner, ReportWell(w), Run(w)
  PROVE  ReportWell(w)'
<1>0. /\ phase \in [Runner -> {"idle", "loaded", "assess", "built", "waiting", "checking", "reported"}]
      /\ doc \in [Runner -> Doc \cup {NoDoc}]
      /\ verified \in [Runner -> [applied : SUBSET Row, overridden : SUBSET Row, pending : SUBSET Row]]
  BY DEF TriageInv, TriageTypeOK
<1>1. CASE Load(w) \/ Filter(w) \/ Build(w) \/ Upload(w)
  <2>1. /\ phase[w] \notin {"checking", "reported"} /\ phase'[w] \notin {"checking", "reported"}
        /\ verified' = verified
    BY <1>0, <1>1 DEF Load, LoadAs, Filter, Build, Upload
  <2> QED BY <2>1 DEF ReportWell
<1>2. CASE UploadFails(w) \/ Leave(w)
  <2>1. phase'[w] = "idle" /\ verified'[w] = Unasked
    BY <1>0, <1>2 DEF UploadFails, Leave, Over
  <2> QED BY <2>1 DEF ReportWell, Unasked
<1>3. CASE SeeDocument(w)
  <2>1. /\ phase[w] = "waiting" /\ phase'[w] = "checking" /\ Listable(doc[w])
        /\ UNCHANGED <<said, doc, verified>>
    BY <1>0, <1>3 DEF SeeDocument, bomhortVars
  <2>2. Listable(doc[w])'
    BY <2>1 DEF Listable
  <2> QED BY <2>1, <2>2 DEF ReportWell
<1>4. CASE Verify(w)
  <2>1. PICK shown : /\ verified' = [verified EXCEPT ![w] = Verification(doc[w].says, shown)]
                     /\ phase' = [phase EXCEPT ![w] =
                          IF Verification(doc[w].says, shown).pending = {} THEN "reported" ELSE "checking"]
    BY <1>4 DEF Verify
  <2>2. phase[w] = "checking" /\ UNCHANGED <<said, doc>> /\ phase'[w] \in {"checking", "reported"}
    BY <1>0, <1>4, <2>1 DEF Verify, bomhortVars
  <2>3. verified'[w].applied \cup verified'[w].overridden \subseteq DOMAIN doc[w].says
    BY <1>0, <2>1 DEF Verification
  <2>4. Listable(doc[w])'
    BY <2>2 DEF ReportWell, Listable
  <2> QED BY <2>2, <2>3, <2>4 DEF ReportWell
<1> QED BY <1>1, <1>2, <1>3, <1>4 DEF Run

LEMMA ReportStep == TriageInv /\ ReportInv /\ [TriageNext]_triageVars => ReportInv'
<1> SUFFICES ASSUME TriageInv, ReportInv, [TriageNext]_triageVars, NEW v \in Runner
             PROVE  ReportWell(v)'
  BY DEF ReportInv
<1>0. ReportWell(v)
  BY DEF ReportInv
<1>1. CASE UNCHANGED runVars /\ \A i \in Id : said[i] \subseteq said'[i]
  BY <1>0, <1>1, ReportKept DEF runVars
<1>2. ASSUME NEW w \in Runner, Run(w) PROVE ReportWell(v)'
  <2>1. CASE v = w
    BY <1>0, <1>2, <2>1, ReportRun
  <2>2. CASE v # w
    <3>1. phase'[v] = phase[v] /\ doc'[v] = doc[v] /\ verified'[v] = verified[v] /\ said' = said
      BY <1>2, <2>2 DEF Run, Load, LoadAs, Filter, Build, Upload, UploadFails, SeeDocument, Verify,
                        Leave, Over, bomhortVars, TriageInv, TriageTypeOK
    <3> QED BY <1>0, <3>1, ReportKept
  <2> QED BY <2>1, <2>2
<1>3. ASSUME NEW i \in Id, NEW st, NEW who, Say(i, st, who) PROVE ReportWell(v)'
  <2>1. said \in [Id -> SUBSET Writing]
    BY DEF TriageInv, TriageTypeOK
  <2> QED BY <1>1, <1>3, <2>1 DEF Say
<1>4. ASSUME NEW d \in inbox, Ingest(d) PROVE ReportWell(v)'
  BY <1>1, <1>4 DEF Ingest
<1>5. CASE UNCHANGED triageVars
  BY <1>1, <1>5 DEF triageVars, bomhortVars
<1> QED BY <1>2, <1>3, <1>4, <1>5 DEF TriageNext

\* What a run reports after its wait was judged by statements at least as new
\* as its document, for any number of runs, people and documents under way in
\* any order (main.go:202-211, pipeline.go:749-757).
THEOREM ReportIsAlwaysCurrent == TriageSpec => []ReportIsCurrent
<1>1. TriageInv /\ MomentInv /\ ReportInv => ReportIsCurrent
  <2> SUFFICES ASSUME TriageInv, MomentInv, ReportInv, NEW w \in Runner,
                      NEW i \in verified[w].applied \cup verified[w].overridden
               PROVE  InForce(i).at >= doc[w].at
    BY DEF ReportIsCurrent
  <2>1. ReportWell(w)
    BY DEF ReportInv
  <2>2. phase[w] \in {"checking", "reported"} /\ i \in DOMAIN doc[w].says /\ Listable(doc[w])
    BY <2>1 DEF ReportWell
  <2>3. doc[w] \in Documents
    BY <2>2 DEF Documents, Filled
  <2>4. i \in Row /\ \A j \in DOMAIN doc[w].says : j \in Id
    BY <2>2, <2>3, DocumentTypes, IdAssumption
  <2>5. PICK t \in said[i] : t.at = doc[w].at
    BY <2>2, <2>3, <2>4 DEF Listable, MomentInv, AllAtOnce
  <2>6. t \in Matching(i)
    BY <2>4, <2>5, NamesType DEF TriageInv, Matching
  <2>7. t.at <= InForce(i).at
    BY <2>4, <2>6, InForceNewest
  <2>8. InForce(i).at \in Nat /\ doc[w].at \in Nat
    BY <2>3, <2>4, DocumentTypes, InForceType, ReadingFields
  <2> QED BY <2>5, <2>7, <2>8
<1> QED BY <1>1, MomentAlways, ReportInit, ReportStep, PTL DEF TriageSpec

\* What is known of the statement in force, in any state.
InForceOK ==
  \A r \in Row :
    /\ InForce(r) \in Reading /\ InForce(r).at \in Nat
    /\ IF Matching(r) = {} THEN InForce(r) = Silence ELSE InForce(r) \in Matching(r)
    /\ \A t \in Matching(r) : t.at <= InForce(r).at

LEMMA InForceIsOK == TriageInv => InForceOK
<1> SUFFICES ASSUME TriageInv, NEW r \in Row
             PROVE  /\ InForce(r) \in Reading /\ InForce(r).at \in Nat
                    /\ IF Matching(r) = {} THEN InForce(r) = Silence ELSE InForce(r) \in Matching(r)
                    /\ \A t \in Matching(r) : t.at <= InForce(r).at
  BY DEF InForceOK
<1>1. InForce(r) \in Reading
  BY InForceType
<1>2. InForce(r).at \in Nat
  BY <1>1, ReadingFields
<1> QED BY <1>1, <1>2, InForceType, InForceNewest

LEMMA InForceNext == (TriageInv => InForceOK)'
BY InForceIsOK, PTL

LEMMA SilenceIsNobody == Silence.tool # "vexviper" /\ ~Signed(Silence)
BY DEF Silence, Signed

\* Of two statements that were there, the newer is in force before and after,
\* or both are of one moment and then of one tool.
LEMMA OldStays ==
  ASSUME TriageInv, TriageInv', MomentInv, NEW r \in Row,
         Signed(InForce(r)), InForce(r)'.tool = "vexviper",
         Matching(r) \subseteq Matching(r)'
  PROVE  /\ InForce(r) \in Matching(r) /\ InForce(r)' \in Matching(r)'
         /\ InForce(r)' \notin Matching(r)
         /\ InForce(r).at \in Nat /\ InForce(r)'.at \in Nat /\ InForce(r).at <= InForce(r)'.at
<1>1. InForceOK /\ InForceOK'
  BY InForceIsOK, InForceNext
<1>2. PICK old : old = InForce(r)
  OBVIOUS
<1>3. PICK new : new = InForce(r)'
  OBVIOUS
<1>4. /\ IF Matching(r) = {} THEN old = Silence ELSE old \in Matching(r)
      /\ old.at \in Nat /\ \A t \in Matching(r) : t.at <= old.at
  BY <1>1, <1>2 DEF InForceOK
<1>5. /\ IF Matching(r)' = {} THEN new = Silence ELSE new \in Matching(r)'
      /\ new.at \in Nat /\ \A t \in Matching(r)' : t.at <= new.at
  BY <1>1, <1>3 DEF InForceOK, Silence
<1>6. old \in Matching(r) /\ old.tool # "vexviper"
  BY <1>2, <1>4, SilenceIsNobody DEF Signed
<1>7. new \in Matching(r)' /\ new.tool = "vexviper"
  BY <1>3, <1>5, SilenceIsNobody
<1>8. old.at <= new.at
  BY <1>5, <1>6
<1>9. ASSUME new \in Matching(r) PROVE FALSE
  <2>1. new.at = old.at
    BY <1>4, <1>5, <1>8, <1>9
  <2>2. \A s, t \in Matching(r) : s.at = t.at => s.tool = t.tool
    <3>1. Names[r] \subseteq Id
      BY NamesType DEF TriageInv
    <3> QED BY <3>1 DEF Matching, MomentInv, OneTool
  <2> QED BY <1>6, <1>7, <1>9, <2>1, <2>2
<1> QED BY <1>2, <1>3, <1>4, <1>5, <1>6, <1>7, <1>8, <1>9

LEMMA OverruledStep ==
  ASSUME TriageInv, TriageInv', MomentInv, [TriageNext]_triageVars, Told, NEW r \in Row,
         Signed(InForce(r)), InForce(r)'.tool = "vexviper"
  PROVE  \E d \in inbox : /\ d.at = InForce(r)'.at
                          /\ d.forced \/ d.saw[r] # InForce(r)
                          /\ d.at > InForce(r).at
<1>0. said \in [Id -> SUBSET Writing] /\ Names[r] \subseteq Id /\ inbox \subseteq Documents
  BY NamesType DEF TriageInv, TriageTypeOK, Documents
<1>1. ASSUME UNCHANGED <<said, gateway, alias>> PROVE FALSE
  <2>1. InForce(r)' = InForce(r)
    BY <1>1 DEF InForce, Matching, Names
  <2> QED BY <2>1 DEF Signed
<1>2. ASSUME NEW w \in Runner, Run(w) PROVE FALSE
  <2>1. UNCHANGED <<said, gateway, alias>>
    BY <1>2, DocumentsKept DEF Build
  <2> QED BY <1>1, <2>1
<1>3. ASSUME NEW i \in Id, NEW st, NEW who, who # "vexviper", Say(i, st, who) PROVE FALSE
  <2>1. PICK n : n = [status |-> st, tool |-> who, at |-> now + 1]
    OBVIOUS
  <2>2. /\ n.tool = who /\ said' = [said EXCEPT ![i] = @ \cup {n}] /\ Names' = Names
    BY <1>3, <2>1 DEF Say, Names
  <2>3. Matching(r) \subseteq Matching(r)' /\ Matching(r)' \subseteq Matching(r) \cup {n}
    BY <1>0, <2>2 DEF Matching
  <2>4. InForce(r)' = n
    BY <2>3, OldStays
  <2> QED BY <1>3, <2>2, <2>4
<1>4. ASSUME NEW d \in inbox, Ingest(d)
      PROVE  \E e \in inbox : /\ e.at = InForce(r)'.at
                              /\ e.forced \/ e.saw[r] # InForce(r)
                              /\ e.at > InForce(r).at
  <2> DEFINE stated(i) == [status |-> d.says[i], tool |-> "vexviper", at |-> d.at]
  <2>1. /\ Names' = Names
        /\ \A i \in Id : said'[i] = IF i \in DOMAIN d.says THEN said[i] \cup {stated(i)} ELSE said[i]
    BY <1>4 DEF Ingest, Names
  <2>2. \A i : stated(i).at = d.at
    OBVIOUS
  <2> HIDE DEF stated
  <2>3. Matching(r) \subseteq Matching(r)'
    BY <1>0, <2>1 DEF Matching
  <2>4. /\ InForce(r) \in Matching(r) /\ InForce(r)' \in Matching(r)' /\ InForce(r)' \notin Matching(r)
        /\ InForce(r).at \in Nat /\ InForce(r)'.at \in Nat /\ InForce(r).at <= InForce(r)'.at
    BY <2>3, OldStays
  <2>5. PICK i \in Names[r] : InForce(r)' \in said'[i]
    BY <2>1, <2>4 DEF Matching
  <2>6. InForce(r)' \notin said[i]
    BY <2>4 DEF Matching
  <2>7. i \in DOMAIN d.says /\ InForce(r)' = stated(i)
    BY <1>0, <2>1, <2>5, <2>6
  <2>8. InForce(r)'.at = d.at
    BY <2>2, <2>7
  <2>9. InForce(r).at # d.at
    <3>1. PICK j \in Names[r] : InForce(r) \in said[j]
      BY <2>4 DEF Matching
    <3> QED BY <1>0, <3>1 DEF MomentInv, AllAtOnce, Signed
  <2>10. d.forced \/ ~Signed(d.saw[r])
    BY <1>0, <2>5, <2>7 DEF MomentInv, Unsigned
  <2>11. d.at > InForce(r).at
    BY <2>4, <2>8, <2>9
  <2> QED BY <2>8, <2>10, <2>11
<1>5. CASE UNCHANGED triageVars
  BY <1>1, <1>5 DEF triageVars, bomhortVars
<1>6. "manual" # "vexviper" /\ "" # "vexviper"
  OBVIOUS
<1> QED BY <1>2, <1>3, <1>4, <1>5, <1>6 DEF TriageNext

\* A person's verdict in force gives way to VEXViper's only by force or unseen:
\* it was not there when the run loaded its findings, and it is older than the
\* document (pipeline.go:338-345, vexgen.go:77-80).
THEOREM OverruledOnlyWhenUnseen == TriageSpec => OverruledOnlyUnseen
<1>1. TriageInv /\ TriageInv' /\ MomentInv /\ [TriageNext]_triageVars =>
        (Told => \A r \in Row :
           Signed(InForce(r)) /\ InForce(r)'.tool = "vexviper" =>
             \E d \in inbox : /\ d.at = InForce(r)'.at
                              /\ d.forced \/ d.saw[r] # InForce(r)
                              /\ d.at > InForce(r).at)
  BY OverruledStep
<1> QED BY <1>1, MomentAlways, PTL DEF TriageSpec, OverruledOnlyUnseen

-----------------------------------------------------------------------------
(* The loop of LoadSBOM against its description, for every listing.        *)
(* LoadRow is one turn of it; what a sequence of turns leaves is shown by  *)
(* induction on their number, as a least number of turns after which the   *)
(* description does not hold.                                              *)

\* A set of numbers that has 0 and, with each of its members below n, the next
\* one, has n.
LEMMA UpTo ==
  ASSUME NEW n \in Nat, NEW S, 0 \in S, \A k \in 0 .. n - 1 : k \in S => k + 1 \in S
  PROVE  0 .. n \subseteq S
<1> DEFINE T == (0 .. n) \ S
<1> SUFFICES ASSUME T # {} PROVE FALSE
  OBVIOUS
<1>0. T \subseteq Nat
  OBVIOUS
<1>1. \E m \in T : \A k \in T : ~(<<k, m>> \in OpToRel(<, Nat))
  <2> HIDE DEF T
  <2> QED BY <1>0, WFMin, NatLessThanWellFounded, Zenon
<1>2. PICK m \in T : \A k \in T : ~(k < m)
  BY <1>0, <1>1 DEF OpToRel
<1>3. m - 1 \in 0 .. n - 1 /\ m - 1 \in S
  BY <1>2
<1> QED BY <1>3

\* The loop is what its definition says: it starts with nothing and takes a
\* turn for each row.
LEMMA LoopUnfolds ==
  ASSUME NEW rows, NEW names, Len(rows) \in Nat
  PROVE  /\ Loop(rows, names)[0] = [findings |-> << >>, seen |-> << >>]
         /\ \A k \in 1 .. Len(rows) :
              Loop(rows, names)[k] = LoadRow(Loop(rows, names)[k - 1], rows[k], names[rows[k].id])
<1> DEFINE First == [findings |-> << >>, seen |-> << >>]
           Turn(f, k) == IF k = 0 THEN First ELSE LoadRow(f[k - 1], rows[k], names[rows[k].id])
           Upto(n) == \E f : f = [k \in 0 .. n |-> Turn(f, k)]
           S == {n \in Nat : Upto(n)}
<1>1. 0 \in S
  <2>1. [k \in 0 .. 0 |-> First] = [k \in 0 .. 0 |-> Turn([j \in 0 .. 0 |-> First], k)]
    OBVIOUS
  <2> QED BY <2>1
<1>2. ASSUME NEW n \in Nat, n \in S PROVE n + 1 \in S
  <2>1. PICK f : f = [k \in 0 .. n |-> Turn(f, k)]
    BY <1>2
  <2> DEFINE g == [k \in 0 .. n + 1 |-> IF k = n + 1 THEN LoadRow(f[n], rows[n + 1], names[rows[n + 1].id]) ELSE f[k]]
  <2>2. \A k \in 0 .. n : f[k] = Turn(f, k)
    BY <2>1
  <2>3. \A k \in 0 .. n : g[k] = f[k]
    OBVIOUS
  <2>4. \A k \in 0 .. n + 1 : g[k] = Turn(g, k)
    <3> SUFFICES ASSUME NEW k \in 0 .. n + 1 PROVE g[k] = Turn(g, k)
      OBVIOUS
    <3>1. CASE k = 0
      BY <2>2, <3>1
    <3>2. CASE k \in 1 .. n
      BY <2>2, <3>2
    <3>3. CASE k = n + 1
      BY <3>3
    <3> QED BY <3>1, <3>2, <3>3
  <2>5. g = [k \in 0 .. n + 1 |-> Turn(g, k)]
    <3>1. DOMAIN g = 0 .. n + 1 /\ g = [k \in 0 .. n + 1 |-> g[k]]
      OBVIOUS
    <3> HIDE DEF g, Turn
    <3> QED BY <2>4, <3>1
  <2>6. Upto(n + 1)
    <3> HIDE DEF g, Turn
    <3> QED BY <2>5
  <2> QED BY <2>6
<1>3. Upto(Len(rows))
  <2> HIDE DEF S
  <2>1. 0 .. Len(rows) \subseteq S
    BY <1>1, <1>2, UpTo
  <2> QED BY <2>1 DEF S
<1>4. Loop(rows, names) = [k \in 0 .. Len(rows) |-> Turn(Loop(rows, names), k)]
  BY <1>3, Zenon DEF Loop
<1>5. \A k \in 0 .. Len(rows) : Loop(rows, names)[k] = Turn(Loop(rows, names), k)
  BY <1>4
<1> QED BY <1>5

LEMMA LeastExists ==
  ASSUME NEW T \in SUBSET Nat, T # {}
  PROVE  \E m \in T : \A k \in T : m <= k
<1>1. \E m \in T : \A k \in T : ~(<<k, m>> \in OpToRel(<, Nat))
  BY WFMin, NatLessThanWellFounded, Zenon
<1>2. PICK m \in T : \A k \in T : ~(k < m)
  BY <1>1 DEF OpToRel
<1> QED BY <1>2

\* The findings f and the map seen after the rows D are described by the rows K
\* that stayed, the finding of each (at), where the others went (into) and whose
\* verdict each group has (by).
Fits(f, seen, D, ids, K, at, into, by) ==
  /\ at \in [K -> DOMAIN f] /\ \A n \in DOMAIN f : \E k \in K : at[k] = n
  /\ \A k, l \in K : at[k] = at[l] => k = l
  /\ \A k \in K : f[at[k]] = Finding(k, by[k])
  /\ \A k \in K : \A x \in ids[k.id] : x \in DOMAIN seen /\ seen[x] = at[k]
  /\ \A x \in DOMAIN seen : \E k \in K : x \in ids[k.id]
  /\ \A k, l \in K : k # l => ~Twins(k, l, ids)
  /\ into \in [D \ K -> K] /\ \A d \in D \ K : Twins(d, into[d], ids)
  /\ by \in [K -> D] /\ \A k \in K : by[k] \in Deciders(k, into)

Fit(f, seen, D, ids) == \E K \in SUBSET D : \E at, into, by : Fits(f, seen, D, ids, K, at, into, by)

Described(s, D, ids) ==
  /\ s = [findings |-> s.findings, seen |-> s.seen]
  /\ Fit(s.findings, s.seen, D, ids)

\* What a turn does with a row, by its names instead of its list: the row becomes
\* a finding, or goes to the finding x, if it has a verdict and that has none.
Becomes(s, t, r, own) ==
  /\ own \cap DOMAIN s.seen = {}
  /\ t = [findings |-> Append(s.findings, r),
          seen |-> [x \in DOMAIN s.seen \cup own |-> IF x \in own THEN Len(s.findings) + 1 ELSE s.seen[x]]]

GoesTo(s, t, r, x) ==
  t = IF r.status = "" \/ s.findings[s.seen[x]].status # "" THEN s
      ELSE [s EXCEPT !.findings[s.seen[x]] = [r EXCEPT !.id = s.findings[s.seen[x]].id]]

LEMMA LoadRowByNames ==
  ASSUME NEW s, NEW r, NEW list, NEW own, DOMAIN list \subseteq Nat, own = {list[n] : n \in DOMAIN list}
  PROVE  \/ Becomes(s, LoadRow(s, r, list), r, own)
         \/ \E x \in own \cap DOMAIN s.seen : GoesTo(s, LoadRow(s, r, list), r, x)
<1> DEFINE known == {n \in DOMAIN list : list[n] \in DOMAIN s.seen}
<1>1. CASE known = {}
  <2>1. own \cap DOMAIN s.seen = {}
    BY <1>1
  <2> QED BY <1>1, <2>1 DEF LoadRow, Becomes
<1>2. CASE known # {}
  <2> DEFINE first == CHOOSE n \in known : \A m \in known : n <= m
  <2>1. first \in known
    <3>1. \E n \in known : \A m \in known : n <= m
      BY <1>2, LeastExists
    <3> QED BY <3>1
  <2>2. list[first] \in own \cap DOMAIN s.seen
    <3> DEFINE f == first
    <3>1. f \in known
      BY <2>1
    <3> HIDE DEF f
    <3>2. list[f] \in own \cap DOMAIN s.seen
      BY <3>1
    <3> QED BY <3>2 DEF f
  <2>3. GoesTo(s, LoadRow(s, r, list), r, list[first])
    BY <1>2, Zenon DEF LoadRow, GoesTo
  <2> QED BY <2>2, <2>3, Zenon
<1> QED BY <1>1, <1>2

\* Nothing read is described by nothing kept.
LEMMA NothingDescribed ==
  ASSUME NEW ids
  PROVE  Described([findings |-> << >>, seen |-> << >>], {}, ids)
<1> DEFINE none == [k \in {} |-> 0]
<1>1. Fits(<< >>, << >>, {}, ids, {}, none, none, none)
  BY DEF Fits
<1> QED BY <1>1 DEF Described, Fit

\* A finding has its own id and the verdict of the row that decides.
LEMMA FindingHas ==
  ASSUME NEW k, NEW d
  PROVE  Finding(k, d).id = k.id /\ Finding(k, d).status = d.status
BY DEF Finding

\* R is a set of rows [id, status, tool, at], with each row that merging may make
\* of two of them.
AreRows(R) == \A k, d \in R : k = Finding(k, k) /\ Finding(k, d) \in R

\* A row joins the findings f, which become g, and its names join the map.
Grows(R, f, g, seen, later, r, own) ==
  /\ f \in Seq(R) /\ g \in Seq(R) /\ Len(g) = Len(f) + 1 /\ g[Len(g)] = r /\ \A n \in DOMAIN f : g[n] = f[n]
  /\ DOMAIN later = DOMAIN seen \cup own /\ own \cap DOMAIN seen = {}
  /\ \A x \in DOMAIN later : later[x] = IF x \in own THEN Len(g) ELSE seen[x]

\* A row none of whose names is known stays, as a finding of its own.
LEMMA RowStays ==
  ASSUME NEW R, AreRows(R),
         NEW D \in SUBSET R, NEW r \in R, r \notin D, NEW ids,
         NEW f, NEW g, NEW seen, NEW later, Grows(R, f, g, seen, later, r, ids[r.id]),
         NEW K \in SUBSET D, NEW at, NEW into, NEW by, Fits(f, seen, D, ids, K, at, into, by)
  PROVE  Fit(g, later, D \cup {r}, ids)
<1> DEFINE L == K \cup {r}
           at2 == [k \in L |-> IF k = r THEN Len(g) ELSE at[k]]
           by2 == [k \in L |-> IF k = r THEN r ELSE by[k]]
<1>1. /\ at \in [K -> DOMAIN f] /\ \A n \in DOMAIN f : \E k \in K : at[k] = n
      /\ \A k, l \in K : at[k] = at[l] => k = l
  BY DEF Fits
<1>2. \A k \in K : f[at[k]] = Finding(k, by[k])
  BY DEF Fits
<1>3. /\ \A k \in K : \A x \in ids[k.id] : x \in DOMAIN seen /\ seen[x] = at[k]
      /\ \A x \in DOMAIN seen : \E k \in K : x \in ids[k.id]
  BY DEF Fits
<1>4. /\ \A k, l \in K : k # l => ~Twins(k, l, ids)
      /\ into \in [D \ K -> K] /\ \A d \in D \ K : Twins(d, into[d], ids)
  BY DEF Fits
<1>5. by \in [K -> D] /\ \A k \in K : by[k] \in Deciders(k, into)
  BY DEF Fits
<1>0. /\ f \in Seq(R) /\ g \in Seq(R) /\ Len(g) = Len(f) + 1 /\ g[Len(g)] = r /\ \A n \in DOMAIN f : g[n] = f[n]
      /\ DOMAIN later = DOMAIN seen \cup ids[r.id] /\ ids[r.id] \cap DOMAIN seen = {}
      /\ \A x \in DOMAIN later : later[x] = IF x \in ids[r.id] THEN Len(g) ELSE seen[x]
  BY DEF Grows
<1>6. r \notin K /\ (D \cup {r}) \ L = D \ K /\ L \in SUBSET (D \cup {r})
  OBVIOUS
<1>7. DOMAIN f = 1 .. Len(f) /\ DOMAIN g = 1 .. Len(g) /\ Len(f) \in Nat
  BY <1>0
<1>8. /\ at2 \in [L -> DOMAIN g] /\ \A n \in DOMAIN g : \E k \in L : at2[k] = n
      /\ \A k, l \in L : at2[k] = at2[l] => k = l
  <2>1. at2[r] = Len(g) /\ \A k \in K : at2[k] = at[k] /\ at[k] \in 1 .. Len(f)
    BY <1>0, <1>1, <1>6, <1>7
  <2>2. at2 \in [L -> DOMAIN g]
    <3>1. \A k \in L : at2[k] \in 1 .. Len(g)
      BY <1>0, <1>7, <2>1
    <3> QED BY <1>7, <3>1
  <2>3. \A n \in DOMAIN g : \E k \in L : at2[k] = n
    <3> HIDE DEF at2
    <3>1. \A n \in 1 .. Len(f) : \E k \in L : at2[k] = n
      BY <1>0, <1>1, <1>7, <2>1
    <3>2. \A n \in 1 .. Len(g) : n \in 1 .. Len(f) \/ n = Len(g)
      BY <1>0, <1>7
    <3> QED BY <1>7, <2>1, <3>1, <3>2
  <2>4. \A k, l \in L : at2[k] = at2[l] => k = l
    <3> HIDE DEF at2
    <3> QED BY <1>0, <1>1, <1>7, <2>1
  <2> QED BY <2>2, <2>3, <2>4
<1>9. \A k \in L : g[at2[k]] = Finding(k, by2[k])
  <2>1. r = Finding(r, r)
    BY DEF AreRows
  <2> QED BY <2>1, <1>0, <1>1, <1>2, <1>6
<1>10. \A k \in L : \A x \in ids[k.id] : x \in DOMAIN later /\ later[x] = at2[k]
  BY <1>0, <1>3, <1>6
<1>11. \A x \in DOMAIN later : \E k \in L : x \in ids[k.id]
  BY <1>0, <1>3
<1>12. \A k, l \in L : k # l => ~Twins(k, l, ids)
  <2>1. \A k \in K : ids[r.id] \cap ids[k.id] = {}
    BY <1>0, <1>3
  <2> QED BY <1>4, <2>1 DEF Twins
<1>13. into \in [(D \cup {r}) \ L -> L] /\ \A d \in (D \cup {r}) \ L : Twins(d, into[d], ids)
  BY <1>4, <1>6
<1>14. by2 \in [L -> D \cup {r}] /\ \A k \in L : by2[k] \in Deciders(k, into)
  <2>1. r \in Deciders(r, into)
    <3>1. {a \in DOMAIN into : into[a] = r /\ a.status # ""} = {}
      BY <1>4, <1>6
    <3> QED BY <3>1, Zenon DEF Deciders
  <2> QED BY <1>5, <1>6, <2>1
<1>15. Fits(g, later, D \cup {r}, ids, L, at2, into, by2)
  <2> HIDE DEF L, at2, by2
  <2> QED BY <1>8, <1>9, <1>10, <1>11, <1>12, <1>13, <1>14, Zenon DEF Fits
<1> QED BY <1>6, <1>15, Zenon DEF Fit

\* A row with a known name goes to the finding k0 that the name points to and,
\* if it has a verdict and the finding has none, decides it.
LEMMA RowJoins ==
  ASSUME NEW D, NEW r, r \notin D, NEW ids,
         NEW f, NEW g, DOMAIN g = DOMAIN f, NEW seen, NEW K \in SUBSET D, NEW at, NEW into, NEW by,
         Fits(f, seen, D, ids, K, at, into, by),
         NEW k0 \in K, Twins(r, k0, ids), \A n \in DOMAIN f : n # at[k0] => g[n] = f[n],
         IF r.status = "" \/ f[at[k0]].status # "" THEN g[at[k0]] = f[at[k0]] ELSE g[at[k0]] = Finding(k0, r)
  PROVE  \E into2, by2 : Fits(g, seen, D \cup {r}, ids, K, at, into2, by2)
<1> DEFINE into2 == [d \in (D \cup {r}) \ K |-> IF d = r THEN k0 ELSE into[d]]
           wins == ~(r.status = "" \/ f[at[k0]].status # "")
           by2 == [k \in K |-> IF k = k0 /\ wins THEN r ELSE by[k]]
<1>1. /\ at \in [K -> DOMAIN f] /\ \A n \in DOMAIN f : \E k \in K : at[k] = n
      /\ \A k, l \in K : at[k] = at[l] => k = l
  BY DEF Fits
<1>2. \A k \in K : f[at[k]] = Finding(k, by[k])
  BY DEF Fits
<1>3. /\ \A k \in K : \A x \in ids[k.id] : x \in DOMAIN seen /\ seen[x] = at[k]
      /\ \A x \in DOMAIN seen : \E k \in K : x \in ids[k.id]
  BY DEF Fits
<1>4. /\ \A k, l \in K : k # l => ~Twins(k, l, ids)
      /\ into \in [D \ K -> K] /\ \A d \in D \ K : Twins(d, into[d], ids)
  BY DEF Fits
<1>5. by \in [K -> D] /\ \A k \in K : by[k] \in Deciders(k, into)
  BY DEF Fits
<1>6. r \notin K /\ (D \cup {r}) \ K = (D \ K) \cup {r}
  OBVIOUS
<1>7. into2 \in [(D \cup {r}) \ K -> K] /\ \A d \in (D \cup {r}) \ K : Twins(d, into2[d], ids)
  <2>1. \A d \in (D \cup {r}) \ K : into2[d] \in K /\ Twins(d, into2[d], ids)
    BY <1>4, <1>6
  <2> QED BY <2>1
<1>8. DOMAIN into = D \ K /\ DOMAIN into2 = (D \ K) \cup {r} /\ into2[r] = k0 /\ \A d \in D \ K : into2[d] = into[d]
  BY <1>4, <1>6
<1>9. f[at[k0]].status = by[k0].status
  <2>1. f[at[k0]] = Finding(k0, by[k0])
    BY <1>2, Zenon
  <2>2. Finding(k0, by[k0]).status = by[k0].status
    BY FindingHas, Zenon
  <2> QED BY <2>1, <2>2, Zenon
<1>10. by2 \in [K -> D \cup {r}] /\ \A k \in K : by2[k] = IF k = k0 /\ wins THEN r ELSE by[k]
  BY <1>5
<1>11. \A k \in K : g[at[k]] = Finding(k, by2[k])
  <2> HIDE DEF by2
  <2>1. \A k \in K : k # k0 => g[at[k]] = Finding(k, by2[k])
    BY <1>1, <1>2, <1>10
  <2>2. g[at[k0]] = Finding(k0, by2[k0])
    BY <1>2, <1>10
  <2> QED BY <2>1, <2>2
<1>12. \A k \in K : by2[k] \in Deciders(k, into2)
  <2> HIDE DEF into2, by2
  <2>1. \A k \in K : k # k0 => Deciders(k, into2) = Deciders(k, into)
    BY <1>6, <1>8 DEF Deciders
  <2>2. by2[k0] \in Deciders(k0, into2)
    <3> DEFINE old == {a \in D \ K : into[a] = k0 /\ a.status # ""}
               new == {a \in (D \ K) \cup {r} : into2[a] = k0 /\ a.status # ""}
    <3>1. /\ by[k0] \in (IF k0.status # "" \/ old = {} THEN {k0} ELSE old)
          /\ Deciders(k0, into2) = IF k0.status # "" \/ new = {} THEN {k0} ELSE new
      BY <1>5, <1>8 DEF Deciders
    <3>2. new = IF r.status # "" THEN old \cup {r} ELSE old
      BY <1>6, <1>8
    <3>3. CASE wins
      <4>1. by2[k0] = r /\ r.status # "" /\ by[k0].status = ""
        BY <1>9, <1>10, <3>3
      <4>2. k0.status = ""
        BY <3>1, <4>1
      <4> QED BY <3>1, <3>2, <4>1, <4>2
    <3>4. CASE ~wins
      <4>1. by2[k0] = by[k0] /\ (r.status = "" \/ by[k0].status # "")
        BY <1>9, <1>10, <3>4
      <4> HIDE DEF wins
      <4> QED BY <3>1, <3>2, <4>1
    <3> QED BY <3>3, <3>4
  <2> QED BY <1>5, <1>10, <2>1, <2>2
<1>13. at \in [K -> DOMAIN g] /\ \A n \in DOMAIN g : \E k \in K : at[k] = n
  BY <1>1
<1>14. Fits(g, seen, D \cup {r}, ids, K, at, into2, by2)
  <2> HIDE DEF into2, by2, wins
  <2> QED BY <1>1, <1>3, <1>4, <1>7, <1>10, <1>11, <1>12, <1>13, Zenon DEF Fits
<1> QED BY <1>14, Zenon

\* A turn keeps the description.
LEMMA TurnKeepsDescription ==
  ASSUME NEW R, AreRows(R), NEW D \in SUBSET R, NEW ids, NEW r \in R, r \notin D,
         NEW list, DOMAIN list \subseteq Nat, ids[r.id] = {list[n] : n \in DOMAIN list},
         NEW s, s.findings \in Seq(R), Described(s, D, ids)
  PROVE  /\ Described(LoadRow(s, r, list), D \cup {r}, ids)
         /\ LoadRow(s, r, list).findings \in Seq(R)
<1> DEFINE own == ids[r.id]
           t == LoadRow(s, r, list)
<1>1. s = [findings |-> s.findings, seen |-> s.seen]
  BY DEF Described, Fit
<1>2a. PICK K \in SUBSET D : \E at, into, by : Fits(s.findings, s.seen, D, ids, K, at, into, by)
  BY DEF Described, Fit
<1>2. PICK at, into, by : Fits(s.findings, s.seen, D, ids, K, at, into, by)
  BY <1>2a
<1>3. r = Finding(r, r)
  BY DEF AreRows
<1>4. CASE Becomes(s, t, r, own)
  <2>1. t = [findings |-> t.findings, seen |-> t.seen] /\ t.findings = Append(s.findings, r)
        /\ DOMAIN t.seen = DOMAIN s.seen \cup own
        /\ \A x \in DOMAIN t.seen : t.seen[x] = IF x \in own THEN Len(s.findings) + 1 ELSE s.seen[x]
    BY <1>4 DEF Becomes
  <2> HIDE DEF t
  <2>2. /\ t.findings \in Seq(R) /\ Len(t.findings) = Len(s.findings) + 1
        /\ t.findings[Len(t.findings)] = r /\ \A n \in DOMAIN s.findings : t.findings[n] = s.findings[n]
    BY <2>1
  <2>3. Fit(t.findings, t.seen, D \cup {r}, ids)
    <3> DEFINE g == t.findings
               f == s.findings
               later == t.seen
               seen == s.seen
    <3>1. f \in Seq(R) /\ g \in Seq(R) /\ Len(g) = Len(f) + 1 /\ g[Len(g)] = r /\ \A n \in DOMAIN f : g[n] = f[n]
      BY <2>2
    <3>2. /\ DOMAIN later = DOMAIN seen \cup ids[r.id] /\ ids[r.id] \cap DOMAIN seen = {}
          /\ \A x \in DOMAIN later : later[x] = IF x \in ids[r.id] THEN Len(g) ELSE seen[x]
      BY <1>4, <2>1, <2>2 DEF Becomes
    <3>3. Fits(f, seen, D, ids, K, at, into, by)
      BY <1>2
    <3> HIDE DEF g, f, later, seen
    <3>0. Grows(R, f, g, seen, later, r, ids[r.id])
      BY <3>1, <3>2 DEF Grows
    <3>4. Fit(g, later, D \cup {r}, ids)
      BY <3>0, <3>3, RowStays
    <3> QED BY <3>4 DEF g, later
  <2>4. Described(t, D \cup {r}, ids)
    BY <2>1, <2>3, Zenon DEF Described
  <2> QED BY <2>2, <2>4 DEF t
<1>5. ASSUME NEW x \in own \cap DOMAIN s.seen, GoesTo(s, t, r, x)
      PROVE  Described(t, D \cup {r}, ids) /\ t.findings \in Seq(R)
  <2>1. PICK k0 \in K : x \in ids[k0.id] /\ s.seen[x] = at[k0]
    <3>1. /\ \A k \in K : \A y \in ids[k.id] : y \in DOMAIN s.seen /\ s.seen[y] = at[k]
          /\ \A y \in DOMAIN s.seen : \E k \in K : y \in ids[k.id]
      BY <1>2 DEF Fits
    <3> QED BY <3>1
  <2>2. at[k0] \in DOMAIN s.findings /\ s.findings[at[k0]] = Finding(k0, by[k0])
    BY <1>2 DEF Fits
  <2>3. [r EXCEPT !.id = s.findings[at[k0]].id] = Finding(k0, r)
    <3>1. s.findings[at[k0]].id = k0.id
      BY <2>2 DEF Finding
    <3>2. [Finding(r, r) EXCEPT !.id = k0.id] = Finding(k0, r)
      BY DEF Finding
    <3> QED BY <1>3, <3>1, <3>2, Zenon
  <2>4. /\ t = [findings |-> t.findings, seen |-> t.seen] /\ t.seen = s.seen
        /\ DOMAIN t.findings = DOMAIN s.findings /\ t.findings \in Seq(R)
        /\ \A n \in DOMAIN s.findings : n # at[k0] => t.findings[n] = s.findings[n]
        /\ IF r.status = "" \/ s.findings[at[k0]].status # "" THEN t.findings[at[k0]] = s.findings[at[k0]]
           ELSE t.findings[at[k0]] = Finding(k0, r)
    <3>1. CASE r.status = "" \/ s.findings[at[k0]].status # ""
      <4>1. t = s
        BY <1>5, <2>1, <3>1, Zenon DEF GoesTo
      <4> QED BY <1>1, <3>1, <4>1, Zenon
    <3>2. CASE ~(r.status = "" \/ s.findings[at[k0]].status # "")
      <4>1. t = [s EXCEPT !.findings[at[k0]] = Finding(k0, r)]
        BY <1>5, <2>1, <2>3, <3>2, Zenon DEF GoesTo
      <4> DEFINE g == [s.findings EXCEPT ![at[k0]] = Finding(k0, r)]
      <4>2. t = [findings |-> g, seen |-> s.seen]
        BY <1>1, <4>1
      <4>3. DOMAIN g = DOMAIN s.findings /\ g[at[k0]] = Finding(k0, r)
            /\ \A n \in DOMAIN s.findings : n # at[k0] => g[n] = s.findings[n]
        BY <2>2
      <4>4. g \in Seq(R)
        <5>1. Finding(k0, r) \in R
          <6>1. k0 \in R
            OBVIOUS
          <6> QED BY <6>1 DEF AreRows
        <5> DEFINE row == Finding(k0, r)
        <5> HIDE DEF row
        <5>2. row \in R
          BY <5>1 DEF row
        <5>3. [s.findings EXCEPT ![at[k0]] = row] \in Seq(R)
          BY <2>2, <5>2
        <5> QED BY <5>3 DEF row
      <4> HIDE DEF g, t
      <4> QED BY <3>2, <4>2, <4>3, <4>4
    <3> QED BY <3>1, <3>2
  <2>5. Twins(r, k0, ids)
    BY <2>1 DEF Twins
  <2>6. \E into2, by2 : Fits(t.findings, t.seen, D \cup {r}, ids, K, at, into2, by2)
    <3> DEFINE g == t.findings
               f == s.findings
               later == t.seen
    <3>1. /\ DOMAIN g = DOMAIN f /\ \A n \in DOMAIN f : n # at[k0] => g[n] = f[n]
          /\ IF r.status = "" \/ f[at[k0]].status # "" THEN g[at[k0]] = f[at[k0]] ELSE g[at[k0]] = Finding(k0, r)
      BY <2>4
    <3>2. Fits(f, later, D, ids, K, at, into, by)
      BY <1>2, <2>4
    <3> HIDE DEF g, f, later
    <3>3. \E into2, by2 : Fits(g, later, D \cup {r}, ids, K, at, into2, by2)
      BY <2>5, <3>1, <3>2, RowJoins
    <3> QED BY <3>3 DEF g, later
  <2>7. K \in SUBSET (D \cup {r})
    OBVIOUS
  <2> QED
    <3> HIDE DEF t
    <3>1. Described(t, D \cup {r}, ids)
      BY <2>4, <2>6, <2>7, Zenon DEF Described, Fit
    <3> QED BY <2>4, <3>1 DEF t
<1>6. Becomes(s, t, r, own) \/ \E x \in own \cap DOMAIN s.seen : GoesTo(s, t, r, x)
  BY LoadRowByNames, Zenon
<1> QED BY <1>4, <1>5, <1>6, Zenon

NoAliases(D, ids) == \A d \in D : ids[d.id] = {d.id}

\* A row that has come before, in a listing without aliases, changes nothing.
LEMMA TurnAgain ==
  ASSUME NEW D, NEW ids, NEW r \in D, NoAliases(D, ids),
         NEW list, DOMAIN list \subseteq Nat, ids[r.id] = {list[n] : n \in DOMAIN list},
         NEW s, Described(s, D, ids)
  PROVE  LoadRow(s, r, list) = s
<1>1a. PICK K \in SUBSET D : \E at, into, by : Fits(s.findings, s.seen, D, ids, K, at, into, by)
  BY DEF Described, Fit
<1>1. PICK at, into, by : Fits(s.findings, s.seen, D, ids, K, at, into, by)
  BY <1>1a
<1>2. /\ \A k \in K : s.findings[at[k]] = Finding(k, by[k])
      /\ \A k \in K : \A x \in ids[k.id] : x \in DOMAIN s.seen /\ s.seen[x] = at[k]
  BY <1>1 DEF Fits
<1>3. /\ into \in [D \ K -> K] /\ \A d \in D \ K : Twins(d, into[d], ids)
      /\ by \in [K -> D] /\ \A k \in K : by[k] \in Deciders(k, into)
  BY <1>1 DEF Fits
<1>4. PICK k0 \in K : k0 = r \/ (r \in D \ K /\ into[r] = k0)
  BY <1>3
<1>5. k0.id = r.id /\ ids[k0.id] = {r.id} /\ ids[r.id] = {r.id}
  <2>1. ids[k0.id] = {k0.id} /\ ids[r.id] = {r.id}
    BY DEF NoAliases
  <2>2. CASE r \in D \ K /\ into[r] = k0
    <3>1. Twins(r, k0, ids)
      BY <1>3, <2>2
    <3>2. ids[r.id] \cap ids[k0.id] # {}
      BY <3>1, Zenon DEF Twins
    <3> QED BY <2>1, <3>2
  <2> QED BY <1>4, <2>1, <2>2
<1>6. r.id \in DOMAIN s.seen /\ s.seen[r.id] = at[k0] /\ s.findings[at[k0]].status = by[k0].status
  <2>1. s.findings[at[k0]].status = by[k0].status
    <3>1. s.findings[at[k0]] = Finding(k0, by[k0])
      BY <1>2
    <3>2. Finding(k0, by[k0]).status = by[k0].status
      BY FindingHas, Zenon
    <3> QED BY <3>1, <3>2, Zenon
  <2> QED BY <1>2, <1>5, <2>1
<1>7. r.status = "" \/ by[k0].status # ""
  BY <1>3, <1>4 DEF Deciders
<1>8. \E x \in ids[r.id] \cap DOMAIN s.seen : GoesTo(s, LoadRow(s, r, list), r, x)
  <2>1. \/ Becomes(s, LoadRow(s, r, list), r, ids[r.id])
        \/ \E x \in ids[r.id] \cap DOMAIN s.seen : GoesTo(s, LoadRow(s, r, list), r, x)
    BY LoadRowByNames, Zenon
  <2> QED BY <1>5, <1>6, <2>1 DEF Becomes
<1>9. GoesTo(s, LoadRow(s, r, list), r, r.id)
  BY <1>5, <1>8
<1> QED BY <1>6, <1>7, <1>9, Zenon DEF GoesTo

\* A listing with rows in R, whose lists of names have the names ids: one row per
\* vulnerability, or no aliases.
IsListing(rows, R, names, ids) ==
  /\ AreRows(R) /\ rows \in Seq(R)
  /\ \/ \A m, n \in DOMAIN rows : rows[m] = rows[n] => m = n
     \/ \A n \in DOMAIN rows : ids[rows[n].id] = {rows[n].id}
  /\ \A n \in DOMAIN rows : /\ DOMAIN names[rows[n].id] \subseteq Nat
                             /\ ids[rows[n].id] = {names[rows[n].id][m] : m \in DOMAIN names[rows[n].id]}

\* What has been read is a sequence of rows and described, after any number of
\* them.
LEMMA LoopDescribed ==
  ASSUME NEW R, NEW rows, NEW names, NEW ids, IsListing(rows, R, names, ids)
  PROVE  Described(Loop(rows, names)[Len(rows)], {rows[n] : n \in DOMAIN rows}, ids)
<1> DEFINE L == Loop(rows, names)
           Read(k) == {rows[n] : n \in 1 .. k}
           Fine == {k \in 0 .. Len(rows) : L[k].findings \in Seq(R) /\ Described(L[k], Read(k), ids)}
<1>0. AreRows(R) /\ rows \in Seq(R)
  BY Zenon DEF IsListing
<1>1. Len(rows) \in Nat /\ DOMAIN rows = 1 .. Len(rows) /\ \A n \in 1 .. Len(rows) : rows[n] \in R
  BY <1>0
<1>6. \/ \A m, n \in DOMAIN rows : rows[m] = rows[n] => m = n
      \/ \A n \in DOMAIN rows : ids[rows[n].id] = {rows[n].id}
  BY Zenon DEF IsListing
<1>7. \A n \in DOMAIN rows : /\ DOMAIN names[rows[n].id] \subseteq Nat
                              /\ ids[rows[n].id] = {names[rows[n].id][m] : m \in DOMAIN names[rows[n].id]}
  BY Zenon DEF IsListing
<1>2. L[0] = [findings |-> << >>, seen |-> << >>]
      /\ \A k \in 1 .. Len(rows) : L[k] = LoadRow(L[k - 1], rows[k], names[rows[k].id])
  BY <1>1, LoopUnfolds, Zenon
<1> HIDE DEF L
<1>3. 0 \in Fine
  <2>1. Read(0) = {}
    OBVIOUS
  <2>2. L[0].findings \in Seq(R)
    BY <1>2
  <2>3. Described(L[0], Read(0), ids)
    <3> HIDE DEF Read
    <3> QED BY <1>2, <2>1, NothingDescribed
  <2>4. 0 \in 0 .. Len(rows)
    BY <1>1
  <2> HIDE DEF Read
  <2> QED BY <2>2, <2>3, <2>4
<1>4. ASSUME NEW k \in 0 .. Len(rows) - 1, k \in Fine PROVE k + 1 \in Fine
  <2> DEFINE r == rows[k + 1]
             list == names[r.id]
  <2>1. k + 1 \in DOMAIN rows /\ k + 1 \in 1 .. Len(rows) /\ r \in R /\ k + 1 \in 0 .. Len(rows)
    BY <1>1
  <2>2. /\ Read(k) \in SUBSET R
        /\ r \notin Read(k) \/ \A d \in Read(k) : ids[d.id] = {d.id}
        /\ Read(k + 1) = Read(k) \cup {r}
    <3>1. (1 .. (k + 1)) = (1 .. k) \cup {k + 1} /\ k + 1 \notin 1 .. k /\ 1 .. k \subseteq DOMAIN rows
      BY <1>1
    <3>2. Read(k) \in SUBSET R
      BY <1>1, <3>1
    <3>3. Read(k + 1) = Read(k) \cup {r}
      BY <3>1
    <3>4. r \notin Read(k) \/ \A d \in Read(k) : ids[d.id] = {d.id}
      BY <1>6, <2>1, <3>1
    <3> QED BY <3>2, <3>3, <3>4
  <2>3. DOMAIN list \subseteq Nat /\ ids[r.id] = {list[m] : m \in DOMAIN list}
    BY <1>7, <2>1
  <2>4. L[k + 1] = LoadRow(L[k], r, list)
    BY <1>2, <2>1
  <2>5. L[k].findings \in Seq(R) /\ Described(L[k], Read(k), ids)
    BY <1>4
  <2>6. Described(L[k + 1], Read(k + 1), ids) /\ L[k + 1].findings \in Seq(R)
    <3> HIDE DEF Read, r, list
    <3>1. CASE r \notin Read(k)
      <4>1. Described(LoadRow(L[k], r, list), Read(k) \cup {r}, ids) /\ LoadRow(L[k], r, list).findings \in Seq(R)
        BY <1>0, <2>1, <2>2, <2>3, <2>5, <3>1, TurnKeepsDescription
      <4> QED BY <2>2, <2>4, <4>1
    <3>2. CASE r \in Read(k)
      <4>1. NoAliases(Read(k), ids) /\ Described(L[k], Read(k), ids)
        BY <2>2, <2>5, <3>2 DEF NoAliases
      <4>3. LoadRow(L[k], r, list) = L[k]
        BY <2>3, <3>2, <4>1, TurnAgain
      <4>2. Read(k + 1) = Read(k)
        BY <2>2, <3>2
      <4> QED BY <2>4, <2>5, <4>2, <4>3
    <3> QED BY <3>1, <3>2
  <2> HIDE DEF Read
  <2> QED BY <2>1, <2>6
<1>5. Len(rows) \in Fine
  <2> HIDE DEF Fine
  <2>1. 0 .. Len(rows) \subseteq Fine
    BY <1>1, <1>3, <1>4, UpTo
  <2> QED BY <1>1, <2>1
<1> QED BY <1>1, <1>5 DEF L

\* Whatever the listing, in whatever order its rows come and however their names
\* overlap, the loop ends with a set of findings the description allows.
THEOREM LoopIsAlwaysDescribed ==
  ASSUME NEW R, NEW rows, NEW names, NEW ids, IsListing(rows, R, names, ids)
  PROVE  LoadLoop(rows, names) \in Collapsed({rows[n] : n \in DOMAIN rows}, ids)
<1> DEFINE D == {rows[n] : n \in DOMAIN rows}
           f == Loop(rows, names)[Len(rows)].findings
           seen == Loop(rows, names)[Len(rows)].seen
<1>1. \E K \in SUBSET D : \E at, into, by : Fits(f, seen, D, ids, K, at, into, by)
  <2>1. Described(Loop(rows, names)[Len(rows)], D, ids)
    BY LoopDescribed
  <2> QED BY <2>1, Zenon DEF Described, Fit
<1> HIDE DEF D, f, seen
<1>2a. PICK K \in SUBSET D : \E at, into, by : Fits(f, seen, D, ids, K, at, into, by)
  BY <1>1
<1>2. PICK at, into, by : Fits(f, seen, D, ids, K, at, into, by)
  BY <1>2a
<1>3. LoadLoop(rows, names) = {f[n] : n \in DOMAIN f}
  BY Zenon DEF LoadLoop, f
<1>4. at \in [K -> DOMAIN f] /\ (\A n \in DOMAIN f : \E k \in K : at[k] = n) /\ \A k \in K : f[at[k]] = Finding(k, by[k])
  BY <1>2 DEF Fits
<1>5. {f[n] : n \in DOMAIN f} = {Finding(k, by[k]) : k \in K}
  BY <1>4
<1>6. K \in Kept(D, ids)
  <2>1. /\ \A k, l \in K : k # l => ~Twins(k, l, ids)
        /\ into \in [D \ K -> K] /\ \A d \in D \ K : Twins(d, into[d], ids)
    BY <1>2 DEF Fits
  <2>2. \A a \in D : \E b \in K : a = b \/ Twins(a, b, ids)
    BY <2>1
  <2> QED BY <2>1, <2>2, Zenon DEF Kept
<1>7. into \in {t \in [D \ K -> K] : \A a \in D \ K : Twins(a, t[a], ids)}
  BY <1>2 DEF Fits
<1>8. by \in {b \in [K -> D] : \A k \in K : b[k] \in Deciders(k, into)}
  BY <1>2 DEF Fits
<1>9. {Finding(k, by[k]) : k \in K} \in Collapsed(D, ids)
  <2> DEFINE Outcome(b, L) == {Finding(k, b[k]) : k \in L}
             Bys(L, t) == {b \in [L -> D] : \A k \in L : b[k] \in Deciders(k, t)}
             Intos(L) == {t \in [D \ L -> L] : \A a \in D \ L : Twins(a, t[a], ids)}
             Outcomes(L, t) == {Outcome(b, L) : b \in Bys(L, t)}
             All(L) == UNION {Outcomes(L, t) : t \in Intos(L)}
  <2>1. by \in Bys(K, into) /\ into \in Intos(K)
    BY <1>7, <1>8
  <2>2. Collapsed(D, ids) = UNION {All(L) : L \in Kept(D, ids)}
    BY Zenon DEF Collapsed
  <2>3. Outcome(by, K) \in Collapsed(D, ids)
    <3> HIDE DEF Outcome, Bys, Intos
    <3>1. Outcome(by, K) \in Outcomes(K, into)
      BY <2>1, Zenon
    <3> HIDE DEF Outcomes
    <3>2. Outcome(by, K) \in All(K)
      BY <2>1, <3>1, Zenon
    <3> HIDE DEF All
    <3> QED BY <1>6, <2>2, <3>2, Zenon
  <2> QED BY <2>3
<1> QED BY <1>3, <1>5, <1>9 DEF D

\* The findings that source.LoadSBOM makes of what BOMHort shows, in whatever
\* order it lists the rows, are among those the model lets a run load: of an old
\* gateway, which may list a row twice, as of a new one.
THEOREM LoopIsAllowed ==
  ASSUME TriageTypeOK, NEW rows \in Seq(Found), Listing = {rows[n] : n \in DOMAIN rows},
         gateway = "new" => \A m, n \in DOMAIN rows : rows[m] = rows[n] => m = n,
         NEW lists, \A r \in Row : /\ DOMAIN lists[r] \subseteq Nat
                                   /\ Names[r] = {lists[r][m] : m \in DOMAIN lists[r]}
  PROVE  LoadLoop(rows, lists) \in Collapsed(Listing, Names)
<1>1. AreRows(Found)
  <2>1. \A k \in Found : k = Finding(k, k)
    <3> SUFFICES ASSUME NEW k \in Found PROVE k = Finding(k, k)
      OBVIOUS
    <3>1. k = [id |-> k.id, status |-> k.status, tool |-> k.tool, at |-> k.at]
      BY DEF Found
    <3> QED BY <3>1, Zenon DEF Finding
  <2>2. \A k, d \in Found : Finding(k, d) \in Found
    BY DEF Found, Finding
  <2> QED BY <2>1, <2>2, Zenon DEF AreRows
<1>2. \A n \in DOMAIN rows : rows[n].id \in Row
  <2>1. \A n \in DOMAIN rows : rows[n] \in Found
    OBVIOUS
  <2> QED BY <2>1 DEF Found
<1>3. gateway = "new" \/ \A r \in Row : Names[r] = {r}
  BY DEF TriageTypeOK, Names
<1>4. IsListing(rows, Found, lists, Names)
  BY <1>1, <1>2, <1>3 DEF IsListing
<1> QED BY <1>4, LoopIsAlwaysDescribed
=============================================================================
