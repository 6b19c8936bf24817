------------------------------ MODULE AuditProof ------------------------------
(***************************************************************************)
(* Proof that a worker never repeats a question while the cache works.     *)
(***************************************************************************)
EXTENDS AssessAudit, AssessProof

AuditTypeOK == asked \in [Worker -> [Question -> Nat]]

\* The store works: reads and writes are on and no write fails.
CacheWorks == CacheOn /\ ~NoCache /\ "write" \notin CacheFaults

\* Why a worker has asked: its answer is stored, or still in its hands; and it
\* only comes to ask what it has not asked before.
AskedIsStored ==
  \A w \in Worker, q \in Question :
    /\ asked[w][q] <= 1
    /\ asked[w][q] = 1 =>
         \/ cache[q] # "absent"
         \/ current[w] = q /\ phase[w] \in {"asking", "answered"}
    /\ phase[w] = "check" /\ current[w] = q => asked[w][q] = 0

AuditInv == LoopInv /\ AuditTypeOK /\ AskedIsStored

\* The history variables only watch: every audited step is one of the loop.
LEMMA AuditImplements == [AuditNext]_auditVars => [AssessNext]_assessVars
  BY DEF AuditNext, auditVars, AuditLoop, AuditSilent, AuditAsk, AuditReturn,
         AuditKeep, AssessNext, Loop

LEMMA AuditStep ==
  ASSUME CacheWorks, AuditInv, [AuditNext]_auditVars
  PROVE  AuditInv'
<1>a. LoopInv'
  BY AuditImplements, LoopInvStep DEF AuditInv
<1>b. AssessTypeOK /\ RunsInOrder /\ AuditTypeOK /\ AskedIsStored
  BY DEF AuditInv, LoopInv
<1> SUFFICES AuditTypeOK' /\ AskedIsStored'
  BY <1>a DEF AuditInv
<1> USE NoneAssumption DEF AuditTypeOK, AskedIsStored, AuditSilent
<1>1. ASSUME NEW w \in Worker, AuditAsk(w) PROVE AuditTypeOK' /\ AskedIsStored'
  <2>1. phase[w] = "check" /\ current[w] \in Question
    BY <1>1, <1>b DEF AuditAsk, Ask, AssessTypeOK, RunsInOrder
  <2>2. asked[w][current[w]] = 0
    BY <2>1, <1>b
  <2> QED BY <1>1, <1>b, <2>1, <2>2 DEF AuditAsk, Ask, AssessTypeOK
<1>2. ASSUME NEW w \in Worker, NEW o \in Outcome, AuditReturn(w, o)
      PROVE  AuditTypeOK' /\ AskedIsStored'
  BY <1>2, <1>b DEF AuditReturn, Return, AssessTypeOK
<1>3. ASSUME NEW w \in Worker, AuditKeep(w) PROVE AuditTypeOK' /\ AskedIsStored'
  <2>1. cache' = [cache EXCEPT ![current[w]] = answer[w]] /\ answer[w] # "absent"
    BY <1>3, <1>b, CacheWorks DEF AuditKeep, Keep, Put, RunsInOrder, CacheWorks
  <2> QED BY <1>3, <1>b, <2>1 DEF AuditKeep, Keep, AssessTypeOK
<1>4. ASSUME NEW w \in Worker, NEW q \in Question, AuditSilent(Miss(w, q))
      PROVE  AuditTypeOK' /\ AskedIsStored'
  <2>1. cache[q] = "absent" /\ phase[w] = "next"
    BY <1>4, CacheWorks DEF Miss, Cached, CacheWorks
  <2>2. asked[w][q] = 0
    <3>1. asked[w][q] \in Nat /\ asked[w][q] <= 1 /\ asked[w][q] # 1
      BY <2>1, <1>b
    <3> QED BY <3>1
  <2>3. /\ UNCHANGED <<cache, asked>>
        /\ current' = [current EXCEPT ![w] = q] /\ phase' = [phase EXCEPT ![w] = "check"]
    BY <1>4 DEF Miss
  <2>4. current \in [Worker -> Question \cup {None}] /\ phase \in [Worker -> Phase]
    BY <1>b DEF AssessTypeOK
  <2>5. \A v \in Worker, p \in Question :
          v # w => current'[v] = current[v] /\ phase'[v] = phase[v]
    BY <2>3, <2>4
  <2>6. current'[w] = q /\ phase'[w] = "check"
    BY <2>3, <2>4
  <2> QED BY <1>b, <2>1, <2>2, <2>3, <2>5, <2>6
<1>5. ASSUME NEW w \in Worker, NEW q \in Question, AuditSilent(Hit(w, q))
      PROVE  AuditTypeOK' /\ AskedIsStored'
  BY <1>5, <1>b DEF Hit
<1>6. ASSUME NEW w \in Worker, AuditSilent(Defer(w)) PROVE AuditTypeOK' /\ AskedIsStored'
  BY <1>6, <1>b DEF Defer, AssessTypeOK
<1>7. ASSUME NEW w \in Worker,
             AuditSilent(Build(w)) \/ AuditSilent(Abort(w)) \/ AuditSilent(End(w))
      PROVE  AuditTypeOK' /\ AskedIsStored'
  <2>1. /\ UNCHANGED <<asked, cache, current>>
        /\ phase[w] \in {"next", "built", "failed"}
        /\ \A v \in Worker \ {w} : phase'[v] = phase[v]
        /\ phase'[w] \in {"built", "failed", "idle"}
    BY <1>7, <1>b DEF Build, Abort, End, Leave, AssessTypeOK
  <2> QED BY <1>b, <2>1
<1>8. ASSUME NEW w \in Worker, NEW qs \in SUBSET Question, AuditSilent(Begin(w, qs))
      PROVE  AuditTypeOK' /\ AskedIsStored'
  BY <1>8, <1>b DEF Begin, AssessTypeOK
<1>9. CASE AuditSilent(NewPass)
  BY <1>9, <1>b DEF NewPass, runVars
<1>10. CASE UNCHANGED auditVars
  BY <1>10, <1>b DEF auditVars, assessVars, runVars
<1> QED BY <1>1, <1>2, <1>3, <1>4, <1>5, <1>6, <1>7, <1>8, <1>9, <1>10
        DEF AuditNext, AuditLoop

\* With a working cache no worker puts a question to the provider twice, in
\* all passes together, however many workers fill the cache beside it.
THEOREM NoWorkerAsksTwice ==
  ASSUME CacheWorks
  PROVE  AuditSpec => []AskedOncePerWorker
<1>1. AuditInit => AuditInv
  BY LoopInit DEF AuditInit, AuditInv, AuditTypeOK, AskedIsStored
<1>2. AuditInv /\ [AuditNext]_auditVars => AuditInv'
  BY AuditStep
<1>3. AuditInv => AskedOncePerWorker
  BY DEF AuditInv, AskedIsStored, AskedOncePerWorker
<1> QED BY <1>1, <1>2, <1>3, PTL DEF AuditSpec
=============================================================================
