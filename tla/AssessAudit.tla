----------------------------- MODULE AssessAudit -----------------------------
(***************************************************************************)
(* The assess loop with two history variables that no code keeps: the      *)
(* calls that the provider's last answer cost without being charged, and   *)
(* how often each worker has put each question to the provider.            *)
(***************************************************************************)
EXTENDS Assess

VARIABLES
  unpaid,  \* unpaid[w]: calls behind the answer in hand that were not counted
  asked    \* asked[w][q]: times worker w has asked question q

auditVars == <<assessVars, unpaid, asked>>

AuditInit ==
  /\ AssessInit
  /\ unpaid = [w \in Worker |-> 0]
  /\ asked = [w \in Worker |-> [q \in Question |-> 0]]

AuditAsk(w) ==
  /\ Ask(w)
  /\ asked' = [asked EXCEPT ![w][current[w]] = @ + 1]
  /\ UNCHANGED unpaid

AuditReturn(w, o) ==
  /\ Return(w, o)
  /\ unpaid' = [unpaid EXCEPT ![w] = o.made - o.counted]
  /\ UNCHANGED asked

AuditKeep(w) ==
  /\ Keep(w)
  /\ unpaid' = [unpaid EXCEPT ![w] = 0]
  /\ UNCHANGED asked

\* No other step makes a call.
AuditSilent(Step) == Step /\ UNCHANGED <<unpaid, asked>>

AuditLoop(w) ==
  \/ AuditAsk(w)
  \/ \E o \in Outcome : AuditReturn(w, o)
  \/ \E q \in Question : AuditSilent(Hit(w, q)) \/ AuditSilent(Miss(w, q))
  \/ AuditSilent(Defer(w)) \/ AuditKeep(w) \/ AuditSilent(Build(w))

\* The audit is of a store that keeps its entries: none expires.
AuditNext ==
  \/ \E w \in Worker : AuditLoop(w) \/ AuditSilent(Abort(w)) \/ AuditSilent(End(w))
  \/ \E w \in Worker, qs \in SUBSET Question : AuditSilent(Begin(w, qs))
  \/ AuditSilent(NewPass)

AuditSpec ==
  /\ AuditInit /\ [][AuditNext]_auditVars
  /\ \A w \in Worker : WF_auditVars(AuditLoop(w))

-----------------------------------------------------------------------------
\* With a cache that keeps what is put into it, a question is put to the
\* provider at most once by each worker, in all passes together: a second run
\* of the same worker finds the first one's verdict, whatever the other
\* workers store meanwhile (pipeline.go:397-424, assesscache.go:132-172).
\* There is no better bound: nothing keeps two workers from asking at once.
AskedOncePerWorker ==
  \A w \in Worker, q \in Question : asked[w][q] <= 1

\* Documented: "every attempt counts, including format fallbacks that failed"
\* (openai.go:114-115), so that the meter agrees with what was spent.
EveryAttemptCounts == \A w \in Worker : unpaid[w] = 0

\* Documented: "identical questions are not sent to an LLM twice"
\* (assesscache.go:1-2).
NeverAskedTwice ==
  \A q \in Question, v, w \in Worker :
    asked[v][q] > 0 /\ asked[w][q] > 0 => v = w /\ asked[w][q] = 1
=============================================================================
