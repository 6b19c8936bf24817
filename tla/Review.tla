-------------------------------- MODULE Review --------------------------------
(***************************************************************************)
(* What publishing promises, as the people see it who look after the       *)
(* repository: a bot that takes one document after the other and, all at   *)
(* once, puts it on a review branch that then holds nothing else, or at    *)
(* the end of the base; that asks for a review only of what nobody has     *)
(* turned down; and that reports a document as published only where it     *)
(* stands.  There is no working copy, no index, no mutex, no request that  *)
(* fails half-way and no process that dies: Delivery has all of them, and  *)
(* implements this.                                                        *)
(***************************************************************************)
EXTENDS Documents

VARIABLES
  mode,     \* the configuration
  base,     \* the commits of the base branch
  line,     \* the commits of each review branch that the base did not have
  pr,       \* the last pull request of each
  handled,  \* branches people have touched since the bot has last put something there
  rejected, \* documents people have turned down
  people,   \* what people have done so far
  drafts,   \* how many documents there have been of each product
  claims    \* what has been reported as published of each

repoVars   == <<base, line, pr, handled>>
reviewVars == <<mode, repoVars, rejected, people, drafts, claims>>

OnBranch(b) == Docs(line[b])

ReviewTypeOK ==
  /\ mode \in Modes
  /\ base \in Seq(Commit)
  /\ line \in [Branch -> Seq(Commit)]
  /\ pr \in [Branch -> {"none", "open", "closed"}]
  /\ handled \subseteq Branch /\ rejected \subseteq Doc
  /\ people \in Nat /\ drafts \in [Product -> Nat]
  /\ claims \in [Product -> Doc \cup {NoDoc}]

ReviewInit ==
  /\ mode \in Modes
  /\ base = <<{}>>
  /\ line = [b \in Branch |-> << >>]
  /\ pr = [b \in Branch |-> "none"]
  /\ handled = {} /\ rejected = {} /\ people = 0
  /\ drafts = [p \in Product |-> 0]
  /\ claims = [p \in Product |-> NoDoc]

-----------------------------------------------------------------------------
(* The bot.                                                                *)

Latest(p) == [file |-> FileOf[p], by |-> p, no |-> drafts[p]]

\* All documents anybody has seen.
Around == Docs(base) \cup rejected \cup UNION {OnBranch(b) : b \in Branch}

\* The document of a product is where those who look for it find it, or its
\* branch is no longer the bot's, or that product's alone.
Stands(p, d) ==
  \/ d \in Docs(base)
  \/ /\ mode # "direct"
     /\ \/ BranchOf[p] \in handled
        \/ \E q \in Product \ {p} : BranchOf[q] = BranchOf[p]
        \/ d \in OnBranch(BranchOf[p]) /\ (mode = "pr" => pr[BranchOf[p]] = "open")

\* A new document, of a product for which nothing is reported at the time.
Draft(p) ==
  /\ claims[p] = NoDoc
  /\ drafts' = [drafts EXCEPT ![p] = @ + 1]
  /\ UNCHANGED <<mode, repoVars, rejected, people, claims>>

\* It appears at the end of the base, or alone on its branch; no document
\* appears twice.
Publish(p) ==
  /\ claims[p] = NoDoc
  /\ IF mode = "direct"
     THEN base' = Append(base, {Latest(p)}) /\ UNCHANGED <<line, pr, handled>>
     ELSE /\ line' = [line EXCEPT ![BranchOf[p]] = <<{Latest(p)}>>]
          /\ handled' = handled \ {BranchOf[p]}
          /\ UNCHANGED <<base, pr>>
  /\ Latest(p) \notin Around

\* A review is asked for, of nothing that was turned down or merged.
Propose(b) ==
  /\ mode = "pr"
  /\ OnBranch(b) \cap (rejected \cup Docs(base)) = {}
  /\ pr' = [pr EXCEPT ![b] = "open"]
  /\ UNCHANGED <<base, line, handled>>

\* Reports are withdrawn at any time, and made of what stands.
Report ==
  /\ claims' \in [Product -> Doc \cup {NoDoc}]
  /\ \A p \in Product :
       \/ claims'[p] \in {claims[p], NoDoc}
       \/ claims'[p] = Latest(p) /\ Stands(p, Latest(p))'

Bot ==
  /\ UNCHANGED <<mode, rejected, people, drafts>>
  /\ \/ UNCHANGED repoVars
     \/ \E p \in Product : Publish(p)
     \/ \E b \in Branch : Propose(b)
  /\ Report

-----------------------------------------------------------------------------
(* People.                                                                 *)

ByPeople(f) == [file |-> f, by |-> Person, no |-> people]

Merge(b) ==
  /\ pr[b] = "open"
  /\ base' = base \o line[b]
  /\ line' = [line EXCEPT ![b] = << >>]
  /\ pr' = [pr EXCEPT ![b] = "closed"]
  /\ handled' = handled \cup {b}
  /\ UNCHANGED rejected

\* A pull request is closed, which turns its documents down, unless it crosses
\* the bot's asking for it.
Close(b) ==
  /\ pr[b] = "open"
  /\ pr' = [pr EXCEPT ![b] = "closed"]
  /\ \E rest \in {line[b], << >>} : line' = [line EXCEPT ![b] = rest]
  /\ rejected' \in {rejected, rejected \cup OnBranch(b)}
  /\ handled' = handled \cup {b}
  /\ UNCHANGED base

Amend(b) ==
  /\ pr[b] = "open"
  /\ \E f \in File : line' = [line EXCEPT ![b] = Append(@, {ByPeople(f)})]
  /\ handled' = handled \cup {b}
  /\ UNCHANGED <<base, pr, rejected>>

Change(f) ==
  /\ base' = Append(base, {ByPeople(f)})
  /\ UNCHANGED <<line, pr, handled, rejected>>

People ==
  /\ people' = people + 1
  /\ \/ \E b \in Branch : Merge(b) \/ Close(b) \/ Amend(b)
     \/ \E f \in File : Change(f)
  /\ UNCHANGED <<mode, drafts, claims>>

ReviewNext == Bot \/ People \/ \E p \in Product : Draft(p)

ReviewSpec == ReviewInit /\ [][ReviewNext]_reviewVars

-----------------------------------------------------------------------------
(* What follows for the people, whoever implements this.                   *)

\* What was turned down stays out of the base: "a stale branch never
\* resurrects old statements" (gitops.go:103-104).
TurnedDownStaysOut == rejected \cap Docs(base) = {}

\* No document is committed to the base a second time, by a branch that was
\* continued, a push that was repeated or a review that was asked for again.
NothingTwice == \A i, j \in DOMAIN base : i # j => base[i] \cap base[j] = {}

\* Nothing disappears from the base.
BaseOnlyGrows == [][SubSeq(base', 1, Len(base)) = base]_base

\* What is reported as published stands, until it is withdrawn.
ReportsHold == \A p \in Product : claims[p] # NoDoc => Stands(p, claims[p])
=============================================================================
