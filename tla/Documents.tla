------------------------------ MODULE Documents ------------------------------
(***************************************************************************)
(* What is published and where: a commit is the set of documents it        *)
(* changes, a document is told from earlier ones of its product by its     *)
(* number.                                                                 *)
(***************************************************************************)
EXTENDS Naturals, Sequences

CONSTANTS
  Product,   \* products with a document to publish
  FileOf,    \* Document.Filename of each
  BranchOf,  \* its review branch
  Person,    \* author of everything else
  NoDoc,
  Modes      \* how publishing is configured: "direct", "branch", "pr"

File   == {FileOf[p] : p \in Product}
Branch == {BranchOf[p] : p \in Product}
Mode   == {"direct", "branch", "pr"}

Doc    == [file : File, by : Product \cup {Person}, no : Nat]
Commit == SUBSET Doc

ASSUME DocumentAssumption ==
  Person \notin Product /\ NoDoc \notin Doc /\ Modes \subseteq Mode

Docs(commits) == UNION {commits[i] : i \in DOMAIN commits}
=============================================================================
