------------------------------ MODULE MCTriage ------------------------------
EXTENDS Triage, TLC

CONSTANTS r1, r2, c

\* Two rows and a name none of them has: without aliases, twins that list each
\* other, one that lists the other, and two that list the third name.
SmallAliases ==
  {[r \in {r1, r2} |-> {}],
   [r \in {r1, r2} |-> {r1, r2, c} \ {r}],
   [r \in {r1, r2} |-> {r2} \ {r}],
   [r \in {r1, r2} |-> {c}]}

SmallOptions ==
  {[force |-> FALSE, regenerate |-> FALSE, only |-> {}],
   [force |-> FALSE, regenerate |-> TRUE, only |-> {}],
   [force |-> FALSE, regenerate |-> TRUE, only |-> {r1}],
   [force |-> TRUE, regenerate |-> TRUE, only |-> {}]}

-----------------------------------------------------------------------------
(* The loop against its description, for three names.                      *)

\* Lists of one to three names that begin with the row's own.
Lists(i, S) ==
  {<<i>>} \cup {<<i, j>> : j \in S \ {i}}
  \cup {l \in {<<i, j, k>> : j \in S \ {i}, k \in S \ {i}} : l[2] # l[3]}

SmallListings ==
  LET row(i, s) == [id |-> i, status |-> s, tool |-> "", at |-> 0]
  IN {R \in SUBSET {row(i, s) : i \in {1, 2, 3}, s \in {"", "affected", "fixed"}} :
        Cardinality(R) <= 3}

\* Whatever the order of the rows, the loop ends in one of the sets of findings
\* that Collapsed describes (source.go:121-188).
ASSUME LoopIsDescribed ==
  \A names \in [{1, 2, 3} -> Lists(1, 1 .. 3) \cup Lists(2, 1 .. 3) \cup Lists(3, 1 .. 3)] :
    (\A i \in 1 .. 3 : names[i][1] = i) =>
      LET ids == [i \in 1 .. 3 |-> {names[i][n] : n \in 1 .. Len(names[i])}]
      IN \A R \in SmallListings :
           \A order \in [1 .. Cardinality(R) -> R] :
             R = {order[n] : n \in DOMAIN order} => LoadLoop(order, names) \in Collapsed(R, ids)
=============================================================================
