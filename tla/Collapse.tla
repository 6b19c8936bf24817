------------------------------ MODULE Collapse ------------------------------
(***************************************************************************)
(* How source.LoadSBOM turns the rows of a vulnerability listing into      *)
(* findings (internal/source/source.go): a row that shares a name, its     *)
(* own or an alias, with an earlier finding of the same package is merged  *)
(* into it, and the first row of a group that carries a verdict decides.   *)
(*                                                                         *)
(* A row is [id, status, tool, at]; an id stands for a vulnerability of    *)
(* one package, so that names of different packages are never equal.       *)
(***************************************************************************)
EXTENDS Naturals, Sequences

\* One turn of the loop: a row whose list of names <<VulnID, alias, ...>> has
\* none in the map seen becomes a finding; one that has goes to the finding its
\* first known name points to, and decides its verdict if that has none yet.
LoadRow(prev, row, list) ==
  LET known == {n \in DOMAIN list : list[n] \in DOMAIN prev.seen}
      first == CHOOSE n \in known : \A m \in known : n <= m
      i     == prev.seen[list[first]]
      fresh == {list[n] : n \in DOMAIN list}
  IN IF known = {}
     THEN [findings |-> Append(prev.findings, row),
           seen |-> [x \in DOMAIN prev.seen \cup fresh |->
                       IF x \in fresh THEN Len(prev.findings) + 1 ELSE prev.seen[x]]]
     ELSE IF row.status = "" \/ prev.findings[i].status # "" THEN prev
     ELSE [prev EXCEPT !.findings[i] = [row EXCEPT !.id = prev.findings[i].id]]

\* The findings and the map after each number of rows.
Loop(rows, names) ==
  LET loop[k \in 0 .. Len(rows)] ==
        IF k = 0 THEN [findings |-> << >>, seen |-> << >>]
        ELSE LoadRow(loop[k - 1], rows[k], names[rows[k].id])
  IN loop

\* The findings it ends with; names[id] is the list of a row's names.
LoadLoop(rows, names) ==
  LET done == Loop(rows, names)[Len(rows)].findings
  IN {done[n] : n \in DOMAIN done}

-----------------------------------------------------------------------------
(* The same for rows in an order nobody promises: the rows that stay are a *)
(* largest set without twins, every other row goes to one of its twins     *)
(* among them, and a group has the verdict of the row that stayed or, if   *)
(* that has none, of any other that has one.                               *)

Twins(a, b, ids) == ids[a.id] \cap ids[b.id] # {}

\* Sets of rows without twins to which no row could be added.
Kept(rows, ids) ==
  {K \in SUBSET rows :
     /\ \A a, b \in K : a # b => ~Twins(a, b, ids)
     /\ \A a \in rows : \E b \in K : a = b \/ Twins(a, b, ids)}

\* The rows that may decide the verdict of a row k that stays, when into says
\* where the others have gone.
Deciders(k, into) ==
  LET others == {a \in DOMAIN into : into[a] = k /\ a.status # ""}
  IN IF k.status # "" \/ others = {} THEN {k} ELSE others

Finding(k, row) == [id |-> k.id, status |-> row.status, tool |-> row.tool, at |-> row.at]

\* The sets of findings a listing may become.
Collapsed(rows, ids) ==
  UNION {
    UNION {
      {{Finding(k, by[k]) : k \in K} : by \in {b \in [K -> rows] : \A k \in K : b[k] \in Deciders(k, into)}}
      : into \in {t \in [rows \ K -> K] : \A a \in rows \ K : Twins(a, t[a], ids)}}
    : K \in Kept(rows, ids)}
=============================================================================
