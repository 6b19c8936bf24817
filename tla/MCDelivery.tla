------------------------------ MODULE MCDelivery ------------------------------
(* Two products with a file and a branch each; they want one checkout, by   *)
(* name or by commit, or come to share it when the first choice fails.      *)
EXTENDS Delivery

CONSTANTS p, q, name, commit, branch

MCRefKind == [l \in {name, commit, branch} |->
                IF l = name THEN "name" ELSE IF l = commit THEN "commit" ELSE "none"]

MCPlans == {[r \in {p, q} |-> <<name>>],
            [r \in {p, q} |-> IF r = p THEN <<branch, commit>> ELSE << >>]}

MCOwn == [r \in {p, q} |-> r]
=============================================================================
