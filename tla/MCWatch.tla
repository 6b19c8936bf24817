------------------------------- MODULE MCWatch -------------------------------
EXTENDS Watch, TLC

Symmetry == Permutations(Worker) \cup Permutations(Question) \cup Permutations(Sbom)
=============================================================================
