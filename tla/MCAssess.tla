------------------------------ MODULE MCAssess ------------------------------
EXTENDS AssessAudit, TLC

\* Workers are interchangeable, and so are questions; only for safety runs.
Symmetry == Permutations(Worker) \cup Permutations(Question)
=============================================================================
