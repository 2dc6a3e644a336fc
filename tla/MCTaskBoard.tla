----------------------------- MODULE MCTaskBoard -----------------------------
EXTENDS TaskBoard, TLC

\* Tasks, workers and plan texts are interchangeable.
Symmetry == Permutations(Task) \cup Permutations(Worker) \cup Permutations(Plan)

=============================================================================
