---------------------------- MODULE MCTaskWorkers ----------------------------
EXTENDS TaskWorkers, TLC

\* Jobs and tasks are interchangeable; daemons boot one after the other.
Symmetry == Permutations(Job) \cup Permutations(Task)

=============================================================================
