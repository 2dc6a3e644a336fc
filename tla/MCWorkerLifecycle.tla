------------------------- MODULE MCWorkerLifecycle -------------------------
EXTENDS WorkerLifecycle, TLC

\* Job ids and process incarnations are interchangeable.
Symmetry == Permutations(Job) \cup Permutations(Daemon)
=============================================================================
