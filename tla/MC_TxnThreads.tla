---------------------------- MODULE MC_TxnThreads ----------------------------
EXTENDS TxnThreads, TLC

\* Threads are interchangeable.
MCSymmetry == Permutations(Threads)

=============================================================================
