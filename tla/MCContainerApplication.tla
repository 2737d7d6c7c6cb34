----------------------- MODULE MCContainerApplication -----------------------
EXTENDS ContainerApplication, TLC

CONSTANTS t1, t2, t3

\* The callers are interchangeable; only safety is checked with this symmetry.
ThreadSymmetry == Permutations(Threads)
=============================================================================
