-------------------------- MODULE MCSafeOrderedMap --------------------------
\* TLC instance of SafeOrderedMap.
EXTENDS SafeOrderedMap, FiniteSets

Symmetry == Permutations(Threads)
=============================================================================
