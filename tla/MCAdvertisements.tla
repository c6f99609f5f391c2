-------------------------- MODULE MCAdvertisements --------------------------
\* TLC instance of Advertisements.
EXTENDS Advertisements

Symmetry == Permutations(Users) \cup Permutations(AdvIds) \cup Permutations(Requests)
=============================================================================
