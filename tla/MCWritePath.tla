----------------------------- MODULE MCWritePath -----------------------------
EXTENDS WritePath, TLC

\* Requests differ by what they ask only, and so do callers.
WriteSymmetry == Permutations(Requests) \cup Permutations(Callers)
=============================================================================
