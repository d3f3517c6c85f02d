-------------------------- MODULE MCRuntimeDispatch --------------------------
EXTENDS RuntimeDispatch, TLC

Symmetry == Permutations(Workers) \cup Permutations(Cleaners)
=============================================================================
