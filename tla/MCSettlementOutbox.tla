-------------------------- MODULE MCSettlementOutbox --------------------------
EXTENDS SettlementOutbox, TLC

Symmetry == Permutations(Workers)
=============================================================================
