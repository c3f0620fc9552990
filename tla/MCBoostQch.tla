----------------------------- MODULE MCBoostQch -----------------------------
EXTENDS BoostQch, TLC

Symmetry == Permutations(Pages)
=============================================================================
