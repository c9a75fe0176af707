----------------------------- MODULE MCOccupancy -----------------------------
EXTENDS Occupancy, TLC

Symmetry == Permutations(Handlers)
=============================================================================
