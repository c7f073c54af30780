---------------------------- MODULE MCUserStates ----------------------------
\* Instances of UserStates for TLC.
EXTENDS UserStates, TLC

Symmetry == Permutations(Clients)
=============================================================================
