---------------------------- MODULE MCListeners ----------------------------
\* Instances of Listeners for TLC.
EXTENDS Listeners, TLC

Symmetry == Permutations(Clients)
=============================================================================
