---------------------------- MODULE MCFrameSync ----------------------------
\* Instances of FrameSync for TLC.
EXTENDS FrameSync, TLC

Symmetry == Permutations(Clients) \cup Permutations(Users) \cup Permutations(Loops)
=============================================================================
