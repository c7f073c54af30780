---------------------------- MODULE MCRoomSteps ----------------------------
\* Instances of RoomSteps for TLC.
EXTENDS RoomSteps, TLC

Symmetry == Permutations(Clients)
=============================================================================
