------------------------------ MODULE MCRooms ------------------------------
\* Instances of Rooms for TLC.
EXTENDS Rooms, TLC

\* Rooms and accounts are interchangeable, and so are the clients that read on
\* after the server has closed them, and those that do not.
Symmetry ==
  Permutations(LateReaders) \cup Permutations(Clients \ LateReaders)
    \cup Permutations(Users) \cup Permutations(Rooms)
=============================================================================
