-------------------------- MODULE MCExitRecursion --------------------------
\* An instance of ExitRecursion for TLC.
EXTENDS ExitRecursion, TLC

\* A room for a negative number of players, and one that its group of three does
\* not fit in.
Numbers == {-1, 3}

Symmetry == Permutations(Clients) \cup Permutations(Users)
=============================================================================
