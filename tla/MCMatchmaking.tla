--------------------------- MODULE MCMatchmaking ---------------------------
\* Instances of Matchmaking for TLC.
EXTENDS MatchLoops, TLC

Asks(number, range) == [key |-> "k", number |-> number, fps |-> 0, range |-> range]

OneToFive == [min |-> 1, max |-> 5]

\* Matches for three, one of them for players in a range, at a frame rate that is
\* the default one by another name; and one for a single player.
ThreePlayers ==
  {Asks(1, AnyValue), Asks(3, AnyValue),
   [Asks(3, OneToFive) EXCEPT !.fps = DefaultFPS]}

\* Everybody's number is in the range.
AllThree == [c \in Clients |-> 3]

Symmetry == Permutations(Clients) \cup Permutations(Users)
=============================================================================
