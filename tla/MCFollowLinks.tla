--------------------------- MODULE MCFollowLinks ---------------------------
EXTENDS FollowLinks

CONSTANTS a, b, c

SixPlaces == {<<a>>, <<b>>, <<c>>, <<a, a>>, <<a, b>>, <<b, a>>}
ThreeIn  == {<<a>>, <<b>>, <<c>>, <<a, a>>, <<a, b>>, <<a, c>>}

Relative(parts) == [rooted |-> FALSE, parts |-> parts]
Rooted(parts)   == [rooted |-> TRUE, parts |-> parts]

\* Files can be reached under c, links can lead to it, and no answer can say so.
OddNames == {c}

AllStarts == {<<a>>, <<a, a>>, <<b, a>>, <<a, b>>, <<a, b, a>>, <<c>>}

\* Texts that climb, if at all, before they name anything.
ClimbFirst ==
  {Relative(<<a>>), Relative(<<b>>), Relative(<<a, b>>), Relative(<<Up, b>>),
   Relative(<<Up>>), Relative(<<c>>), Rooted(<<b, a>>), Rooted(<<Up>>)}

\* One that climbs out of what it has just named.
ClimbLater == {Relative(<<Up, b>>), Relative(<<b, Up, c>>)}

\* The hypothesis of the theorems holds of the first and not of the second.
ASSUME HypothesisAssumption ==
  /\ \A text \in ClimbFirst : ClimbsFirst(text.parts)
  /\ \E text \in ClimbLater : ~ClimbsFirst(text.parts)
=============================================================================
