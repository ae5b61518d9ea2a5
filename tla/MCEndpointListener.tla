------------------------- MODULE MCEndpointListener -------------------------
(* Instances of EndpointListener for TLC.                                  *)
EXTENDS EndpointListener, TLC

CONSTANTS p1, p2, i1, i2

OnePanel    == {p1}
TwoPanels   == {p1, p2}
NoHub       == {}
TwoIds      == {i1, i2}
Bodies      == PanelBody

OnePress   == [p \in Node |-> IF p = p1 THEN 1 ELSE 0]

IdSymmetry  == Permutations(Id)
=============================================================================
