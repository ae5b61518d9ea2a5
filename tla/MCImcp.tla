------------------------------- MODULE MCImcp -------------------------------
(* Instances of Imcp for TLC.                                              *)
EXTENDS Imcp, TLC

CONSTANTS m, c1, c2

OneClient  == {c1}
TwoClients == {c1, c2}
AllNodes   == Client \cup {m}
Ids        == Client \X (0 .. MaxRestarts)
Bodies     == AllNodes \X (1 .. MaxSets)

ClientSymmetry == Permutations(Client)
=============================================================================
