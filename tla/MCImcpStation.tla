--------------------------- MODULE MCImcpStation ---------------------------
(* One client; the frames come from the hub or from a peer, and go to the  *)
(* unassigned address, to one of the two it may get, or to all.            *)
EXTENDS ImcpStation

CONSTANTS s, id1, id2, body1

TheNode   == {s}
TheIds    == {id1, id2}
TheBodies == {body1}

HubOrPeer == {f \in Frame :
    f.type # "Data" /\ f.from \in {MasterAddress, FirstAddress} /\ f.to # MasterAddress}
=============================================================================
