---------------------------- MODULE ImcpStation ----------------------------
(***************************************************************************)
(* One client of imcp/src/lib.rs on a bus about which nothing is assumed:  *)
(* whatever frames the other stations, a second hub or a test put on the   *)
(* wires arrive.  What holds here holds of a client in any composition.    *)
(* It is also where ClientReackAddress runs, which no frame of Imcp calls. *)
(***************************************************************************)
EXTENDS ImcpNode

CONSTANTS
    Station,       \* the client
    Traffic        \* the frames that may arrive

ASSUME StationAssumption ==
    /\ Node = {Station}
    /\ Traffic \subseteq Frame

TypeOK == NodeTypeOK /\ node_type[Station] # "Master"

Init ==
    /\ node_type = [n \in Node |-> "NotReady"]
    /\ node_id = [n \in Node |-> None]
    /\ address = [n \in Node |-> Unassigned]
    /\ pending_frame = [n \in Node |-> None]
    /\ tx_queue = [n \in Node |-> <<>>]
    /\ rx = [n \in Node |-> <<>>]
    /\ halted = {}

Arrive(f) ==
    /\ HasRoom(Station)
    /\ Transmit(f, {Station})
    /\ UNCHANGED <<node_type, node_id, address, pending_frame, tx_queue, halted>>

(* The application joins once; a ready device reports to the hub.          *)
Connect(id) == node_type[Station] = "NotReady" /\ SendJoin(Station, id)

Report(body) ==
    /\ node_type[Station] = "Ready"
    /\ TrySend(Station, Set(MasterAddress, address[Station], body))
    /\ UNCHANGED <<node_type, node_id, address, pending_frame, rx, halted>>

ReadTick ==
    \/ ReadIgnored(Station)
    \/ ReadAck(Station)
    \/ ReadSet(Station)
    \/ ReadPing(Station)
    \/ ClientAdoptAddress(Station)
    \/ ClientReackAddress(Station)
    \/ ClientRefuse(Station)

Next ==
    \/ \E f \in Traffic : Arrive(f)
    \/ \E id \in Id : Connect(id)
    \/ \E body \in Body : Report(body)
    \/ ReadTick
    \/ ClientWriteTick(Station, {})
    \/ ClientRestart(Station)

Spec == Init /\ [][Next]_nodeVars

-----------------------------------------------------------------------------
(* Once it has an address a device keeps it, with the identifier it joined *)
(* with, until it is power-cycled: no assignment, of its own identifier or *)
(* another's, unicast or broadcast, moves it.                              *)
IdentityKept ==
    [][node_type[Station] = "Ready" =>
        \/ node_type'[Station] = "NotReady"
        \/ UNCHANGED <<node_type, node_id, address>>]_nodeVars

(* A device speaks for no other: what it sends, answers queued before it   *)
(* got its address included, is from the unassigned address or its own.    *)
SpeaksForItself ==
    LET Own(f) == f.from \in {Unassigned, address[Station]} IN
    /\ pending_frame[Station] # None => Own(pending_frame[Station])
    /\ \A i \in DOMAIN tx_queue[Station] : Own(tx_queue[Station][i])

(* Why: the address changes only at the end of joining, from the           *)
(* unassigned one, and a power cycle empties the channel.                  *)
UnassignedUntilReady == node_type[Station] # "Ready" => address[Station] = Unassigned

StationInv == TypeOK /\ UnassignedUntilReady /\ SpeaksForItself
=============================================================================
