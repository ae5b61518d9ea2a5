------------------------------ MODULE ImcpNode ------------------------------
(***************************************************************************)
(* One station of the IMCP bus: struct Imcp of imcp/src/lib.rs with its    *)
(* transmit channel, the frames its parser holds, and the handlers that    *)
(* clients and the master share.  A bus is composed from it in Imcp.       *)
(*                                                                         *)
(* A frame is a record; its bytes are the subject of FrameParser.  The     *)
(* parser hands read_tick one frame per call, in the order they came in:   *)
(* rx[n] holds the frames that reached node n and were not read yet.       *)
(***************************************************************************)
EXTENDS Integers, Sequences

CONSTANTS
    Node,          \* the stations on the bus
    Id,            \* the identifiers a client joins with (u32)
    Body,          \* the contents of Set frames
    LastAddress,   \* the last address handed out: 0xFE in the code
    QueueCap,      \* capacity of the transmit channel: 5 in the firmware
    RxCap,         \* frames the receive buffers of a node can hold
    None           \* Option::None

ASSUME NodeAssumption ==
    /\ LastAddress \in Nat /\ LastAddress >= 2
    /\ QueueCap \in Nat \ {0}
    /\ RxCap \in Nat \ {0}

Unassigned    == 0
MasterAddress == 1
FirstAddress  == 2
Broadcast     == LastAddress + 1
Address       == Unassigned .. Broadcast

Ack(to, from, data) ==
    [type |-> "Ack", to |-> to, from |-> from, data |-> data]
Join(to, from, id) ==
    [type |-> "Join", to |-> to, from |-> from, id |-> id]
SetAddress(to, from, a, id) ==
    [type |-> "SetAddress", to |-> to, from |-> from, address |-> a, id |-> id]
Set(to, from, body) ==
    [type |-> "Set", to |-> to, from |-> from, body |-> body]
Ping(to, from) ==
    [type |-> "Ping", to |-> to, from |-> from]
Pong(to, from) ==
    [type |-> "Pong", to |-> to, from |-> from]

Frame ==
    [type : {"Ack"}, to : Address, from : Address, data : Address]
    \cup [type : {"Join"}, to : Address, from : Address, id : Id]
    \cup [type : {"SetAddress"}, to : Address, from : Address,
          address : Address, id : Id]
    \cup [type : {"Set"}, to : Address, from : Address, body : Body]
    \cup [type : {"Ping", "Pong", "Data"}, to : Address, from : Address]

ASSUME NoneAssumption == None \notin Frame

(* Mutant: a Join is sent once.                                            *)
RetainedWithoutJoin == {"SetAddress", "Set"}

(* What write_tick keeps in pending_frame and sends again until an Ack.    *)
Retained == {"SetAddress", "Join", "Set"}

VARIABLES
    node_type,      \* [Node -> {"Master", "NotReady", "Joining", "Ready"}]
    node_id,        \* the identifier of Joining(id) and Ready(id)
    address,        \* the address a node answers to
    pending_frame,  \* the frame write_tick repeats, or None
    tx_queue,       \* the transmit channel
    rx,             \* frames received and not read
    halted          \* nodes whose read_tick awaits room in their own channel

nodeVars == <<node_type, node_id, address, pending_frame, tx_queue, rx, halted>>

NodeTypeOK ==
    /\ node_type \in [Node -> {"Master", "NotReady", "Joining", "Ready"}]
    /\ node_id \in [Node -> Id \cup {None}]
    /\ address \in [Node -> Address]
    /\ pending_frame \in [Node -> Frame \cup {None}]
    /\ tx_queue \in [Node -> Seq(Frame)]
    /\ rx \in [Node -> Seq(Frame)]
    /\ halted \in SUBSET Node

-----------------------------------------------------------------------------
(* The bus.  All stations share one pair of wires: a frame that n sends    *)
(* reaches the nodes in heard; noise, a collision or a full buffer keeps   *)
(* it from the others.  Nothing overtakes and nothing is copied.           *)

HasRoom(m) == Len(rx[m]) < RxCap

Audience(n) == {m \in Node \ {n} : HasRoom(m)}

Transmit(f, heard) ==
    rx' = [m \in Node |-> IF m \in heard THEN Append(rx[m], f) ELSE rx[m]]

(* The end of write_tick: f leaves node n, whose channel keeps rest.       *)
Send(n, f, rest, heard) ==
    /\ pending_frame' = [pending_frame EXCEPT ![n] =
                            IF f.type \in Retained THEN f ELSE None]
    /\ tx_queue' = [tx_queue EXCEPT ![n] = rest]
    /\ Transmit(f, heard)

(* Mutant: the pending frame goes behind what is queued.                   *)
ResendLast(n, heard) ==
    LET q == Append(tx_queue[n], pending_frame[n])
    IN  pending_frame[n] # None /\ Send(n, Head(q), Tail(q), heard)

(* write_tick sends the pending frame again, or else takes the next one.   *)
Resend(n, heard) ==
    /\ pending_frame[n] # None
    /\ Send(n, pending_frame[n], tx_queue[n], heard)

SendNext(n, heard) ==
    /\ pending_frame[n] = None
    /\ tx_queue[n] # <<>>
    /\ Send(n, Head(tx_queue[n]), Tail(tx_queue[n]), heard)

-----------------------------------------------------------------------------
(* tx_sender.send(f).await inside a handler of node n.  The only receiver  *)
(* of the channel is the write_tick of the same node, which cannot run     *)
(* while the handler waits: with a full channel the node stops for good.   *)
QueueFull(n) == Len(tx_queue[n]) >= QueueCap

Enqueue(n, f) ==
    IF QueueFull(n)
      THEN /\ halted' = halted \cup {n}
           /\ UNCHANGED tx_queue
      ELSE /\ tx_queue' = [tx_queue EXCEPT ![n] = Append(@, f)]
           /\ UNCHANGED halted

(* An application task queues f with try_send: a full channel drops it.    *)
TrySend(n, f) ==
    tx_queue' = IF QueueFull(n) THEN tx_queue
                ELSE [tx_queue EXCEPT ![n] = Append(@, f)]

(* read_tick is called by a node that is not waiting in an earlier call.   *)
Reading(n) == n \notin halted /\ rx[n] # <<>>

Incoming(n) == Head(rx[n])

TakeFrame(n) == rx' = [rx EXCEPT ![n] = Tail(@)]

Addressed(n) == Incoming(n).to \in {address[n], Broadcast}

Reads(n, type) ==
    /\ Reading(n)
    /\ TakeFrame(n)
    /\ Addressed(n)
    /\ Incoming(n).type = type

(* Does the incoming Ack settle the pending frame?  It names the address   *)
(* the frame went to, and comes from the node there - for a SetAddress,    *)
(* from the address it assigned.  It does not name the frame.              *)
AckSettles(n) ==
    LET p == pending_frame[n]
        sender == IF p.type = "SetAddress" THEN p.address ELSE p.to
    IN  /\ p # None
        /\ Incoming(n).data = p.to
        /\ p.to # Broadcast => Incoming(n).from = sender

(* Mutant: the answer is sent from the address the frame went to.          *)
AckIncomingFromTarget(n, from) ==
    Enqueue(n, Ack(Incoming(n).from, Incoming(n).to, Incoming(n).to))

(* The answers of read_tick go back to the sender of the incoming frame.   *)
AckIncoming(n, from) ==
    Enqueue(n, Ack(Incoming(n).from, from, Incoming(n).to))

-----------------------------------------------------------------------------
(* The handlers that do not depend on the kind of node.                    *)

(* Not for this node, or nothing to do: Pong and Data are only returned to *)
(* the application, an Ack that settles nothing is dropped or refused.     *)
ReadIgnored(n) ==
    /\ Reading(n)
    /\ TakeFrame(n)
    /\ \/ ~Addressed(n)
       \/ Incoming(n).type \in {"Pong", "Data"}
       \/ Incoming(n).type = "Ack" /\ ~AckSettles(n)
    /\ UNCHANGED <<node_type, node_id, address, pending_frame, tx_queue, halted>>

ReadAck(n) ==
    /\ Reads(n, "Ack")
    /\ AckSettles(n)
    /\ pending_frame' = [pending_frame EXCEPT ![n] = None]
    /\ UNCHANGED <<node_type, node_id, address, tx_queue, halted>>

ReadSet(n) ==
    /\ Reads(n, "Set")
    /\ AckIncoming(n, address[n])
    /\ UNCHANGED <<node_type, node_id, address, pending_frame>>

(* Mutant: a Ping is answered by an Ack.                                   *)
ReadPingAcks(n) ==
    /\ Reads(n, "Ping")
    /\ AckIncoming(n, address[n])
    /\ UNCHANGED <<node_type, node_id, address, pending_frame>>

ReadPing(n) ==
    /\ Reads(n, "Ping")
    /\ Enqueue(n, Pong(Incoming(n).from, address[n]))
    /\ UNCHANGED <<node_type, node_id, address, pending_frame>>

-----------------------------------------------------------------------------
(* The handlers of a client.                                               *)

SendJoin(n, id) ==
    /\ n \notin halted
    /\ node_type[n] # "Master"
    /\ node_type' = [node_type EXCEPT ![n] = "Joining"]
    /\ node_id' = [node_id EXCEPT ![n] = id]
    /\ Enqueue(n, Join(MasterAddress, address[n], id))
    /\ UNCHANGED <<address, pending_frame, rx>>

ClientWriteTick(n, heard) ==
    /\ n \notin halted
    /\ Resend(n, heard) \/ SendNext(n, heard)
    /\ UNCHANGED <<node_type, node_id, address, halted>>

(* Mutant: the client takes an offer without comparing identifiers.        *)
TakeAnyOffer(n) ==
    /\ Reads(n, "SetAddress")
    /\ node_type[n] = "Joining"
    /\ address' = [address EXCEPT ![n] = Incoming(n).address]
    /\ pending_frame' = [pending_frame EXCEPT ![n] = None]
    /\ node_type' = [node_type EXCEPT ![n] = "Ready"]
    /\ UNCHANGED node_id

(* Mutant: a ready client takes another offer.                             *)
TakeOfferAgain(n) ==
    /\ Reads(n, "SetAddress")
    /\ node_type[n] \in {"Joining", "Ready"} /\ Incoming(n).id = node_id[n]
    /\ address' = [address EXCEPT ![n] = Incoming(n).address]
    /\ pending_frame' = [pending_frame EXCEPT ![n] = None]
    /\ node_type' = [node_type EXCEPT ![n] = "Ready"]
    /\ UNCHANGED node_id

(* Mutant: the client is ready before it listens to its address.           *)
TakeOfferNoAddress(n) ==
    /\ Reads(n, "SetAddress")
    /\ node_type[n] = "Joining" /\ Incoming(n).id = node_id[n]
    /\ pending_frame' = [pending_frame EXCEPT ![n] = None]
    /\ node_type' = [node_type EXCEPT ![n] = "Ready"]
    /\ UNCHANGED <<node_id, address>>

(* A joining client takes the address offered to its own identifier.       *)
TakeOffer(n) ==
    /\ Reads(n, "SetAddress")
    /\ node_type[n] = "Joining" /\ Incoming(n).id = node_id[n]
    /\ address' = [address EXCEPT ![n] = Incoming(n).address]
    /\ pending_frame' = [pending_frame EXCEPT ![n] = None]
    /\ node_type' = [node_type EXCEPT ![n] = "Ready"]
    /\ UNCHANGED node_id

ClientAdoptAddress(n) ==
    /\ TakeOffer(n)
    /\ AckIncoming(n, Incoming(n).address)

(* A ready client acknowledges its own assignment again.                   *)
ClientReackAddress(n) ==
    /\ Reads(n, "SetAddress")
    /\ node_type[n] = "Ready"
    /\ Incoming(n).id = node_id[n] /\ Incoming(n).address = address[n]
    /\ AckIncoming(n, address[n])
    /\ UNCHANGED <<node_type, node_id, address, pending_frame>>

(* An assignment for someone else, or for a client that is not joining;    *)
(* a Join, which a client refuses.                                         *)
ClientRefuse(n) ==
    /\ Reading(n)
    /\ TakeFrame(n)
    /\ Addressed(n)
    /\ \/ Incoming(n).type = "Join"
       \/ /\ Incoming(n).type = "SetAddress"
          /\ \/ node_type[n] = "NotReady"
             \/ Incoming(n).id # node_id[n]
             \/ node_type[n] = "Ready" /\ Incoming(n).address # address[n]
    /\ UNCHANGED <<node_type, node_id, address, pending_frame, tx_queue, halted>>

(* The station is power-cycled: a new, unjoined client.                    *)
ClientRestart(n) ==
    /\ node_type' = [node_type EXCEPT ![n] = "NotReady"]
    /\ node_id' = [node_id EXCEPT ![n] = None]
    /\ address' = [address EXCEPT ![n] = Unassigned]
    /\ pending_frame' = [pending_frame EXCEPT ![n] = None]
    /\ tx_queue' = [tx_queue EXCEPT ![n] = <<>>]
    /\ rx' = [rx EXCEPT ![n] = <<>>]
    /\ halted' = halted \ {n}
=============================================================================
