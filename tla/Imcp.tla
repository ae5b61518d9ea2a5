-------------------------------- MODULE Imcp --------------------------------
(***************************************************************************)
(* The IMCP protocol of imcp/src/lib.rs: one master and the clients that   *)
(* join it over a shared bus that loses frames, with the applications that *)
(* put Set frames into the transmit channels, and power cycles.            *)
(***************************************************************************)
EXTENDS ImcpNode

CONSTANTS
    Client,        \* the devices
    Master,        \* the hub
    MaxRetries,    \* MAX_SET_ADDRESS_RETRIES: 3 in the code
    MaxRestarts,   \* bound: power cycles of each node
    MaxSets        \* bound: frames each application submits

ASSUME ImcpAssumption ==
    /\ Master \notin Client
    /\ Node = Client \cup {Master}
    /\ MaxRetries \in Nat \ {0} /\ MaxRestarts \in Nat /\ MaxSets \in Nat
    /\ Id = Client \X (0 .. MaxRestarts)
    /\ Body = Node \X (1 .. MaxSets)

Assignment == [id : Id, address : Address]

ASSUME NoAssignmentAssumption == None \notin Assignment

VARIABLES
    next_address,           \* MasterState
    pending_assignment,
    retries,                \* pending_assignment_retries
    restarts,               \* power cycles so far, of each node
    sent,                   \* frames submitted so far by each application
    (* History: not part of the program, only for the properties.          *)
    grants,                 \* assignments ever put into a SetAddress
    forgotten,              \* addresses offered whose assignment was given up
    seen,                   \* seen[m][n]: last Set of n handed over at m
    repeated,               \* nodes one of whose Sets was handed over twice
    acked                   \* acked[n]: last unicast Set of n settled by an Ack

masterVars  == <<next_address, pending_assignment, retries>>
historyVars == <<grants, forgotten, seen, repeated, acked>>
vars == <<nodeVars, masterVars, restarts, sent, historyVars>>

TypeOK ==
    /\ NodeTypeOK
    /\ \A n \in Node : node_type[n] = "Master" <=> n = Master
    /\ next_address \in FirstAddress .. Broadcast
    /\ pending_assignment \in Assignment \cup {None}
    /\ retries \in 0 .. MaxRetries
    /\ restarts \in [Node -> 0 .. MaxRestarts]
    /\ sent \in [Node -> 0 .. MaxSets]
    /\ grants \in SUBSET Assignment
    /\ forgotten \in SUBSET Address
    /\ seen \in [Node -> [Node -> 0 .. MaxSets]]
    /\ repeated \in SUBSET Node
    /\ acked \in [Node -> 0 .. MaxSets]

Init ==
    /\ node_type = [n \in Node |-> IF n = Master THEN "Master" ELSE "NotReady"]
    /\ node_id = [n \in Node |-> None]
    /\ address = [n \in Node |-> IF n = Master THEN MasterAddress ELSE Unassigned]
    /\ pending_frame = [n \in Node |-> None]
    /\ tx_queue = [n \in Node |-> <<>>]
    /\ rx = [n \in Node |-> <<>>]
    /\ halted = {}
    /\ next_address = FirstAddress
    /\ pending_assignment = None
    /\ retries = 0
    /\ restarts = [n \in Node |-> 0]
    /\ sent = [n \in Node |-> 0]
    /\ grants = {}
    /\ forgotten = {}
    /\ seen = [m \in Node |-> [n \in Node |-> 0]]
    /\ repeated = {}
    /\ acked = [n \in Node |-> 0]

-----------------------------------------------------------------------------
(* Writing.                                                                *)

(* The next frame of the master is the SetAddress it has sent often enough *)
GivesUp ==
    LET f == IF pending_frame[Master] # None THEN pending_frame[Master]
             ELSE Head(tx_queue[Master])
    IN  f.type = "SetAddress" /\ retries >= MaxRetries

(* write_tick of the master counts the transmissions of a SetAddress.      *)
MasterSend(heard) ==
    /\ Resend(Master, heard) \/ SendNext(Master, heard)
    /\ ~GivesUp
    /\ retries' = IF pending_frame'[Master] # None
                     /\ pending_frame'[Master].type = "SetAddress"
                  THEN retries + 1 ELSE retries
    /\ UNCHANGED <<next_address, pending_assignment, forgotten>>

(* Mutant: the frame is dropped and the assignment stays pending.          *)
MasterGiveUpFrameOnly(heard) ==
    /\ pending_frame[Master] # None
    /\ GivesUp
    /\ heard = {}
    /\ pending_frame' = [pending_frame EXCEPT ![Master] = None]
    /\ retries' = 0
    /\ UNCHANGED <<next_address, pending_assignment, forgotten, tx_queue, rx>>

(* After the last one it drops the frame and the assignment, and goes on   *)
(* with the next frame; with an empty channel it waits for one.            *)
MasterGiveUp(heard) ==
    LET rest == IF pending_frame[Master] # None THEN tx_queue[Master]
                ELSE Tail(tx_queue[Master])
    IN  /\ pending_frame[Master] # None \/ tx_queue[Master] # <<>>
        /\ GivesUp
        /\ pending_assignment' = None
        /\ forgotten' = IF pending_assignment = None THEN forgotten
                        ELSE forgotten \cup {pending_assignment.address}
        /\ UNCHANGED next_address
        /\ IF rest = <<>>
             THEN /\ heard = {}
                  /\ pending_frame' = [pending_frame EXCEPT ![Master] = None]
                  /\ tx_queue' = [tx_queue EXCEPT ![Master] = <<>>]
                  /\ retries' = 0
                  /\ UNCHANGED rx
             ELSE /\ Send(Master, Head(rest), Tail(rest), heard)
                  /\ retries' = IF Head(rest).type = "SetAddress" THEN 1 ELSE 0

MasterWriteTick(heard) ==
    /\ Master \notin halted
    /\ MasterSend(heard) \/ MasterGiveUp(heard)
    /\ UNCHANGED <<node_type, node_id, address, halted>>
    /\ UNCHANGED <<restarts, sent, grants, seen, repeated, acked>>

WriteTick(c, heard) ==
    /\ ClientWriteTick(c, heard)
    /\ UNCHANGED <<masterVars, restarts, sent, historyVars>>

-----------------------------------------------------------------------------
(* Reading: what any node does with a frame, and the books kept of it.     *)

Ignore(n) ==
    /\ ReadIgnored(n)
    /\ UNCHANGED <<masterVars, restarts, sent, historyVars>>

(* Mutant: the allocator stays where it is.                                *)
AcknowledgedNoAdvance(n) ==
    LET p == pending_frame[n] IN
    /\ ReadAck(n)
    /\ IF n = Master /\ p.type = "SetAddress"
         THEN /\ pending_assignment' = None
              /\ retries' = 0
              /\ UNCHANGED next_address
         ELSE UNCHANGED masterVars
    /\ acked' = IF p.type = "Set" /\ p.to # Broadcast
                THEN [acked EXCEPT ![n] = p.body[2]] ELSE acked
    /\ UNCHANGED <<restarts, sent, grants, forgotten, seen, repeated>>

(* The Ack of its SetAddress ends an assignment of the master, and moves   *)
(* its allocator on; at LastAddress the pool is exhausted.                 *)
Acknowledged(n) ==
    LET p == pending_frame[n] IN
    /\ ReadAck(n)
    /\ IF n = Master /\ p.type = "SetAddress"
         THEN /\ pending_assignment' = None
              /\ retries' = 0
              /\ next_address' = IF next_address >= LastAddress THEN Broadcast
                                 ELSE next_address + 1
         ELSE UNCHANGED masterVars
    /\ acked' = IF p.type = "Set" /\ p.to # Broadcast
                THEN [acked EXCEPT ![n] = p.body[2]] ELSE acked
    /\ UNCHANGED <<restarts, sent, grants, forgotten, seen, repeated>>

(* A Set is handed to the application once its Ack is in the channel.      *)
ReceiveSet(n) ==
    LET from == Incoming(n).body[1]
        k    == Incoming(n).body[2]
    IN  /\ ReadSet(n)
        /\ IF QueueFull(n)
             THEN UNCHANGED <<seen, repeated>>
             ELSE /\ seen' = [seen EXCEPT ![n][from] = k]
                  /\ repeated' = IF seen[n][from] = k
                                 THEN repeated \cup {from} ELSE repeated
        /\ UNCHANGED <<masterVars, restarts, sent, grants, forgotten, acked>>

ReceivePing(n) ==
    /\ ReadPing(n)
    /\ UNCHANGED <<masterVars, restarts, sent, historyVars>>

(* Reading: the handlers of a client.  ClientReackAddress is not among     *)
(* them: no frame on this bus calls it (DuplicateUnheard).                 *)

AdoptAddress(c) ==
    /\ ClientAdoptAddress(c)
    /\ UNCHANGED <<masterVars, restarts, sent, historyVars>>

Refuse(c) ==
    /\ ClientRefuse(c)
    /\ UNCHANGED <<masterVars, restarts, sent, historyVars>>

(* Reading: the handlers of the master.                                    *)

(* Mutant: a Join starts an assignment while another is pending.           *)
OfferAddressAlways ==
    LET id == Incoming(Master).id IN
    /\ Reads(Master, "Join")
    /\ next_address # Broadcast
    /\ pending_assignment' = [id |-> id, address |-> next_address]
    /\ retries' = 0
    /\ Enqueue(Master, SetAddress(Unassigned, address[Master], next_address, id))
    /\ grants' = grants \cup {[id |-> id, address |-> next_address]}
    /\ UNCHANGED <<node_type, node_id, address, pending_frame, next_address>>
    /\ UNCHANGED <<restarts, sent, forgotten, seen, repeated, acked>>

(* Mutant: an exhausted pool goes on with the broadcast address.           *)
OfferAddressBeyondPool ==
    LET id == Incoming(Master).id IN
    /\ Reads(Master, "Join")
    /\ pending_assignment = None
    /\ pending_assignment' = [id |-> id, address |-> next_address]
    /\ retries' = 0
    /\ Enqueue(Master, SetAddress(Unassigned, address[Master], next_address, id))
    /\ grants' = grants \cup {[id |-> id, address |-> next_address]}
    /\ UNCHANGED <<node_type, node_id, address, pending_frame, next_address>>
    /\ UNCHANGED <<restarts, sent, forgotten, seen, repeated, acked>>

(* A Join starts an assignment when none is pending and an address is left.*)
OfferAddress ==
    LET id == Incoming(Master).id IN
    /\ Reads(Master, "Join")
    /\ pending_assignment = None
    /\ next_address # Broadcast
    /\ pending_assignment' = [id |-> id, address |-> next_address]
    /\ retries' = 0
    /\ Enqueue(Master, SetAddress(Unassigned, address[Master], next_address, id))
    /\ grants' = grants \cup {[id |-> id, address |-> next_address]}
    /\ UNCHANGED <<node_type, node_id, address, pending_frame, next_address>>
    /\ UNCHANGED <<restarts, sent, forgotten, seen, repeated, acked>>

(* A Join during an assignment, or with no address left, changes nothing;  *)
(* a SetAddress is refused.                                                *)
MasterRefuse ==
    /\ Reading(Master)
    /\ TakeFrame(Master)
    /\ Addressed(Master)
    /\ \/ Incoming(Master).type = "SetAddress"
       \/ /\ Incoming(Master).type = "Join"
          /\ pending_assignment # None \/ next_address = Broadcast
    /\ UNCHANGED <<node_type, node_id, address, pending_frame, tx_queue, halted>>
    /\ UNCHANGED <<masterVars, restarts, sent, historyVars>>

-----------------------------------------------------------------------------
(* The applications.                                                       *)

(* imcp_task joins once, before its loop, with the identifier of this boot.*)
Connect(c) ==
    /\ node_type[c] = "NotReady"
    /\ SendJoin(c, <<c, restarts[c]>>)
    /\ UNCHANGED <<masterVars, restarts, sent, historyVars>>

(* A device reports to the master once it has an address; the hub writes   *)
(* to the addresses it assigns, or to all.                                 *)
Peer(n) == IF n = Master THEN FirstAddress .. Broadcast ELSE {MasterAddress}

Submit(n, f) ==
    /\ sent[n] < MaxSets
    /\ node_type[n] \in {"Master", "Ready"}
    /\ sent' = [sent EXCEPT ![n] = @ + 1]
    /\ TrySend(n, f)
    /\ UNCHANGED <<node_type, node_id, address, pending_frame, rx, halted>>
    /\ UNCHANGED <<masterVars, restarts, historyVars>>

SubmitSet(n, to)  == Submit(n, Set(to, address[n], <<n, sent[n] + 1>>))
SubmitPing(n, to) == Submit(n, Ping(to, address[n]))

Restart(c) ==
    /\ restarts[c] < MaxRestarts
    /\ restarts' = [restarts EXCEPT ![c] = @ + 1]
    /\ ClientRestart(c)
    /\ UNCHANGED <<masterVars, sent, historyVars>>

(* new_master: a hub that restarts knows nothing of what it assigned.      *)
RestartMaster ==
    /\ restarts[Master] < MaxRestarts
    /\ restarts' = [restarts EXCEPT ![Master] = @ + 1]
    /\ pending_frame' = [pending_frame EXCEPT ![Master] = None]
    /\ tx_queue' = [tx_queue EXCEPT ![Master] = <<>>]
    /\ rx' = [rx EXCEPT ![Master] = <<>>]
    /\ halted' = halted \ {Master}
    /\ next_address' = FirstAddress
    /\ pending_assignment' = None
    /\ retries' = 0
    /\ forgotten' = {g.address : g \in grants}
    /\ UNCHANGED <<node_type, node_id, address, sent, grants, seen, repeated, acked>>

-----------------------------------------------------------------------------
Write ==
    \/ \E heard \in SUBSET Audience(Master) : MasterWriteTick(heard)
    \/ \E c \in Client : \E heard \in SUBSET Audience(c) : WriteTick(c, heard)

Read ==
    \/ \E n \in Node : \/ Ignore(n)
                       \/ Acknowledged(n)
                       \/ ReceiveSet(n)
                       \/ ReceivePing(n)
    \/ \E c \in Client : AdoptAddress(c) \/ Refuse(c)
    \/ OfferAddress
    \/ MasterRefuse

Application ==
    \/ \E c \in Client : Connect(c)
    \/ \E n \in Node : \E to \in Peer(n) : SubmitSet(n, to) \/ SubmitPing(n, to)

PowerCycle ==
    \/ \E c \in Client : Restart(c)
    \/ RestartMaster

Next == Write \/ Read \/ Application \/ PowerCycle

Spec == Init /\ [][Next]_vars

(* The loop of each station keeps calling read_tick and write_tick, and a  *)
(* device joins once it runs.                                              *)
ReadTick(n) ==
    \/ Ignore(n) \/ Acknowledged(n) \/ ReceiveSet(n) \/ ReceivePing(n)
    \/ n \in Client /\ (AdoptAddress(n) \/ Refuse(n))
    \/ n = Master /\ (OfferAddress \/ MasterRefuse)

HubWrites == \E heard \in SUBSET Audience(Master) : MasterWriteTick(heard)

Writes(c) == \E heard \in SUBSET Audience(c) : WriteTick(c, heard)

HubHears(c) ==
    \E heard \in SUBSET Audience(c) : WriteTick(c, heard) /\ Master \in heard

OfferTo(c) ==
    /\ pending_assignment # None /\ pending_assignment.id = node_id[c]
    /\ retries' = retries + 1

WritesOffer(c) == HubWrites /\ OfferTo(c)

HearsOffer(c) ==
    /\ \E heard \in SUBSET Audience(Master) :
         MasterWriteTick(heard) /\ c \in heard
    /\ OfferTo(c)

(* The bus is fair-lossy: of the frames a client repeats, and of the       *)
(* offers to it, if there is no last one then there is no last one heard.  *)
Fairness ==
    /\ \A n \in Node : WF_vars(ReadTick(n))
    /\ WF_vars(HubWrites)
    /\ \A c \in Client :
        /\ WF_vars(Connect(c))
        /\ WF_vars(Writes(c))
        /\ []<><<Writes(c)>>_vars => []<><<HubHears(c)>>_vars
        /\ []<><<WritesOffer(c)>>_vars => []<><<HearsOffer(c)>>_vars

FairSpec == Spec /\ Fairness

-----------------------------------------------------------------------------
IsOffer(f) == f.type = "SetAddress"

PendingIsOffer == pending_frame[Master] # None /\ IsOffer(pending_frame[Master])

OffersIn(q) == {i \in DOMAIN q : IsOffer(q[i])}

QueuedOffers == OffersIn(tx_queue[Master])

Offered(f) ==
    /\ f.to = Unassigned
    /\ pending_assignment = [id |-> f.id, address |-> f.address]

OneOffer ==
    /\ PendingIsOffer => QueuedOffers = {}
    /\ \A i, j \in QueuedOffers : i = j

OfferIsAssigned ==
    /\ PendingIsOffer => Offered(pending_frame[Master])
    /\ \A i \in QueuedOffers : Offered(tx_queue[Master][i])

AssignmentIsOffered ==
    pending_assignment # None /\ Master \notin halted =>
        PendingIsOffer \/ QueuedOffers # {}

(* The hub has an assignment pending exactly while one SetAddress - the    *)
(* one that offers it - waits in its channel or is being repeated.  Were   *)
(* the frame lost first, every later Join would be turned away for good    *)
(* (read_tick ignores a Join while pending_assignment is set); were there  *)
(* two, the Ack of one would advance next_address twice.                   *)
AssignmentHasFrame == OneOffer /\ OfferIsAssigned /\ AssignmentIsOffered

(* Two devices answer to one address only if the hub gave an offer of that *)
(* address up, after its retries or by restarting: allocation by           *)
(* next_address, which moves on at the Ack and not at the offer, gives no  *)
(* address twice otherwise, late Acks and rejoining devices included.      *)
UniqueUnlessForgotten ==
    \A c, d \in Client :
        /\ node_type[c] = "Ready" /\ node_type[d] = "Ready" /\ c # d
        /\ address[c] = address[d]
        => address[c] \in forgotten

(* The assignment of addresses is that of AddressPool, seen through the    *)
(* frames: a device holds what it adopted, the hub waits for the Ack of    *)
(* the assignment it has pending.                                          *)
Holding ==
    [c \in Client |-> IF node_type[c] = "Ready"
                      THEN [id |-> node_id[c], address |-> address[c]]
                      ELSE None]

Pool == INSTANCE AddressPool WITH
    Device <- Client, Boot <- 0 .. MaxRestarts,
    First <- FirstAddress, Last <- LastAddress, None <- None,
    next <- next_address, offer <- pending_assignment, offered <- grants,
    forgotten <- forgotten, held <- Holding

PoolSpec == Pool!Spec

(* A ready device answers to an address the hub offered to its own         *)
(* identifier: never to an offer for another device or an earlier boot of  *)
(* itself, never to the unassigned, the hub's or the broadcast address.    *)
AddressWasGranted ==
    \A c \in Client : node_type[c] = "Ready" =>
        /\ [id |-> node_id[c], address |-> address[c]] \in grants
        /\ address[c] \in FirstAddress .. LastAddress

(* Why: the offers on the bus, which only the master makes, are grants;    *)
(* the pending one is for next_address; a client keeps its identifier.     *)
AssignmentIsNext ==
    pending_assignment # None =>
        /\ pending_assignment \in grants
        /\ pending_assignment.address = next_address
        /\ next_address <= LastAddress

GrantsInPool == \A g \in grants : g.address \in FirstAddress .. LastAddress

IsGrant(f) ==
    /\ f.to = Unassigned
    /\ [id |-> f.id, address |-> f.address] \in grants

OffersOnBus ==
    \A n \in Node : \A i \in OffersIn(rx[n]) : IsGrant(rx[n][i])

ClientsOfferNothing ==
    \A c \in Client :
        /\ pending_frame[c] # None => ~IsOffer(pending_frame[c])
        /\ OffersIn(tx_queue[c]) = {}

OwnIdentifier ==
    \A c \in Client : node_type[c] # "NotReady" =>
        node_id[c] \in Id /\ node_id[c][1] = c

ImcpInv ==
    /\ TypeOK
    /\ AssignmentHasFrame
    /\ AssignmentIsNext
    /\ GrantsInPool
    /\ OffersOnBus
    /\ ClientsOfferNothing
    /\ OwnIdentifier
    /\ AddressWasGranted

(* A device that waits for an address, and does not stop on a full channel *)
(* as it begins to, keeps asking: its Join waits in the channel or is      *)
(* being repeated, whatever Acks and assignments of others it has read     *)
(* meanwhile.                                                              *)
JoiningAsks ==
    \A c \in Client \ halted : node_type[c] = "Joining" =>
        \/ pending_frame[c] # None /\ pending_frame[c].type = "Join"
        \/ \E i \in DOMAIN tx_queue[c] : tx_queue[c][i].type = "Join"

(* A ready device hears no SetAddress: the hub sends them all to the       *)
(* unassigned address, which the device no longer answers to.  Its branch  *)
(* for a repeated SetAddress - another Ack, for the case that the first    *)
(* was lost - is never reached on the bus.                                 *)
DuplicateUnheard ==
    \A c \in Client :
        /\ node_type[c] = "Ready" /\ rx[c] # <<>>
        /\ IsOffer(Incoming(c))
        => ~Addressed(c)

(* write_tick repeats a Set until its Ack and the bus keeps the order, so  *)
(* no application sees a Set after a later one from the same sender.       *)
SetsInOrder ==
    [][\A m, n \in Node : seen'[m][n] >= seen[m][n]]_seen

(* A Set whose Ack was accepted did not get through only if an earlier one *)
(* of its sender was handed over twice - its second Ack is taken for the   *)
(* later Set - or if the hub gave an address up.                           *)
Lost(n) == acked[n] > 0 /\ \A m \in Node : seen[m][n] < acked[n]

LossNeedsRepeat ==
    \A n \in Node : Lost(n) => n \in repeated \/ forgotten # {}

(* Every device that joins gets an address, as long as the pool lasts:     *)
(* Joins turned away during another assignment, offers that are given up   *)
(* and Acks that are lost delay it and do not prevent it.                  *)
JoinCompletes ==
    \A c \in Client : node_type[c] = "Joining" ~> node_type[c] = "Ready"

(* What the documents say and the code does not do.                        *)

(* "Set" is a message whose delivery is assured (hcp/README.md): one whose *)
(* Ack was accepted has been handed over.                                  *)
AckedMeansDelivered == \A n \in Node : ~Lost(n)
=============================================================================
