------------------------- MODULE ImcpStationProofs -------------------------
(***************************************************************************)
(* What a client of IMCP keeps to whatever arrives on its wires.           *)
(***************************************************************************)
EXTENDS ImcpStation, ImcpNodeProofs

USE NodeAssumption, StationAssumption

Own(f) == f.from \in {Unassigned, address[Station]}

(* What a frame put at the end of the channel does to SpeaksForItself.     *)
LEMMA EnqueueOwn ==
    ASSUME TypeOK, NEW f \in Frame, NEW a \in Address,
           f.from \in {Unassigned, a},
           address[Station] \in {Unassigned, a}, address'[Station] = a,
           SpeaksForItself,
           pending_frame'[Station] \in {pending_frame[Station], None},
           \/ Enqueue(Station, f)
           \/ TrySend(Station, f)
    PROVE  SpeaksForItself'
<1> DEFINE q == tx_queue[Station]
<1>1. q \in Seq(Frame) /\ Station \in Node
  BY DEF TypeOK, NodeTypeOK
<1>2. tx_queue'[Station] \in {q, Append(q, f)}
  BY <1>1 DEF Enqueue, TrySend, TypeOK, NodeTypeOK
<1>3. \A i \in DOMAIN q : q[i].from \in {Unassigned, a}
  BY DEF SpeaksForItself
<1>4. \A i \in DOMAIN Append(q, f) : Append(q, f)[i].from \in {Unassigned, a}
  BY <1>1, <1>3
<1>5. \A i \in DOMAIN tx_queue'[Station] : tx_queue'[Station][i].from \in {Unassigned, a}
  <2> HIDE DEF q
  <2> QED BY <1>2, <1>3, <1>4
<1> QED BY <1>5 DEF SpeaksForItself

(* The handlers that change neither the kind of node nor its identity.     *)
LEMMA NodeReadInv ==
    ASSUME StationInv,
           \/ ReadIgnored(Station) \/ ReadAck(Station)
           \/ ReadSet(Station) \/ ReadPing(Station)
           \/ ClientReackAddress(Station) \/ ClientRefuse(Station)
    PROVE  StationInv'
<1> USE DEF StationInv, TypeOK
<1>1. /\ NodeTypeOK /\ Station \in Node
      /\ Reading(Station) /\ TakeFrame(Station)
      /\ UNCHANGED <<node_type, node_id, address>>
  BY DEF ReadIgnored, ReadAck, ReadSet, ReadPing, ClientReackAddress,
         ClientRefuse, Reads
<1>2. Incoming(Station) \in Frame /\ rx' \in [Node -> Seq(Frame)]
  BY <1>1, ReadFrame
<1>3. /\ address[Station] \in Address
      /\ Incoming(Station).from \in Address /\ Incoming(Station).to \in Address
  BY <1>1, <1>2, FrameFields DEF NodeTypeOK
<1>4. UnassignedUntilReady'
  BY <1>1 DEF UnassignedUntilReady
<1>5. CASE UNCHANGED <<tx_queue, halted>>
  <2>1. pending_frame' \in {pending_frame, [pending_frame EXCEPT ![Station] = None]}
    BY <1>1, <1>5
    DEF ReadIgnored, ReadAck, ReadSet, ReadPing, ClientReackAddress,
        ClientRefuse, NodeTypeOK
  <2>2. TypeOK'
    BY <1>1, <1>2, <1>5, <2>1 DEF NodeTypeOK
  <2>3. SpeaksForItself'
    BY <1>1, <1>5, <2>1 DEF SpeaksForItself, NodeTypeOK
  <2> QED BY <1>4, <2>2, <2>3
<1>6. CASE ReadSet(Station) \/ ReadPing(Station) \/ ClientReackAddress(Station)
  <2>1. PICK f \in Frame : f.from = address[Station] /\ Enqueue(Station, f)
    <3>1. /\ Ack(Incoming(Station).from, address[Station], Incoming(Station).to) \in Frame
          /\ Pong(Incoming(Station).from, address[Station]) \in Frame
      BY <1>3, FrameConstructors
    <3> QED
      BY <1>6, <3>1
      DEF ReadSet, ReadPing, ClientReackAddress, AckIncoming, Ack, Pong
  <2>2. pending_frame' = pending_frame
    BY <1>6 DEF ReadSet, ReadPing, ClientReackAddress
  <2>3. tx_queue' \in [Node -> Seq(Frame)] /\ halted' \in SUBSET Node
    BY <1>1, <2>1, EnqueueType
  <2>4. TypeOK'
    BY <1>1, <1>2, <2>2, <2>3 DEF NodeTypeOK
  <2>5. SpeaksForItself'
    BY <1>1, <1>3, <2>1, <2>2, EnqueueOwn
  <2> QED BY <1>4, <2>4, <2>5
<1> QED
  BY <1>5, <1>6 DEF ReadIgnored, ReadAck, ClientRefuse

(* Joining ends with the assigned address, before the Ack that names it.   *)
LEMMA AdoptInv ==
    ASSUME StationInv, ClientAdoptAddress(Station)
    PROVE  StationInv'
<1> USE DEF StationInv, TypeOK
<1> DEFINE a == Incoming(Station).address
           f == Ack(Incoming(Station).from, a, Incoming(Station).to)
<1>1. NodeTypeOK /\ Station \in Node /\ Reading(Station) /\ TakeFrame(Station)
  BY DEF ClientAdoptAddress, TakeOffer, Reads
<1>2. Incoming(Station) \in Frame /\ rx' \in [Node -> Seq(Frame)]
  BY <1>1, ReadFrame
<1>3. a \in Address /\ f \in Frame
  BY <1>2, FrameFields, FrameConstructors DEF ClientAdoptAddress, TakeOffer, Reads
<1>4. Enqueue(Station, f) /\ f.from = a
  BY DEF ClientAdoptAddress, TakeOffer, AckIncoming, Ack
<1>5. /\ address' = [address EXCEPT ![Station] = a]
      /\ pending_frame' = [pending_frame EXCEPT ![Station] = None]
      /\ node_type' = [node_type EXCEPT ![Station] = "Ready"]
      /\ node_id' = node_id
  BY DEF ClientAdoptAddress, TakeOffer
<1>6. address[Station] = Unassigned
  BY DEF UnassignedUntilReady, ClientAdoptAddress, TakeOffer
<1> HIDE DEF a, f
<1>7. tx_queue' \in [Node -> Seq(Frame)] /\ halted' \in SUBSET Node
  BY <1>1, <1>3, <1>4, EnqueueType
<1>8. TypeOK' /\ UnassignedUntilReady'
  BY <1>1, <1>2, <1>3, <1>5, <1>7 DEF NodeTypeOK, UnassignedUntilReady
<1>9. address'[Station] = a /\ pending_frame'[Station] = None
  BY <1>1, <1>5 DEF NodeTypeOK
<1>10. SpeaksForItself'
  BY <1>3, <1>4, <1>6, <1>9, EnqueueOwn
<1> QED BY <1>8, <1>10

(* write_tick sends what waits in the station, and keeps no other frame.   *)
LEMMA WriteInv ==
    ASSUME StationInv, ClientWriteTick(Station, {})
    PROVE  StationInv'
<1> USE DEF StationInv, TypeOK
<1>1. NodeTypeOK /\ Station \in Node /\ UNCHANGED <<node_type, node_id, address, halted>>
  BY DEF ClientWriteTick
<1>2. /\ pending_frame' \in [Node -> Frame \cup {None}]
      /\ tx_queue' \in [Node -> Seq(Frame)]
      /\ rx' \in [Node -> Seq(Frame)]
  BY <1>1, WriteType DEF ClientWriteTick
<1>3. TypeOK' /\ UnassignedUntilReady'
  BY <1>1, <1>2 DEF NodeTypeOK, UnassignedUntilReady
<1>4. CASE Resend(Station, {})
  <2>1. /\ pending_frame'[Station] \in {pending_frame[Station], None}
        /\ tx_queue'[Station] = tx_queue[Station]
    BY <1>1, <1>4 DEF Resend, Send, NodeTypeOK
  <2>2. SpeaksForItself'
    BY <1>1, <2>1 DEF SpeaksForItself
  <2> QED BY <1>3, <2>2
<1>5. CASE SendNext(Station, {})
  <2> DEFINE q == tx_queue[Station]
  <2>1. q \in Seq(Frame) /\ q # <<>>
    BY <1>1, <1>5 DEF SendNext, NodeTypeOK
  <2>2. /\ pending_frame'[Station] \in {Head(q), None}
        /\ tx_queue'[Station] = Tail(q)
    BY <1>1, <1>5 DEF SendNext, Send, NodeTypeOK
  <2>3. \A i \in DOMAIN q : Own(q[i])
    BY DEF SpeaksForItself, Own
  <2>4. Own(Head(q)) /\ \A i \in DOMAIN Tail(q) : Own(Tail(q)[i])
    BY <2>1, <2>3
  <2>5. SpeaksForItself'
    <3> HIDE DEF q
    <3> QED BY <1>1, <2>2, <2>4 DEF SpeaksForItself, Own
  <2> QED BY <1>3, <2>5
<1> QED BY <1>3, <1>4, <1>5 DEF ClientWriteTick

(* The application, the wires and the power switch.                        *)
LEMMA EnvironmentInv ==
    ASSUME StationInv,
           \/ \E f \in Traffic : Arrive(f)
           \/ \E id \in Id : Connect(id)
           \/ \E body \in Body : Report(body)
           \/ ClientRestart(Station)
    PROVE  StationInv'
<1> USE DEF StationInv, TypeOK
<1>1. NodeTypeOK /\ Station \in Node /\ address[Station] \in Address
  BY DEF NodeTypeOK
<1>2. ASSUME NEW f \in Traffic, Arrive(f) PROVE StationInv'
  <2>1. rx' \in [Node -> Seq(Frame)]
    BY <1>1, <1>2 DEF Arrive, Transmit, NodeTypeOK
  <2> QED
    BY <1>1, <1>2, <2>1 DEF Arrive, NodeTypeOK, UnassignedUntilReady, SpeaksForItself
<1>3. ASSUME NEW id \in Id, Connect(id) PROVE StationInv'
  <2> DEFINE f == Join(MasterAddress, address[Station], id)
  <2>1. f \in Frame /\ f.from = address[Station]
    BY <1>1, Addresses, FrameConstructors DEF Join
  <2>2. Enqueue(Station, f) /\ UNCHANGED <<address, pending_frame, rx>>
    BY <1>3 DEF Connect, SendJoin
  <2> HIDE DEF f
  <2>3. tx_queue' \in [Node -> Seq(Frame)] /\ halted' \in SUBSET Node
    BY <1>1, <2>1, <2>2, EnqueueType
  <2>4. address[Station] = Unassigned
    BY <1>3 DEF Connect, UnassignedUntilReady
  <2>5. TypeOK' /\ UnassignedUntilReady'
    BY <1>1, <1>3, <2>2, <2>3, <2>4
    DEF Connect, SendJoin, NodeTypeOK, UnassignedUntilReady
  <2>6. SpeaksForItself'
    BY <1>1, <2>1, <2>2, EnqueueOwn
  <2> QED BY <2>5, <2>6
<1>4. ASSUME NEW body \in Body, Report(body) PROVE StationInv'
  <2> DEFINE f == Set(MasterAddress, address[Station], body)
  <2>1. f \in Frame /\ f.from = address[Station]
    BY <1>1, Addresses, FrameConstructors DEF Set
  <2>2. /\ TrySend(Station, f)
        /\ UNCHANGED <<node_type, node_id, address, pending_frame, rx, halted>>
    BY <1>4 DEF Report
  <2> HIDE DEF f
  <2>3. tx_queue' \in [Node -> Seq(Frame)]
    <3>1. Append(tx_queue[Station], f) \in Seq(Frame)
      BY <1>1, <2>1 DEF NodeTypeOK
    <3> QED BY <1>1, <2>2, <3>1 DEF TrySend, NodeTypeOK
  <2>4. TypeOK' /\ UnassignedUntilReady'
    BY <1>1, <2>2, <2>3 DEF NodeTypeOK, UnassignedUntilReady
  <2>5. SpeaksForItself'
    BY <1>1, <2>1, <2>2, EnqueueOwn
  <2> QED BY <2>4, <2>5
<1>5. CASE ClientRestart(Station)
  <2>1. TypeOK' /\ UnassignedUntilReady'
    BY <1>1, <1>5, Addresses DEF ClientRestart, NodeTypeOK, UnassignedUntilReady
  <2>2. pending_frame'[Station] = None /\ tx_queue'[Station] = <<>>
    BY <1>1, <1>5 DEF ClientRestart, NodeTypeOK
  <2> QED BY <2>1, <2>2 DEF SpeaksForItself
<1> QED BY <1>2, <1>3, <1>4, <1>5

(* The invariant of a client holds whatever frames arrive.                 *)
THEOREM StationInvariant == Spec => []StationInv
<1>1. Init => StationInv
  BY Addresses
  DEF Init, StationInv, TypeOK, NodeTypeOK, UnassignedUntilReady, SpeaksForItself
<1>2. StationInv /\ [Next]_nodeVars => StationInv'
  <2>1. ASSUME StationInv, ReadTick PROVE StationInv'
    BY <2>1, NodeReadInv, AdoptInv DEF ReadTick
  <2>2. ASSUME StationInv, UNCHANGED nodeVars PROVE StationInv'
    BY <2>2
    DEF nodeVars, StationInv, TypeOK, NodeTypeOK, UnassignedUntilReady, SpeaksForItself
  <2> QED BY <2>1, <2>2, WriteInv, EnvironmentInv DEF Next
<1> QED BY <1>1, <1>2, PTL DEF Spec

(* No frame makes a client send from an address that is not its own.       *)
THEOREM OwnFrames == Spec => []SpeaksForItself
<1>1. StationInv => SpeaksForItself
  BY DEF StationInv
<1> QED BY <1>1, StationInvariant, PTL

(* A device with an address keeps it, and its identifier, until it is      *)
(* power-cycled.                                                           *)
THEOREM IdentityIsKept == Spec => IdentityKept
<1>1. TypeOK /\ [Next]_nodeVars =>
        [node_type[Station] = "Ready" =>
            \/ node_type'[Station] = "NotReady"
            \/ UNCHANGED <<node_type, node_id, address>>]_nodeVars
  <2> SUFFICES ASSUME TypeOK, Next, node_type[Station] = "Ready",
                      node_type'[Station] # "NotReady"
               PROVE  UNCHANGED <<node_type, node_id, address>>
    OBVIOUS
  <2>1. ~ClientAdoptAddress(Station) /\ \A id \in Id : ~Connect(id)
    BY DEF ClientAdoptAddress, TakeOffer, Connect
  <2>2. ~ClientRestart(Station)
    BY DEF ClientRestart, TypeOK, NodeTypeOK
  <2> QED
    BY <2>1, <2>2
    DEF Next, ReadTick, Arrive, Report, ClientWriteTick, ReadIgnored, ReadAck,
        ReadSet, ReadPing, ClientReackAddress, ClientRefuse
<1>2. StationInv => TypeOK
  BY DEF StationInv
<1> QED BY <1>1, <1>2, StationInvariant, PTL DEF Spec, IdentityKept
=============================================================================
