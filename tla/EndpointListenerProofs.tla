----------------------- MODULE EndpointListenerProofs -----------------------
(***************************************************************************)
(* What the deployed hub keeps, for any number of panels, identifiers,     *)
(* buffers and sessions.                                                   *)
(***************************************************************************)
EXTENDS EndpointListener, ImcpNodeProofs

-----------------------------------------------------------------------------
(* The frames in flight.                                                   *)

IsHello(f, p)  == f.type = "Set" /\ f.body = Hello(p)
IsButton(f, p) == f.type = "Set" /\ f.body.kind = "Button" /\ f.body.device = p

ReportsOf(p) ==
    {Hello(p)} \cup {Button(p, pressed, n) : pressed \in BOOLEAN, n \in 0 .. presses[p]}

(* What the manager writes.                                                *)
IsAnswer(f) ==
    \/ f.type = "SetAddress" /\ f.to = Unassigned /\ f.id \in drawn
       /\ f.address \in FirstAddress .. Broadcast
    \/ f.type \in {"Ack", "Set"} /\ f.to \in FirstAddress .. Broadcast

(* What a panel has for the bus.                                           *)
IsOwn(p, f) ==
    \/ f.type \in {"Ack", "Pong"}
    \/ f.type = "Join" /\ node_type[p] # "NotReady" /\ f.id = node_id[p]
    \/ f.type = "Set" /\ node_type[p] = "Ready" /\ f.from = address[p]
       /\ f.body \in ReportsOf(p)

(* What the port has heard.                                                *)
IsHeard(f) ==
    \/ f.type \in {"Ack", "Pong"}
    \/ f.type = "Join" /\ f.id \in drawn
    \/ f.type = "Set" /\ f.from \in FirstAddress .. Broadcast
       /\ \E p \in Node : f.body \in ReportsOf(p)

Frames ==
    /\ \A p \in Node : \A i \in DOMAIN rx[p] : IsAnswer(rx[p][i])
    /\ \A p \in Node : \A f \in Queued(p) : IsOwn(p, f)
    /\ \A i \in DOMAIN port : IsHeard(port[i])

-----------------------------------------------------------------------------
Panels ==
    \A p \in Node :
        /\ node_type[p] \in {"NotReady", "Joining", "Ready"}
        /\ IF node_type[p] = "Ready"
             THEN address[p] \in FirstAddress .. Broadcast /\ runtime[p] \in {None, address[p]}
             ELSE address[p] = Unassigned /\ runtime[p] = None
        /\ level[p] /\ ~old[p] => presses[p] < MaxPresses[p]

Identifiers ==
    /\ \A p \in Node : node_type[p] # "NotReady" => node_id[p] \in drawn
    /\ \A p, q \in Node :
          node_type[p] # "NotReady" /\ node_type[q] # "NotReady" /\ node_id[p] = node_id[q]
              => p = q

Tables ==
    /\ \A id \in Id : join_addresses[id] # None =>
          id \in drawn /\ join_addresses[id] \in FirstAddress .. Broadcast
          /\ (join_addresses[id] < next_address \/ join_addresses[id] = Broadcast)
    /\ \A i, j \in Id : join_addresses[i] = join_addresses[j] /\ join_addresses[i] # None
          => i = j \/ join_addresses[i] = Broadcast

Sessions ==
    /\ mode # "listen" =>
          join_addresses = NoAddresses /\ known_devices = NoDevices
          /\ pressed_buttons = {} /\ pushes = NoPushes
    /\ mode = "closed" => port = <<>>

(* Until the broadcast address is given out, to nobody.                    *)
Narrow(f) ==
    /\ f.type = "SetAddress" => f.address # Broadcast
    /\ f.to # Broadcast

Unsent(p) ==
    /\ pending_frame[p] = None /\ Len(tx_queue[p]) = 1
    /\ join_addresses[node_id[p]] = None
    /\ \A i \in DOMAIN rx[p] :
          ~(rx[p][i].type = "SetAddress" /\ rx[p][i].id = node_id[p])
    /\ \A i \in DOMAIN port : ~(port[i].type = "Join" /\ port[i].id = node_id[p])

(* A panel without an address hears nothing that it would answer.          *)
Quiet(p) ==
    /\ \A i \in DOMAIN rx[p] : Narrow(rx[p][i])
    /\ address[p] # Broadcast
    /\ node_type[p] # "Ready" => p \notin halted
    /\ node_type[p] = "NotReady" => pending_frame[p] = None /\ tx_queue[p] = <<>>
    /\ node_type[p] = "Joining" => Unsent(p) \/ tx_queue[p] = <<>>

Unicast ==
    ~exhausted =>
        /\ \A id \in Id : join_addresses[id] # Broadcast
        /\ \A i \in DOMAIN port : port[i].type = "Set" => port[i].from # Broadcast
        /\ \A p \in Node : Quiet(p)

-----------------------------------------------------------------------------
OffersMatch ==
    InSession => \A p \in Node :
        /\ node_type[p] = "Ready" => join_addresses[node_id[p]] = address[p]
        /\ node_type[p] = "Joining" => \A i \in DOMAIN rx[p] :
              rx[p][i].type = "SetAddress" /\ rx[p][i].id = node_id[p]
                  => rx[p][i].address = join_addresses[node_id[p]]

(* Device d has or had address a in this session.                          *)
Claimed(a, d) ==
    \/ known_devices[a] = d
    \/ node_type[d] = "Ready" /\ address[d] = a
    \/ \E i \in DOMAIN port : port[i].type = "Set" /\ port[i].from = a
                              /\ port[i].body.device = d

Claims ==
    InOrder => \A a \in Address, d \in Node : Claimed(a, d) =>
        /\ \E id \in Id : join_addresses[id] = a
        /\ \A e \in Node : Claimed(a, e) => d = e
        /\ \A q \in Node : node_type[q] # "NotReady" /\ join_addresses[node_id[q]] = a
              => d = q

(* An Ack or Set that reaches p answers p.                                 *)
Meant(f, p) ==
    /\ f.type = "Ack" => known_devices[f.to] = p
    /\ f.type = "Set" => p \in ImcpHub

AnswersMeant ==
    InOrder => \A p \in Node :
        /\ node_type[p] = "Ready" => \A i \in DOMAIN rx[p] :
              rx[p][i].to = address[p] => Meant(rx[p][i], p)
        /\ node_type[p] = "Joining" => \A i, j \in DOMAIN rx[p] :
              i < j /\ rx[p][i].type = "SetAddress" /\ rx[p][i].id = node_id[p]
              /\ rx[p][j].to = rx[p][i].address
                  => Meant(rx[p][j], p)

(* No event of p goes before its hello.                                    *)
HelloFirst(p) ==
    IF pending_frame[p] # None THEN IsHello(pending_frame[p], p)
    ELSE \E i \in DOMAIN tx_queue[p] :
            /\ IsHello(tx_queue[p][i], p)
            /\ \A j \in 1 .. i - 1 : tx_queue[p][j].type \notin Retained

Greetings ==
    InOrder =>
        /\ \A p \in Node : node_type[p] = "Ready" =>
              known_devices[address[p]] = p \/ HelloFirst(p)
        /\ \A i \in DOMAIN port :
              port[i].type = "Set" /\ port[i].body.kind = "Button"
                  => known_devices[port[i].from] = port[i].body.device

-----------------------------------------------------------------------------
(* Event c is one of the same press as b, or of a later one.               *)
Follows(b, c) ==
    /\ b.press <= c.press
    /\ ~b.pressed /\ c.pressed => b.press < c.press

Precedes(f, g, p) == IsButton(f, p) /\ IsButton(g, p) => Follows(f.body, g.body)

(* The events of p on their way: P is in the port, x pending, Q queued.    *)
Ordered(p, P, x, Q) ==
    /\ \A i, j \in DOMAIN P : i < j => Precedes(P[i], P[j], p)
    /\ \A i, j \in DOMAIN Q : i < j => Precedes(Q[i], Q[j], p)
    /\ \A i \in DOMAIN P, j \in DOMAIN Q : Precedes(P[i], Q[j], p)
    /\ x # None => /\ \A i \in DOMAIN P : Precedes(P[i], x, p)
                   /\ \A j \in DOMAIN Q : Precedes(x, Q[j], p)

EventOrder == \A p \in Node : Ordered(p, port, pending_frame[p], tx_queue[p])

(* The pushes of p, and the one that its next release would make.          *)
Due(p) == pushes[p] + (IF p \in pressed_buttons THEN 1 ELSE 0)

(* Event b is one of a press after n pushes, and after those that are due. *)
Counts(n, due, b) == due <= b.press /\ (b.pressed => n < b.press)

PushCount ==
    InOrder => \A p \in Node :
        /\ Due(p) <= presses[p]
        /\ \A f \in Queued(p) : IsButton(f, p) => Counts(pushes[p], Due(p), f.body)
        /\ \A i \in DOMAIN port : IsButton(port[i], p) => Counts(pushes[p], Due(p), port[i].body)

IInv ==
    /\ TypeOK /\ Frames /\ Panels /\ AddressesAgree /\ Identifiers /\ Tables /\ Sessions
    /\ Unicast /\ OffersMatch /\ Claims /\ AnswersMeant /\ Greetings
    /\ EventOrder /\ PushCount
    /\ NoPanelStops

USE NodeAssumption, EndpointAssumption, OptionAssumption, ChannelAssumption, NoneAssumption

-----------------------------------------------------------------------------
(* The steps of a panel that reads.                                        *)

Still(p) == UNCHANGED <<node_type, node_id, address, panelVars>>

Drops(p) ==
    Reading(p) /\ TakeFrame(p) /\ Still(p) /\ UNCHANGED <<pending_frame, tx_queue, halted>>

Settles(p) ==
    /\ Reading(p) /\ TakeFrame(p) /\ Still(p)
    /\ Addressed(p) /\ Incoming(p).type = "Ack" /\ pending_frame[p] # None
    /\ pending_frame' = [pending_frame EXCEPT ![p] = None]
    /\ UNCHANGED <<tx_queue, halted>>

Replies(p) ==
    /\ Reading(p) /\ TakeFrame(p) /\ Still(p)
    /\ Addressed(p) /\ Incoming(p).type = "Set"
    /\ Enqueue(p, Ack(Incoming(p).from, address[p], Incoming(p).to))
    /\ UNCHANGED pending_frame

(* A panel is sent no Ping, and no offer once it has an address.           *)
LEMMA ReadKinds ==
    ASSUME TypeOK, Frames, Panels, NEW p \in Node, PanelRead(p)
    PROVE  AcceptAddress(p) \/ Drops(p) \/ Settles(p) \/ Replies(p)
<1>1. CASE AcceptAddress(p)
  BY <1>1
<1>2. CASE PanelReadOther(p)
  <2>0. Reading(p) /\ TakeFrame(p) /\ UNCHANGED panelVars
    BY <1>2 DEF PanelReadOther, ReadIgnored, ReadAck, ReadSet, ReadPing,
                ClientReackAddress, ClientRefuse, Reads
  <2>1. NodeTypeOK
    BY DEF TypeOK, PanelTypeOK
  <2>2. IsAnswer(Incoming(p)) /\ Incoming(p) \in Frame
    BY <2>0, <2>1, ReadFrame DEF Frames
  <2>3. CASE ReadIgnored(p) \/ ClientRefuse(p)
    BY <2>0, <2>3 DEF ReadIgnored, ClientRefuse, Drops, Still
  <2>4. CASE ReadAck(p)
    BY <2>0, <2>4 DEF ReadAck, Reads, AckSettles, Settles, Still
  <2>5. CASE ReadSet(p)
    BY <2>0, <2>5 DEF ReadSet, Reads, AckIncoming, Replies, Still
  <2>6. ~ReadPing(p)
    BY <2>2 DEF ReadPing, Reads, IsAnswer
  <2>7. ~ClientReackAddress(p)
    BY <2>2 DEF ClientReackAddress, Reads, IsAnswer, Addressed, Panels, Unassigned,
                FirstAddress, Broadcast
  <2> QED BY <1>2, <2>3, <2>4, <2>5, <2>6, <2>7 DEF PanelReadOther
<1> QED BY <1>1, <1>2 DEF PanelRead

-----------------------------------------------------------------------------
(* The steps of the manager, as the panels see them: they hear frames of F. *)

Hears(F) ==
    /\ rx' \in [Node -> Seq(Frame)]
    /\ \A p \in Node : \A i \in DOMAIN rx'[p] :
          \/ i \in DOMAIN rx[p] /\ rx'[p][i] = rx[p][i]
          \/ i \notin DOMAIN rx[p] /\ rx'[p][i] \in F

LEMMA TransmitHears ==
    ASSUME NodeTypeOK, NEW f \in Frame, NEW heard, Transmit(f, heard)
    PROVE  Hears({f})
<1>1. rx' \in [Node -> Seq(Frame)]
  BY DEF NodeTypeOK, Transmit
<1>2. ASSUME NEW p \in Node, NEW i \in DOMAIN rx'[p]
      PROVE  \/ i \in DOMAIN rx[p] /\ rx'[p][i] = rx[p][i]
             \/ i \notin DOMAIN rx[p] /\ rx'[p][i] \in {f}
  <2>1. rx[p] \in Seq(Frame)
    BY DEF NodeTypeOK
  <2>2. rx'[p] = Append(rx[p], f) \/ rx'[p] = rx[p]
    BY DEF Transmit
  <2> QED BY <2>1, <2>2, AppendElements
<1> QED BY <1>1, <1>2 DEF Hears

TransmitBoth(f, S, g, T) ==
    rx' = [p \in Node |-> rx[p] \o (IF p \in S THEN <<f>> ELSE <<>>)
                               \o (IF p \in T THEN <<g>> ELSE <<>>)]

LEMMA TwoFramesHear ==
    ASSUME NodeTypeOK, NEW f \in Frame, NEW g \in Frame, NEW S, NEW T,
           TransmitBoth(f, S, g, T)
    PROVE  Hears({f, g})
<1>1. ASSUME NEW p \in Node
      PROVE  /\ rx'[p] \in Seq(Frame)
             /\ \A i \in DOMAIN rx'[p] :
                   \/ i \in DOMAIN rx[p] /\ rx'[p][i] = rx[p][i]
                   \/ i \notin DOMAIN rx[p] /\ rx'[p][i] \in {f, g}
  <2> DEFINE u == IF p \in S THEN <<f>> ELSE <<>>
             v == IF p \in T THEN <<g>> ELSE <<>>
  <2>1. rx[p] \in Seq(Frame) /\ u \in Seq(Frame) /\ v \in Seq(Frame)
    BY DEF NodeTypeOK
  <2>2. (\A i \in DOMAIN u : u[i] = f) /\ (\A i \in DOMAIN v : v[i] = g)
    <3>1. \A x : \A i \in DOMAIN <<x>> : <<x>>[i] = x
      OBVIOUS
    <3>2. DOMAIN <<>> = {}
      OBVIOUS
    <3> QED BY <3>1, <3>2
  <2>3. rx'[p] = (rx[p] \o u) \o v
    BY DEF TransmitBoth
  <2> HIDE DEF u, v
  <2>4. rx[p] \o u \in Seq(Frame)
    BY <2>1, ConcatElements
  <2>5. rx'[p] \in Seq(Frame)
    BY <2>1, <2>3, <2>4, ConcatElements
  <2>6. ASSUME NEW i \in DOMAIN rx'[p]
        PROVE  \/ i \in DOMAIN rx[p] /\ rx'[p][i] = rx[p][i]
               \/ i \notin DOMAIN rx[p] /\ rx'[p][i] \in {f, g}
    <3> DEFINE w == rx[p] \o u
    <3>1. /\ \A j \in DOMAIN w :
                \/ j \in DOMAIN rx[p] /\ w[j] = rx[p][j]
                \/ j \notin DOMAIN rx[p] /\ w[j] = f
          /\ \A j \in DOMAIN rx[p] : j \in DOMAIN w
      BY <2>1, <2>2, ConcatElements
    <3>2. w \in Seq(Frame) /\ rx'[p] = w \o v
      BY <2>3, <2>4
    <3> HIDE DEF w
    <3>3. \/ i \in DOMAIN w /\ rx'[p][i] = w[i]
          \/ i \notin DOMAIN w /\ rx'[p][i] = g
      <4>1. i \in DOMAIN (w \o v)
        BY <3>2
      <4>2. \/ i \in DOMAIN w /\ (w \o v)[i] = w[i]
            \/ i \notin DOMAIN w /\ i - Len(w) \in DOMAIN v /\ (w \o v)[i] = v[i - Len(w)]
        BY <4>1, <3>2, <2>1, ConcatElements
      <4> QED BY <4>2, <3>2, <2>2
    <3> QED BY <3>1, <3>3
  <2> QED BY <2>5, <2>6
<1>2. rx' \in [Node -> Seq(Frame)]
  BY <1>1 DEF TransmitBoth
<1> QED BY <1>1, <1>2 DEF Hears

PortShrinks ==
    \/ port' \in {port, <<>>}
    \/ port # <<>> /\ port' = Tail(port)
    \/ \E n \in 1 .. Len(port) : port' = SubSeq(port, n + 1, Len(port))

LEMMA PortRest ==
    ASSUME port \in Seq(Frame), PortShrinks
    PROVE  /\ port' \in Seq(Frame)
           /\ \E k \in Nat : \A i \in DOMAIN port' :
                 i \in Nat /\ i + k \in DOMAIN port /\ port'[i] = port[i + k]
<1>1. CASE port' = port
  BY <1>1
<1>2. CASE port' = <<>>
  BY <1>2
<1>3. CASE port # <<>> /\ port' = Tail(port)
  <2>1. /\ port' \in Seq(Frame)
        /\ \A i \in DOMAIN port' : i \in Nat /\ i + 1 \in DOMAIN port /\ port'[i] = port[i + 1]
    BY <1>3, TailElements
  <2> QED BY <2>1
<1>4. CASE \E n \in 1 .. Len(port) : port' = SubSeq(port, n + 1, Len(port))
  <2>1. PICK n \in 1 .. Len(port) : port' = SubSeq(port, n + 1, Len(port))
    BY <1>4
  <2>2. PICK whole, rest : whole = port /\ rest = port'
    OBVIOUS
  <2>3. whole \in Seq(Frame) /\ rest = SubSeq(whole, n + 1, Len(whole))
        /\ n \in Nat /\ n + 1 \in 1 .. Len(whole) + 1 /\ Len(whole) \in Nat
    BY <2>1, <2>2
  <2>4. rest \in Seq(Frame) /\ Len(rest) = Len(whole) - n
        /\ \A i \in 1 .. Len(rest) : rest[i] = whole[n + 1 + i - 1]
    BY <2>3
  <2>5. \A i \in 1 .. Len(rest) : i \in Nat /\ n + 1 + i - 1 = i + n /\ i + n \in 1 .. Len(whole)
    BY <2>3, <2>4
  <2>6. \A i \in DOMAIN rest : i \in Nat /\ i + n \in DOMAIN whole /\ rest[i] = whole[i + n]
    BY <2>3, <2>4, <2>5
  <2> QED BY <2>2, <2>3, <2>4, <2>6
<1> QED BY <1>1, <1>2, <1>3, <1>4 DEF PortShrinks

(* What the manager writes answers the frame that it received.             *)
Replied(f) ==
    /\ IsAnswer(f) /\ port # <<>>
    /\ f.type = "SetAddress" =>
          /\ Received.type = "Join" /\ f.id = Received.id
          /\ f.address = Broadcast => exhausted'
          /\ mode' = "listen" => f.address = join_addresses'[f.id]
    /\ f.type # "SetAddress" =>
          \/ f.to = FirstAddress /\ mode' # "listen"
          \/ Received.type = "Set" /\ f.to = Received.from
    /\ f.type = "Set" /\ mode' = "listen" =>
          Received.body.kind = "DeviceHello" /\ Received.body.device \in ImcpHub

(* What all steps of the manager have in common.                           *)
OnlyHear ==
    /\ PanelsOnlyHear
    /\ PortShrinks
    /\ \E F \in SUBSET Frame : Hears(F) /\ \A f \in F : Replied(f)

LEMMA ReceivedFrame ==
    ASSUME TypeOK, Frames, port # <<>>
    PROVE  /\ Received \in Frame /\ IsHeard(Received)
           /\ Received = port[1] /\ 1 \in DOMAIN port
           /\ Received.type = "Join" => Received.id \in drawn /\ Received.id \in Id
           /\ Received.type = "Set" =>
                 /\ Received.from \in FirstAddress .. Broadcast
                 /\ Received.from \in Address
                 /\ \E p \in Node : Received.body \in ReportsOf(p) /\ Received.body.device = p
<1>1. /\ Received \in Frame /\ Received = port[1] /\ 1 \in DOMAIN port
  BY TailElements DEF TypeOK, Received
<1>2. IsHeard(Received)
  BY <1>1 DEF Frames
<1>3. \A p \in Node : \A b \in ReportsOf(p) : b.device = p
  BY DEF ReportsOf, Hello, Button
<1> QED BY <1>1, <1>2, <1>3, FrameFields, Addresses DEF IsHeard

LEMMA AnswersReply ==
    ASSUME TypeOK, Frames, port # <<>>
    PROVE  /\ Received.type = "Set" =>
                 /\ Confirm \in Frame /\ Replied(Confirm)
                 /\ Confirm.type = "Ack" /\ Confirm.to = Received.from
           /\ \A a \in FirstAddress .. Broadcast :
                 \/ a = FirstAddress /\ mode' # "listen"
                 \/ Received.type = "Set" /\ a = Received.from
                    /\ Received.body.kind = "DeviceHello" /\ Received.body.device \in ImcpHub
                 => /\ Ask(a) \in Frame /\ Replied(Ask(a))
                    /\ Ask(a).type = "Set" /\ Ask(a).to = a
           /\ \A a \in FirstAddress .. Broadcast :
                 Received.type = "Join" /\ (a = Broadcast => exhausted')
                 /\ (mode' = "listen" => a = join_addresses'[Received.id]) =>
                    LET f == SetAddress(Unassigned, MasterAddress, a, Received.id)
                    IN  f \in Frame /\ Replied(f)
<1>1. /\ MasterAddress \in Address /\ Unassigned \in Address
      /\ \A a \in FirstAddress .. Broadcast : a \in Address
  BY Addresses
<1>2. Received.to \in Address /\ Received.from \in Address
  BY ReceivedFrame, FrameFields
<1>3. ASSUME Received.type = "Set"
      PROVE  /\ Confirm \in Frame /\ Replied(Confirm)
             /\ Confirm.type = "Ack" /\ Confirm.to = Received.from
  <2>1. Confirm \in Frame
    BY <1>1, <1>2, FrameConstructors DEF Confirm
  <2>2. Confirm.type = "Ack" /\ Confirm.to = Received.from
    BY DEF Confirm, Ack
  <2>3. Received.from \in FirstAddress .. Broadcast
    BY <1>3, ReceivedFrame
  <2>4. Replied(Confirm)
    BY <1>3, <2>2, <2>3 DEF IsAnswer, Replied
  <2> QED BY <2>1, <2>2, <2>4
<1>4. ASSUME NEW a \in FirstAddress .. Broadcast,
             \/ a = FirstAddress /\ mode' # "listen"
             \/ Received.type = "Set" /\ a = Received.from
                /\ Received.body.kind = "DeviceHello" /\ Received.body.device \in ImcpHub
      PROVE  /\ Ask(a) \in Frame /\ Replied(Ask(a))
             /\ Ask(a).type = "Set" /\ Ask(a).to = a
  <2>1. RequestHello \in PanelBody
    BY DEF PanelBody
  <2>2. Ask(a) \in Frame
    BY <1>1, <2>1, BodyAssumption, FrameConstructors DEF Ask
  <2>3. Ask(a).type = "Set" /\ Ask(a).to = a
    BY DEF Ask, Set
  <2> QED BY <1>4, <2>2, <2>3 DEF IsAnswer, Replied
<1>5. ASSUME NEW a \in FirstAddress .. Broadcast, Received.type = "Join",
             a = Broadcast => exhausted', mode' = "listen" => a = join_addresses'[Received.id]
      PROVE  LET f == SetAddress(Unassigned, MasterAddress, a, Received.id)
             IN  f \in Frame /\ Replied(f)
  <2>1. Received.id \in drawn /\ Received.id \in Id
    BY <1>5, ReceivedFrame
  <2>2. SetAddress(Unassigned, MasterAddress, a, Received.id) \in Frame
    BY <1>1, <2>1, FrameConstructors
  <2> QED BY <1>5, <2>1, <2>2 DEF IsAnswer, Replied, SetAddress
<1> QED BY <1>3, <1>4, <1>5

LEMMA OfferInRange ==
    ASSUME TypeOK, NEW id \in Id
    PROVE  Offer(id) \in FirstAddress .. Broadcast
BY DEF Offer, TypeOK

LEMMA ManagerHears ==
    ASSUME TypeOK, Frames, ManagerStep \/ StartListener \/ StartProbe \/ ClosePort
    PROVE  OnlyHear
<1>0. NodeTypeOK
  BY DEF TypeOK, PanelTypeOK
<1>1. ASSUME UNCHANGED rx
      PROVE  \E F \in SUBSET Frame : Hears(F) /\ \A f \in F : Replied(f)
  <2>1. Hears({})
    BY <1>0, <1>1 DEF Hears, NodeTypeOK
  <2> QED BY <2>1
<1>2. ASSUME NEW f \in Frame, Replied(f), NEW heard, Transmit(f, heard)
      PROVE  \E F \in SUBSET Frame : Hears(F) /\ \A g \in F : Replied(g)
  <2>1. Hears({f})
    BY <1>0, <1>2, TransmitHears
  <2> QED BY <1>2, <2>1
<1>3. ASSUME NEW f \in Frame, Replied(f), NEW g \in Frame, Replied(g), NEW S, NEW T,
             TransmitBoth(f, S, g, T)
      PROVE  \E F \in SUBSET Frame : Hears(F) /\ \A h \in F : Replied(h)
  <2>1. Hears({f, g})
    BY <1>0, <1>3, TwoFramesHear
  <2> QED BY <1>3, <2>1
<1>4. CASE StartListener \/ StartProbe \/ ClosePort
  BY <1>4, <1>1 DEF StartListener, StartProbe, ClosePort, Open, OnlyHear, PortShrinks,
                    PanelsOnlyHear, nodeVars, panelVars
<1>5. CASE SkipFrame /\ PanelsOnlyHear
  BY <1>5, <1>1 DEF SkipFrame, OnlyHear, PortShrinks
<1>6. ASSUME NEW heard, HandleJoin(heard), PanelsOnlyHear
      PROVE  OnlyHear
  <2>1. PortShrinks /\ port # <<>> /\ Received.type = "Join"
    BY <1>6 DEF HandleJoin, Receives, PortShrinks
  <2>2. /\ Offer(Received.id) \in FirstAddress .. Broadcast
        /\ Offer(Received.id) = Broadcast => exhausted'
        /\ join_addresses'[Received.id] = Offer(Received.id)
    BY <1>6, <2>1, ReceivedFrame, OfferInRange DEF HandleJoin, TypeOK
  <2> QED BY <1>6, <2>1, <2>2, <1>2, AnswersReply DEF HandleJoin, OnlyHear
<1>7. ASSUME NEW heard, HandleControlEvent(heard) \/ ChildHello(heard), PanelsOnlyHear
      PROVE  OnlyHear
  <2>1. PortShrinks /\ port # <<>> /\ Received.type = "Set" /\ Transmit(Confirm, heard)
    BY <1>7 DEF HandleControlEvent, ChildHello, Receives, PortShrinks
  <2>2. Confirm \in Frame /\ Replied(Confirm)
    BY <2>1, AnswersReply
  <2>3. \E F \in SUBSET Frame : Hears(F) /\ \A g \in F : Replied(g)
    BY <2>1, <2>2, <1>2
  <2> QED BY <1>7, <2>1, <2>3 DEF OnlyHear
<1>8. ASSUME NEW heard, ProbeJoin(heard), PanelsOnlyHear
      PROVE  OnlyHear
  <2>1. PortShrinks /\ port # <<>> /\ Received.type = "Join" /\ mode' # "listen"
    BY <1>8 DEF ProbeJoin, Receives, PortShrinks
  <2>2. FirstAddress \in FirstAddress .. Broadcast /\ FirstAddress # Broadcast
    BY DEF FirstAddress, Broadcast
  <2> QED BY <1>8, <2>1, <2>2, <1>2, AnswersReply DEF ProbeJoin, OnlyHear
<1>9. ASSUME NEW heard, NEW asked, HandleHello(heard, asked), PanelsOnlyHear
      PROVE  OnlyHear
  <2>1. PortShrinks /\ port # <<>> /\ Received.type = "Set"
    BY <1>9 DEF HandleHello, Receives, PortShrinks
  <2>2. /\ Confirm \in Frame /\ Replied(Confirm)
        /\ Received.body.device \in ImcpHub =>
              Ask(Received.from) \in Frame /\ Replied(Ask(Received.from))
    <3>1. Received.body.kind = "DeviceHello"
      BY <1>9 DEF HandleHello
    <3> QED BY <2>1, <3>1, AnswersReply, ReceivedFrame
  <2> SUFFICES \E F \in SUBSET Frame : Hears(F) /\ \A g \in F : Replied(g)
    BY <1>9, <2>1 DEF OnlyHear
  <2>3. CASE Transmit(Confirm, heard)
    BY <2>2, <2>3, <1>2
  <2>4. CASE /\ Received.body.device \in ImcpHub
             /\ TransmitBoth(Confirm, heard, Ask(Received.from), asked)
    BY <2>2, <2>4, <1>3
  <2> QED BY <1>9, <2>3, <2>4 DEF HandleHello, AsksDevices, TransmitBoth
<1>10. ASSUME NEW heard, NEW asked, ProbeHello(heard, asked), PanelsOnlyHear
       PROVE  OnlyHear
  <2>1. PortShrinks /\ port # <<>> /\ Received.type = "Set" /\ mode' # "listen"
    BY <1>10 DEF ProbeHello, PortShrinks
  <2>2. Confirm \in Frame /\ Replied(Confirm)
    BY <2>1, AnswersReply
  <2> SUFFICES \E F \in SUBSET Frame : Hears(F) /\ \A g \in F : Replied(g)
    BY <1>10, <2>1 DEF OnlyHear
  <2>3. CASE Transmit(Confirm, heard)
    BY <2>2, <2>3, <1>2
  <2>4. CASE assigned_address # None
             /\ TransmitBoth(Confirm, heard, Ask(assigned_address), asked)
    <3>1. assigned_address \in FirstAddress .. Broadcast /\ assigned_address = FirstAddress
      BY <2>4 DEF TypeOK, FirstAddress, Broadcast
    <3>2. Ask(assigned_address) \in Frame /\ Replied(Ask(assigned_address))
      BY <3>1, <2>1, AnswersReply
    <3> QED BY <2>2, <2>4, <3>2, <1>3
  <2>5. CASE UNCHANGED rx
    BY <2>5, <1>1
  <2> QED BY <1>10, <2>3, <2>4, <2>5 DEF ProbeHello, TransmitBoth
<1> QED BY <1>4, <1>5, <1>6, <1>7, <1>8, <1>9, <1>10 DEF ManagerStep

-----------------------------------------------------------------------------
(* What the steps of a panel do to its queues.                             *)

LEMMA WriteEffect ==
    ASSUME TypeOK, NEW p \in Node, PanelTransmits(p)
    PROVE  /\ UNCHANGED <<node_type, node_id, address, rx, halted, panelVars, tables, mode,
                          assigned_address, openings, strangers, exhausted, pushes>>
           /\ p \notin halted
           /\ Outgoing(p) \in Frame /\ Outgoing(p) \in Queued(p)
           /\ pending_frame' \in [Node -> Frame \cup {None}]
           /\ tx_queue' \in [Node -> Seq(Frame)]
           /\ port' \in Seq(Frame)
           /\ \A q \in Node \ {p} :
                 pending_frame'[q] = pending_frame[q] /\ tx_queue'[q] = tx_queue[q]
           /\ pending_frame'[p] = IF Outgoing(p).type \in Retained THEN Outgoing(p) ELSE None
           /\ IF pending_frame[p] = None
                THEN /\ tx_queue[p] # <<>> /\ Outgoing(p) = tx_queue[p][1]
                     /\ 1 \in DOMAIN tx_queue[p] /\ tx_queue'[p] = Tail(tx_queue[p])
                ELSE Outgoing(p) = pending_frame[p] /\ tx_queue'[p] = tx_queue[p]
           /\ port' = port \/ (port' = Append(port, Outgoing(p)) /\ mode # "closed")
           /\ \A q \in Node : Queued(q)' \subseteq Queued(q)
<1>0. NodeTypeOK
  BY DEF TypeOK, PanelTypeOK
<1>1. ClientWriteTick(p, {}) /\ UNCHANGED panelVars
  BY DEF PanelTransmits, PanelWrite
<1>2. /\ pending_frame' \in [Node -> Frame \cup {None}]
      /\ tx_queue' \in [Node -> Seq(Frame)]
  BY <1>0, <1>1, WriteType DEF ClientWriteTick
<1>3. UNCHANGED rx
  BY <1>0, <1>1 DEF ClientWriteTick, Resend, SendNext, Send, Transmit, NodeTypeOK
<1>4. /\ \A q \in Node \ {p} :
            pending_frame'[q] = pending_frame[q] /\ tx_queue'[q] = tx_queue[q]
      /\ pending_frame'[p] = IF Outgoing(p).type \in Retained THEN Outgoing(p) ELSE None
      /\ IF pending_frame[p] = None
           THEN /\ tx_queue[p] # <<>> /\ Outgoing(p) = Head(tx_queue[p])
                /\ tx_queue'[p] = Tail(tx_queue[p])
           ELSE Outgoing(p) = pending_frame[p] /\ tx_queue'[p] = tx_queue[p]
  BY <1>0, <1>1 DEF ClientWriteTick, Resend, SendNext, Send, Outgoing, NodeTypeOK
<1>5. tx_queue[p] \in Seq(Frame) /\ pending_frame[p] \in Frame \cup {None}
  BY <1>0 DEF NodeTypeOK
<1>6. pending_frame[p] = None =>
         /\ Head(tx_queue[p]) = tx_queue[p][1] /\ 1 \in DOMAIN tx_queue[p]
         /\ Head(tx_queue[p]) \in Frame
         /\ \A i \in DOMAIN tx_queue'[p] :
               i + 1 \in DOMAIN tx_queue[p] /\ tx_queue'[p][i] = tx_queue[p][i + 1]
  <2> SUFFICES ASSUME pending_frame[p] = None
               PROVE  /\ Head(tx_queue[p]) = tx_queue[p][1] /\ 1 \in DOMAIN tx_queue[p]
                      /\ Head(tx_queue[p]) \in Frame
                      /\ \A i \in DOMAIN tx_queue'[p] :
                            i + 1 \in DOMAIN tx_queue[p]
                            /\ tx_queue'[p][i] = tx_queue[p][i + 1]
    OBVIOUS
  <2>1. tx_queue[p] # <<>> /\ tx_queue'[p] = Tail(tx_queue[p])
    BY <1>4
  <2>2. /\ Head(tx_queue[p]) = tx_queue[p][1] /\ 1 \in DOMAIN tx_queue[p]
        /\ Head(tx_queue[p]) \in Frame
        /\ \A i \in DOMAIN Tail(tx_queue[p]) :
              i + 1 \in DOMAIN tx_queue[p] /\ Tail(tx_queue[p])[i] = tx_queue[p][i + 1]
    BY <1>5, <2>1, TailElements
  <2> QED BY <2>1, <2>2
<1>7. Outgoing(p) \in Frame
  BY <1>4, <1>5, <1>6
<1>8. Outgoing(p) \in Queued(p)
  <2>1. Outgoing(p) = pending_frame[p] \/ \E i \in DOMAIN tx_queue[p] : Outgoing(p) = tx_queue[p][i]
    BY <1>4, <1>6
  <2> QED BY <2>1, <1>7 DEF Queued
<1>9. port' \in Seq(Frame) /\ (port' = port \/ (port' = Append(port, Outgoing(p)) /\ mode # "closed"))
  <2>1. port' \in PortHears(Outgoing(p))
    BY DEF PanelTransmits
  <2>2. port' = port \/ (port' = Append(port, Outgoing(p)) /\ mode # "closed")
    BY <2>1 DEF PortHears
  <2>3. port \in Seq(Frame)
    BY DEF TypeOK
  <2> QED BY <2>2, <2>3, <1>7
<1>10. Queued(p)' \subseteq Queued(p)
  <2>1. ASSUME NEW f \in Queued(p)' PROVE f \in Queued(p)
    <3>1. CASE f = pending_frame'[p]
      BY <3>1, <2>1, <1>4, <1>8 DEF Queued
    <3>2. CASE \E i \in DOMAIN tx_queue'[p] : f = tx_queue'[p][i]
      <4>1. \E i \in DOMAIN tx_queue[p] : f = tx_queue[p][i]
        BY <3>2, <1>4, <1>6
      <4> QED BY <4>1, <2>1 DEF Queued
    <3> QED BY <2>1, <3>1, <3>2 DEF Queued
  <2> QED BY <2>1
<1>11. \A q \in Node \ {p} : Queued(q)' \subseteq Queued(q)
  BY <1>4 DEF Queued
<1>12. \A q \in Node : Queued(q)' \subseteq Queued(q)
  BY <1>10, <1>11
<1>13. UNCHANGED <<node_type, node_id, address, halted, panelVars, tables, mode,
                   assigned_address, openings, strangers, exhausted, pushes>>
       /\ p \notin halted
  BY <1>1 DEF ClientWriteTick, PanelTransmits
<1> QED BY <1>2, <1>3, <1>4, <1>6, <1>7, <1>8, <1>9, <1>12, <1>13

LEMMA ReportBodies ==
    ASSUME NEW p \in Node
    PROVE  /\ Hello(p) \in Body
           /\ \A pressed \in BOOLEAN, n \in 0 .. MaxPresses[p] : Button(p, pressed, n) \in Body
<1>1. Hello(p) \in PanelBody
  BY DEF PanelBody
<1>2. ASSUME NEW pressed \in BOOLEAN, NEW n \in 0 .. MaxPresses[p]
      PROVE  Button(p, pressed, n) \in PanelBody
  <2>1. Button(p, pressed, n) \in Buttons
    BY DEF Buttons
  <2> QED BY <2>1 DEF PanelBody
<1> QED BY <1>1, <1>2, BodyAssumption

(* The number that the event of an edge has.                               *)
Press(p) == IF level[p] THEN presses[p] + 1 ELSE presses[p]

Event(p) == Set(MasterAddress, runtime[p], Button(p, level[p], Press(p)))

LEMMA EdgeEffect ==
    ASSUME TypeOK, Panels, NEW p \in Node, ReportEdge(p)
    PROVE  /\ level[p] # old[p] /\ old' = [old EXCEPT ![p] = level[p]]
           /\ Press(p) \in 0 .. MaxPresses[p] /\ presses' = [presses EXCEPT ![p] = Press(p)]
           /\ presses[p] \in Nat /\ presses[p] <= Press(p)
           /\ UNCHANGED <<node_type, node_id, address, pending_frame, rx, halted,
                          level, runtime, drawn>>
           /\ tx_queue' \in [Node -> Seq(Frame)]
           /\ \A q \in Node \ {p} : tx_queue'[q] = tx_queue[q]
           /\ \/ tx_queue' = tx_queue
              \/ /\ runtime[p] # None /\ Event(p) \in Frame
                 /\ tx_queue'[p] = Append(tx_queue[p], Event(p))
<1>1. level[p] # old[p] /\ level[p] \in BOOLEAN /\ old[p] \in BOOLEAN
  BY DEF ReportEdge, TypeOK, PanelTypeOK
<1>2. presses[p] \in Nat /\ MaxPresses[p] \in Nat /\ presses[p] <= MaxPresses[p]
  BY PressesAssumption DEF TypeOK, PanelTypeOK
<1>3. Press(p) \in 0 .. MaxPresses[p] /\ presses[p] <= Press(p)
  BY <1>1, <1>2 DEF Press, Panels
<1>4. presses' = [presses EXCEPT ![p] = Press(p)] /\ EnqueueControlEvent(p, Press(p))
  BY DEF ReportEdge, Press
<1>5. CASE tx_queue' = tx_queue
  BY <1>1, <1>2, <1>3, <1>4, <1>5 DEF ReportEdge, TypeOK, PanelTypeOK, NodeTypeOK
<1>6. CASE /\ runtime[p] # None
           /\ tx_queue' = [tx_queue EXCEPT ![p] = Append(@, Event(p))]
  <2>1. runtime[p] \in Address
    BY <1>6 DEF TypeOK, PanelTypeOK
  <2>2. Event(p) \in Frame
    BY <2>1, <1>1, <1>3, ReportBodies, Addresses, FrameConstructors DEF Event
  <2>3. tx_queue \in [Node -> Seq(Frame)] /\ tx_queue[p] \in Seq(Frame)
    BY DEF TypeOK, PanelTypeOK, NodeTypeOK
  <2>4. Append(tx_queue[p], Event(p)) \in Seq(Frame)
    BY <2>2, <2>3
  <2>5. /\ tx_queue' \in [Node -> Seq(Frame)]
        /\ \A q \in Node \ {p} : tx_queue'[q] = tx_queue[q]
        /\ tx_queue'[p] = Append(tx_queue[p], Event(p))
    BY <1>6, <2>3, <2>4
  <2> QED BY <1>1, <1>2, <1>3, <1>4, <1>6, <2>2, <2>5 DEF ReportEdge
<1>7. tx_queue' = tx_queue
      \/ (runtime[p] # None /\ tx_queue' = [tx_queue EXCEPT ![p] = Append(@, Event(p))])
  BY <1>4 DEF EnqueueControlEvent, TrySend, Event
<1> QED BY <1>5, <1>6, <1>7

Accepted(p)   == Ack(Incoming(p).from, Incoming(p).address, Incoming(p).to)
Greeting(p, a) == Set(MasterAddress, a, Hello(p))

LEMMA AcceptEffect ==
    ASSUME TypeOK, NEW p \in Node, AcceptAddress(p)
    PROVE  /\ Reading(p) /\ TakeFrame(p) /\ node_type[p] = "Joining"
           /\ Incoming(p).type = "SetAddress" /\ Incoming(p).id = node_id[p]
           /\ Incoming(p).address \in Address
           /\ Accepted(p) \in Frame /\ Greeting(p, Incoming(p).address) \in Frame
           /\ address' = [address EXCEPT ![p] = Incoming(p).address]
           /\ node_type' = [node_type EXCEPT ![p] = "Ready"]
           /\ pending_frame' = [pending_frame EXCEPT ![p] = None]
           /\ UNCHANGED <<node_id, level, old, drawn, presses>>
           /\ tx_queue' \in [Node -> Seq(Frame)] /\ halted' \in SUBSET Node
           /\ \A q \in Node \ {p} : tx_queue'[q] = tx_queue[q]
           /\ \/ /\ Len(tx_queue[p]) >= QueueCap
                 /\ tx_queue' = tx_queue /\ halted' = halted \cup {p} /\ UNCHANGED runtime
              \/ /\ Len(tx_queue[p]) < QueueCap
                 /\ runtime' = [runtime EXCEPT ![p] = Incoming(p).address] /\ UNCHANGED halted
                 /\ \/ tx_queue'[p] = tx_queue[p] \o <<Accepted(p), Greeting(p, Incoming(p).address)>>
                    \/ /\ Len(tx_queue[p]) + 1 >= QueueCap
                       /\ tx_queue'[p] = Append(tx_queue[p], Accepted(p))
<1>0. NodeTypeOK
  BY DEF TypeOK, PanelTypeOK
<1>1. TakeOffer(p) /\ Reading(p) /\ TakeFrame(p)
  BY DEF AcceptAddress, TakeOffer, Reads
<1>2. Incoming(p) \in Frame /\ Incoming(p).type = "SetAddress"
  BY <1>0, <1>1, ReadFrame DEF TakeOffer, Reads
<1>3. Incoming(p).address \in Address /\ Incoming(p).from \in Address /\ Incoming(p).to \in Address
  BY <1>2, FrameFields
<1>4. Accepted(p) \in Frame /\ Greeting(p, Incoming(p).address) \in Frame
  BY <1>3, ReportBodies, Addresses, FrameConstructors DEF Accepted, Greeting
<1>5. tx_queue \in [Node -> Seq(Frame)] /\ tx_queue[p] \in Seq(Frame) /\ halted \in SUBSET Node
      /\ Len(tx_queue[p]) \in Nat
  BY <1>0 DEF NodeTypeOK
<1>6. CASE QueueFull(p)
  BY <1>1, <1>2, <1>3, <1>4, <1>5, <1>6
     DEF AcceptAddress, TakeOffer, AckIncoming, Enqueue, QueueFull
<1>7. CASE ~QueueFull(p)
  <2>1. /\ Append(tx_queue[p], Accepted(p)) \in Seq(Frame)
        /\ tx_queue[p] \o <<Accepted(p), Greeting(p, Incoming(p).address)>> \in Seq(Frame)
    BY <1>4, <1>5
  <2>2. /\ tx_queue' = [tx_queue EXCEPT ![p] =
                           IF Len(@) + 1 < QueueCap
                             THEN @ \o <<Accepted(p), Greeting(p, Incoming(p).address)>>
                           ELSE Append(@, Accepted(p))]
        /\ runtime' = [runtime EXCEPT ![p] = Incoming(p).address] /\ UNCHANGED halted
    BY <1>7 DEF AcceptAddress, Accepted, Greeting
  <2>3. /\ tx_queue' \in [Node -> Seq(Frame)]
        /\ \A q \in Node \ {p} : tx_queue'[q] = tx_queue[q]
        /\ \/ tx_queue'[p] = tx_queue[p] \o <<Accepted(p), Greeting(p, Incoming(p).address)>>
           \/ /\ Len(tx_queue[p]) + 1 >= QueueCap
              /\ tx_queue'[p] = Append(tx_queue[p], Accepted(p))
    BY <2>1, <2>2, <1>5
  <2>4. Len(tx_queue[p]) < QueueCap
    BY <1>5, <1>7 DEF QueueFull
  <2> QED BY <1>1, <1>2, <1>3, <1>4, <1>5, <2>2, <2>3, <2>4 DEF AcceptAddress, TakeOffer
<1> QED BY <1>6, <1>7

LEMMA ReplyFrame ==
    ASSUME TypeOK, NEW p \in Node, Reading(p), TakeFrame(p)
    PROVE  Ack(Incoming(p).from, address[p], Incoming(p).to) \in Frame
<1>1. NodeTypeOK
  BY DEF TypeOK, PanelTypeOK
<1>2. Incoming(p) \in Frame /\ address[p] \in Address
  BY <1>1, ReadFrame DEF NodeTypeOK
<1>3. Incoming(p).from \in Address /\ Incoming(p).to \in Address
  BY <1>2, FrameFields
<1> QED BY <1>2, <1>3, FrameConstructors

-----------------------------------------------------------------------------
(* The types.                                                              *)

LEMMA PanelStepTypes ==
    ASSUME TypeOK, Frames, Panels, NEW p \in Node, PanelStep(p)
    PROVE  PanelTypeOK'
<1>0. NodeTypeOK /\ PanelTypeOK
  BY DEF TypeOK, PanelTypeOK
<1>1. CASE PanelJoin(p)
  <2>1. PICK id \in Id : SendJoin(p, id) /\ drawn' = drawn \cup {id}
    BY <1>1 DEF PanelJoin
  <2>2. Join(MasterAddress, address[p], id) \in Frame
    BY <1>0, Addresses, FrameConstructors DEF NodeTypeOK
  <2>3. tx_queue' \in [Node -> Seq(Frame)] /\ halted' \in SUBSET Node
    BY <1>0, <2>1, <2>2, EnqueueType DEF SendJoin
  <2> QED BY <1>0, <1>1, <2>1, <2>3 DEF PanelTypeOK, NodeTypeOK, SendJoin, PanelJoin
<1>2. CASE Scan(p)
  BY <1>0, <1>2 DEF Scan, nodeVars, PanelTypeOK, NodeTypeOK
<1>3. CASE ReportEdge(p)
  <2>1. presses' \in [Node -> Nat] /\ \A q \in Node : presses'[q] <= MaxPresses[q]
    <3>1. Press(p) \in 0 .. MaxPresses[p] /\ presses' = [presses EXCEPT ![p] = Press(p)]
      BY <1>3, EdgeEffect
    <3>2. MaxPresses[p] \in Nat
      BY PressesAssumption
    <3>3. Press(p) \in Nat /\ Press(p) <= MaxPresses[p]
      BY <3>1, <3>2
    <3> QED BY <1>0, <3>1, <3>3 DEF PanelTypeOK
  <2>2. old' \in [Node -> BOOLEAN]
    BY <1>0, <1>3, EdgeEffect DEF PanelTypeOK
  <2> QED BY <1>0, <1>3, <2>1, <2>2, EdgeEffect DEF PanelTypeOK, NodeTypeOK
<1>4. CASE PanelRead(p)
  <2>1. CASE AcceptAddress(p)
    <3>1. rx' \in [Node -> Seq(Frame)]
      BY <1>0, <2>1, AcceptEffect, ReadFrame
    <3>2. address' \in [Node -> Address] /\ runtime' \in [Node -> Address \cup {None}]
      BY <1>0, <2>1, AcceptEffect DEF PanelTypeOK, NodeTypeOK
    <3> QED BY <1>0, <2>1, <3>1, <3>2, AcceptEffect DEF PanelTypeOK, NodeTypeOK
  <2>2. CASE Drops(p)
    BY <1>0, <2>2, ReadFrame DEF Drops, Still, panelVars, PanelTypeOK, NodeTypeOK
  <2>3. CASE Settles(p)
    BY <1>0, <2>3, ReadFrame DEF Settles, Still, panelVars, PanelTypeOK, NodeTypeOK
  <2>4. CASE Replies(p)
    <3>1. rx' \in [Node -> Seq(Frame)] /\ tx_queue' \in [Node -> Seq(Frame)]
          /\ halted' \in SUBSET Node
      BY <1>0, <2>4, ReadFrame, ReplyFrame, EnqueueType DEF Replies
    <3> QED BY <1>0, <2>4, <3>1 DEF Replies, Still, panelVars, PanelTypeOK, NodeTypeOK
  <2> QED BY <1>4, <2>1, <2>2, <2>3, <2>4, ReadKinds
<1>5. CASE PowerCycle(p)
  <2>1. Unassigned \in Address
    BY Addresses
  <2> QED BY <1>0, <1>5, <2>1 DEF PowerCycle, ClientRestart, PanelTypeOK, NodeTypeOK
<1> QED BY <1>1, <1>2, <1>3, <1>4, <1>5 DEF PanelStep

LEMMA ManagerTypes ==
    ASSUME TypeOK, Frames, ManagerStep \/ StartListener \/ StartProbe \/ ClosePort
    PROVE  TypeOK'
<1>1. OnlyHear
  BY ManagerHears
<1>2. PanelTypeOK'
  BY <1>1 DEF OnlyHear, Hears, PanelsOnlyHear, panelVars, TypeOK, PanelTypeOK, NodeTypeOK
<1>3. port' \in Seq(Frame)
  BY <1>1, PortRest DEF OnlyHear, TypeOK
<1>4. /\ FirstAddress \in FirstAddress .. Broadcast
      /\ \A a \in FirstAddress .. Broadcast : a # Broadcast => a + 1 \in FirstAddress .. Broadcast
  BY DEF FirstAddress, Broadcast
<1>5. ASSUME NEW heard, HandleJoin(heard)
      PROVE  TypeOK'
  <2>1. Received.id \in Id
    BY <1>5, ReceivedFrame DEF HandleJoin, Receives
  <2>2. Offer(Received.id) \in FirstAddress .. Broadcast
    BY <2>1, OfferInRange
  <2>3. NextAddress(Received.id) \in FirstAddress .. Broadcast
    BY <1>4 DEF TypeOK, NextAddress
  <2> QED BY <1>2, <1>3, <1>5, <2>1, <2>2, <2>3
          DEF HandleJoin, Receives, SessionUnchanged, TypeOK
<1>6. ASSUME NEW heard, NEW asked, HandleHello(heard, asked)
      PROVE  TypeOK'
  <2>1. Received.body.device \in Node /\ Received.from \in Address
    BY <1>6, ReceivedFrame DEF HandleHello, Receives
  <2> QED BY <1>2, <1>3, <1>6, <2>1
          DEF HandleHello, Receives, ManagerUnchanged, SessionUnchanged, TypeOK
<1>7. ASSUME NEW heard, HandleControlEvent(heard)
      PROVE  TypeOK'
  <2>1. Received.from \in Address
    BY <1>7, ReceivedFrame DEF HandleControlEvent, Receives
  <2>2. known_devices[Received.from] \in Node \cup {None}
    BY <2>1 DEF TypeOK
  <2>3. pressed_buttons' \in SUBSET Node /\ pushes' \in [Node -> Nat]
    BY <1>7, <2>2 DEF HandleControlEvent, ProcessControlEvent, Release, TypeOK
  <2> QED BY <1>2, <1>3, <1>7, <2>3
          DEF HandleControlEvent, Receives, ManagerUnchanged, SessionUnchanged, TypeOK
<1>8. CASE SkipFrame
  BY <1>2, <1>3, <1>8 DEF SkipFrame, ManagerUnchanged, SessionUnchanged, tables, TypeOK
<1>9. ASSUME NEW heard, ProbeJoin(heard) \/ ChildHello(heard)
      PROVE  TypeOK'
  BY <1>2, <1>3, <1>9
     DEF ProbeJoin, ChildHello, Receives, ManagerUnchanged, SessionUnchanged, tables, TypeOK
<1>10. ASSUME NEW heard, NEW asked, ProbeHello(heard, asked)
       PROVE  TypeOK'
  BY <1>2, <1>3, <1>10 DEF ProbeHello, tables, TypeOK
<1>11. CASE StartListener \/ StartProbe
  <2>1. openings' \in 0 .. MaxOpenings
    BY <1>11 DEF StartListener, StartProbe, Open, TypeOK
  <2>2. mode' \in {"closed", "listen", "probe", "children"} /\ strangers' \in SUBSET Node
        /\ UNCHANGED <<tables, assigned_address, exhausted, pushes>>
    BY <1>11 DEF StartListener, StartProbe, Open, TypeOK
  <2> QED BY <1>2, <1>3, <2>1, <2>2 DEF tables, TypeOK
<1>12. CASE ClosePort
  <2>1. /\ NoAddresses \in [Id -> (FirstAddress .. Broadcast) \cup {None}]
        /\ NoDevices \in [Address -> Node \cup {None}]
        /\ NoPushes \in [Node -> Nat]
    BY DEF NoAddresses, NoDevices, NoPushes
  <2> QED BY <1>2, <1>3, <1>4, <1>12, <2>1 DEF ClosePort, TypeOK
<1> QED BY <1>5, <1>6, <1>7, <1>8, <1>9, <1>10, <1>11, <1>12 DEF ManagerStep

LEMMA Types ==
    ASSUME TypeOK, Frames, Panels, [Next]_vars
    PROVE  TypeOK'
<1>1. ASSUME NEW p \in Node, PanelStep(p) PROVE TypeOK'
  BY <1>1, PanelStepTypes DEF PanelStep, managerVars, tables, TypeOK
<1>2. ASSUME NEW p \in Node, PanelTransmits(p) PROVE TypeOK'
  <2>1. PanelTypeOK'
    BY <1>2, WriteEffect DEF panelVars, TypeOK, PanelTypeOK, NodeTypeOK
  <2> QED BY <1>2, <2>1, WriteEffect DEF tables, TypeOK
<1>3. CASE UNCHANGED vars
  BY <1>3 DEF vars, nodeVars, panelVars, managerVars, tables, TypeOK, PanelTypeOK, NodeTypeOK
<1> QED BY <1>1, <1>2, <1>3, ManagerTypes DEF Next

-----------------------------------------------------------------------------
(* The frames.                                                             *)

LEMMA ConcatQueued ==
    ASSUME NodeTypeOK, NEW p \in Node, NEW f \in Frame, NEW g \in Frame,
           tx_queue'[p] = tx_queue[p] \o <<f, g>>, pending_frame'[p] = None
    PROVE  Queued(p)' \subseteq Queued(p) \cup {f, g}
<1>1. tx_queue[p] \in Seq(Frame) /\ <<f, g>> \in Seq(Frame)
  BY DEF NodeTypeOK
<1>2. \A i \in DOMAIN <<f, g>> : <<f, g>>[i] \in {f, g}
  OBVIOUS
<1>3. \A i \in DOMAIN tx_queue'[p] :
         \/ i \in DOMAIN tx_queue[p] /\ tx_queue'[p][i] = tx_queue[p][i]
         \/ tx_queue'[p][i] \in {f, g}
  BY <1>1, <1>2, ConcatElements
<1> QED BY <1>3 DEF Queued

(* The queues of the other panels stay as they are.                        *)
LEMMA OthersQueued ==
    ASSUME NEW q \in Node, tx_queue'[q] = tx_queue[q], pending_frame'[q] = pending_frame[q]
    PROVE  Queued(q)' = Queued(q)
BY DEF Queued

LEMMA ReportsGrow ==
    ASSUME NEW p \in Node, presses[p] \in Nat, presses'[p] \in Nat, presses[p] <= presses'[p]
    PROVE  ReportsOf(p) \subseteq ReportsOf(p)'
BY DEF ReportsOf

(* Identifiers are drawn and presses counted, never the other way.         *)
Onward ==
    /\ drawn \subseteq drawn'
    /\ \A p \in Node : ReportsOf(p) \subseteq ReportsOf(p)'

LEMMA StaysHeard ==
    ASSUME Onward, NEW f
    PROVE  (IsAnswer(f) => IsAnswer(f)') /\ (IsHeard(f) => IsHeard(f)')
BY DEF Onward, IsAnswer, IsHeard

LEMMA StaysOwn ==
    ASSUME Onward, NEW p \in Node, NEW f, IsOwn(p, f),
           UNCHANGED <<node_type[p], node_id[p], address[p]>>
    PROVE  IsOwn(p, f)'
BY DEF Onward, IsOwn

LEMMA StepOnward ==
    ASSUME TypeOK, Panels, NEW p \in Node, PanelStep(p) \/ PanelTransmits(p)
    PROVE  Onward
<1>0. presses \in [Node -> Nat]
  BY DEF TypeOK, PanelTypeOK
<1>1. CASE UNCHANGED <<drawn, presses>>
  BY <1>1 DEF Onward, ReportsOf
<1>2. CASE PanelJoin(p)
  BY <1>2 DEF PanelJoin, Onward, ReportsOf
<1>3. CASE ReportEdge(p)
  <2>1. /\ presses'[p] = Press(p) /\ Press(p) \in Nat /\ presses[p] <= Press(p)
        /\ \A q \in Node \ {p} : presses'[q] = presses[q]
    <3>1. Press(p) \in 0 .. MaxPresses[p] /\ MaxPresses[p] \in Nat
      BY <1>3, EdgeEffect, PressesAssumption
    <3> QED BY <1>0, <1>3, <3>1, EdgeEffect
  <2>2. \A q \in Node : presses[q] \in Nat /\ presses'[q] \in Nat /\ presses[q] <= presses'[q]
    BY <1>0, <2>1
  <2> QED BY <1>3, <2>2, EdgeEffect, ReportsGrow DEF Onward
<1>4. PanelTransmits(p) => UNCHANGED <<drawn, presses>>
  BY WriteEffect DEF panelVars
<1>5. Scan(p) \/ PanelRead(p) \/ PowerCycle(p) => UNCHANGED <<drawn, presses>>
  BY DEF Scan, PanelRead, AcceptAddress, PanelReadOther, PowerCycle, panelVars
<1> QED BY <1>1, <1>2, <1>3, <1>4, <1>5 DEF PanelStep

(* What a step of p leaves or puts into the queue of p is its own.         *)
LEMMA PanelStepOwn ==
    ASSUME TypeOK, Frames, Panels, NEW p \in Node, PanelStep(p)
    PROVE  /\ \A f \in Queued(p)' : IsOwn(p, f)'
           /\ \A q \in Node \ {p} : UNCHANGED <<node_type[q], node_id[q], address[q]>>
                                   /\ Queued(q)' = Queued(q)
           /\ UNCHANGED port
<1>0. NodeTypeOK /\ PanelTypeOK
  BY DEF TypeOK, PanelTypeOK
<1>o. Onward
  BY StepOnward
<1>f. \A f \in Queued(p) : IsOwn(p, f)
  BY DEF Frames
<1>p. UNCHANGED port
  BY DEF PanelStep, managerVars
<1>1. CASE PanelJoin(p)
  <2>1. PICK id \in Id : SendJoin(p, id)
    BY <1>1 DEF PanelJoin
  <2> DEFINE f == Join(MasterAddress, address[p], id)
  <2>2. f \in Frame /\ f.type = "Join" /\ f.id = id
    BY <1>0, Addresses, FrameConstructors DEF NodeTypeOK, Join
  <2> HIDE DEF f
  <2>3. /\ node_type' = [node_type EXCEPT ![p] = "Joining"]
        /\ node_id' = [node_id EXCEPT ![p] = id] /\ Enqueue(p, f)
        /\ UNCHANGED <<address, pending_frame>>
    BY <2>1 DEF SendJoin, f
  <2>4. Queued(p)' \subseteq Queued(p) \cup {f}
    BY <1>0, <2>2, <2>3, EnqueueEffect, AppendQueued, SameQueued
  <2>5. \A g \in Queued(p) : g.type \in {"Ack", "Pong"}
    BY <1>1, <1>f DEF IsOwn, PanelJoin
  <2>6. \A g : g = f => IsOwn(p, g)'
    BY <1>0, <2>2, <2>3 DEF IsOwn, NodeTypeOK
  <2>7. \A g \in Queued(p) : IsOwn(p, g)'
    BY <2>5 DEF IsOwn
  <2>8. \A q \in Node \ {p} : /\ UNCHANGED <<node_type[q], node_id[q], address[q]>>
                             /\ tx_queue'[q] = tx_queue[q] /\ pending_frame'[q] = pending_frame[q]
    BY <1>0, <2>2, <2>3, EnqueueEffect DEF NodeTypeOK
  <2> QED BY <1>p, <2>4, <2>6, <2>7, <2>8, OthersQueued
<1>2. CASE Scan(p)
  <2>1. UNCHANGED <<node_type, node_id, address, pending_frame, tx_queue>>
    BY <1>2 DEF Scan, nodeVars
  <2> QED BY <1>p, <1>o, <1>f, <2>1, StaysOwn, OthersQueued
<1>3. CASE ReportEdge(p)
  <2>1. UNCHANGED <<node_type, node_id, address, pending_frame>>
    BY <1>3, EdgeEffect
  <2>2. \A q \in Node \ {p} : Queued(q)' = Queued(q)
    BY <1>3, <2>1, EdgeEffect, OthersQueued
  <2>3. CASE UNCHANGED tx_queue
    BY <1>p, <1>o, <1>f, <2>1, <2>2, <2>3, StaysOwn, OthersQueued
  <2>4. CASE /\ runtime[p] # None /\ Event(p) \in Frame
             /\ tx_queue'[p] = Append(tx_queue[p], Event(p))
    <3>1. Queued(p)' \subseteq Queued(p) \cup {Event(p)}
      BY <1>0, <2>1, <2>4, AppendQueued
    <3>2. /\ Event(p).type = "Set" /\ Event(p).from = runtime[p]
          /\ Event(p).body = Button(p, level[p], Press(p))
      BY DEF Event, Set
    <3>3. node_type[p] = "Ready" /\ runtime[p] = address[p]
      BY <2>4 DEF Panels
    <3>4. presses'[p] = Press(p) /\ Press(p) \in 0 .. MaxPresses[p]
      BY <1>0, <1>3, EdgeEffect DEF PanelTypeOK
    <3>5. level[p] \in BOOLEAN /\ MaxPresses[p] \in Nat
      BY <1>0, PressesAssumption DEF PanelTypeOK
    <3>6. Event(p).body \in ReportsOf(p)'
      BY <3>2, <3>4, <3>5 DEF ReportsOf
    <3>7. \A f : f = Event(p) => IsOwn(p, f)'
      BY <2>1, <3>2, <3>3, <3>6 DEF IsOwn
    <3>8. \A f \in Queued(p) : IsOwn(p, f)'
      BY <1>o, <1>f, <2>1, StaysOwn
    <3> QED BY <1>p, <2>1, <2>2, <3>1, <3>7, <3>8
  <2> QED BY <1>3, <2>3, <2>4, EdgeEffect
<1>4. CASE PanelRead(p)
  <2>1. CASE AcceptAddress(p)
    <3> DEFINE a == Accepted(p)
               h == Greeting(p, Incoming(p).address)
    <3>1. a \in Frame /\ h \in Frame
      BY <2>1, AcceptEffect
    <3>2. Queued(p)' \subseteq Queued(p) \cup {a, h}
      <4>1. pending_frame'[p] = None
        <5>1. pending_frame' = [pending_frame EXCEPT ![p] = None]
          BY <2>1, AcceptEffect
        <5> QED BY <5>1, <1>0 DEF NodeTypeOK
      <4>2. CASE tx_queue'[p] = tx_queue[p] \o <<a, h>>
        BY <1>0, <3>1, <4>1, <4>2, ConcatQueued
      <4>3. CASE tx_queue'[p] = Append(tx_queue[p], a)
        <5>1. tx_queue[p] \in Seq(Frame)
          BY <1>0 DEF NodeTypeOK
        <5>2. \A i \in DOMAIN tx_queue'[p] :
                 \/ i \in DOMAIN tx_queue[p] /\ tx_queue'[p][i] = tx_queue[p][i]
                 \/ tx_queue'[p][i] = a
          BY <3>1, <4>3, <5>1, AppendElements
        <5> QED BY <4>1, <5>2 DEF Queued
      <4>4. CASE tx_queue' = tx_queue
        BY <4>1, <4>4, SameQueued
      <4> QED BY <2>1, <4>2, <4>3, <4>4, AcceptEffect
    <3>3. a.type = "Ack" /\ h.type = "Set" /\ h.from = Incoming(p).address /\ h.body = Hello(p)
      BY DEF Accepted, Greeting, Ack, Set
    <3>0. /\ address' = [address EXCEPT ![p] = Incoming(p).address]
          /\ node_type' = [node_type EXCEPT ![p] = "Ready"]
          /\ pending_frame' = [pending_frame EXCEPT ![p] = None]
          /\ node_type[p] = "Joining" /\ node_id' = node_id
          /\ \A q \in Node \ {p} : tx_queue'[q] = tx_queue[q]
      BY <2>1, AcceptEffect
    <3>4. /\ node_type[p] = "Joining" /\ node_type'[p] = "Ready"
          /\ address'[p] = Incoming(p).address /\ node_id' = node_id
      BY <1>0, <3>0 DEF NodeTypeOK
    <3> HIDE DEF a, h
    <3>5. Hello(p) \in ReportsOf(p)'
      BY DEF ReportsOf
    <3>6. \A f \in {a, h} : IsOwn(p, f)'
      BY <3>3, <3>4, <3>5 DEF IsOwn
    <3>7. \A f \in Queued(p) : IsOwn(p, f)'
      BY <1>f, <3>4 DEF IsOwn
    <3>8. \A q \in Node \ {p} :
             /\ UNCHANGED <<node_type[q], node_id[q], address[q]>>
             /\ tx_queue'[q] = tx_queue[q] /\ pending_frame'[q] = pending_frame[q]
      BY <1>0, <3>0 DEF NodeTypeOK
    <3> QED BY <1>p, <3>2, <3>6, <3>7, <3>8, OthersQueued
  <2>2. CASE Drops(p) \/ Settles(p)
    <3>1. UNCHANGED <<node_type, node_id, address, tx_queue>>
      BY <2>2 DEF Drops, Settles, Still
    <3>2. pending_frame'[p] \in {None, pending_frame[p]}
          /\ \A q \in Node \ {p} : pending_frame'[q] = pending_frame[q]
      BY <1>0, <2>2 DEF Drops, Settles, NodeTypeOK
    <3> QED BY <1>p, <1>o, <1>f, <3>1, <3>2, SameQueued, OthersQueued, StaysOwn
  <2>3. CASE Replies(p)
    <3> DEFINE f == Ack(Incoming(p).from, address[p], Incoming(p).to)
    <3>1. f \in Frame /\ f.type = "Ack"
      BY <2>3, ReplyFrame DEF Replies, Ack
    <3>2. Enqueue(p, f) /\ UNCHANGED <<node_type, node_id, address, pending_frame>>
      BY <2>3 DEF Replies, Still
    <3> HIDE DEF f
    <3>3. Queued(p)' \subseteq Queued(p) \cup {f}
      BY <1>0, <3>1, <3>2, EnqueueEffect, AppendQueued, SameQueued
    <3>4. \A q \in Node \ {p} : tx_queue'[q] = tx_queue[q]
      BY <1>0, <3>1, <3>2, EnqueueEffect
    <3>5. \A g : g = f => IsOwn(p, g)'
      BY <3>1 DEF IsOwn
    <3> QED BY <1>p, <1>o, <1>f, <3>2, <3>3, <3>4, <3>5, OthersQueued, StaysOwn
  <2> QED BY <1>4, <2>1, <2>2, <2>3, ReadKinds
<1>5. CASE PowerCycle(p)
  <2>1. /\ \A q \in Node \ {p} : UNCHANGED <<node_type[q], node_id[q], address[q]>>
              /\ tx_queue'[q] = tx_queue[q] /\ pending_frame'[q] = pending_frame[q]
        /\ tx_queue'[p] = <<>> /\ pending_frame'[p] = None
    BY <1>0, <1>5 DEF PowerCycle, ClientRestart, NodeTypeOK
  <2>2. Queued(p)' = {}
    BY <2>1 DEF Queued
  <2> QED BY <1>p, <2>1, <2>2, OthersQueued
<1> QED BY <1>1, <1>2, <1>3, <1>4, <1>5 DEF PanelStep

(* A panel only takes frames off what it has heard.                        *)
LEMMA PanelStepRx ==
    ASSUME TypeOK, NEW p \in Node, PanelStep(p)
    PROVE  \A q \in Node : \A i \in DOMAIN rx'[q] : \E j \in DOMAIN rx[q] : rx'[q][i] = rx[q][j]
<1>0. NodeTypeOK
  BY DEF TypeOK, PanelTypeOK
<1>1. CASE UNCHANGED rx
  BY <1>1
<1>2. CASE PanelRead(p)
  <2>1. Reading(p) /\ TakeFrame(p)
    BY <1>2 DEF PanelRead, AcceptAddress, TakeOffer, PanelReadOther, ReadIgnored, ReadAck,
                ReadSet, ReadPing, ClientReackAddress, ClientRefuse, Reads
  <2> QED BY <1>0, <2>1, ReadShift
<1>3. CASE PowerCycle(p)
  <2>1. rx'[p] = <<>> /\ \A q \in Node \ {p} : rx'[q] = rx[q]
    BY <1>0, <1>3 DEF PowerCycle, ClientRestart, NodeTypeOK
  <2> QED BY <2>1
<1>4. PanelJoin(p) \/ Scan(p) \/ ReportEdge(p) => UNCHANGED rx
  BY DEF PanelJoin, SendJoin, Scan, ReportEdge, nodeVars
<1> QED BY <1>1, <1>2, <1>3, <1>4 DEF PanelStep

LEMMA ManagerQueues ==
    ASSUME OnlyHear
    PROVE  /\ Onward
           /\ \A p \in Node : Queued(p)' = Queued(p)
           /\ UNCHANGED <<node_type, node_id, address, pending_frame, tx_queue, halted, panelVars>>
BY DEF OnlyHear, PanelsOnlyHear, panelVars, Queued, Onward, ReportsOf

LEMMA FramesStep ==
    ASSUME TypeOK, Frames, Panels, Identifiers, Next
    PROVE  Frames'
<1>1. ASSUME NEW p \in Node, PanelStep(p)
      PROVE  Frames'
  <2>0. Onward
    BY <1>1, StepOnward
  <2>1. ASSUME NEW q \in Node, NEW i \in DOMAIN rx'[q]
        PROVE  IsAnswer(rx[q][i])'
    <3>1. PICK j \in DOMAIN rx[q] : rx'[q][i] = rx[q][j]
      BY <1>1, <2>1, PanelStepRx
    <3>2. IsAnswer(rx[q][j])
      BY DEF Frames
    <3>3. drawn \subseteq drawn'
      BY <2>0 DEF Onward
    <3> QED BY <3>1, <3>2, <3>3 DEF IsAnswer
  <2>2. ASSUME NEW q \in Node, NEW f \in Queued(q)'
        PROVE  IsOwn(q, f)'
    <3>1. CASE q = p
      BY <1>1, <2>2, <3>1, PanelStepOwn
    <3>2. CASE q # p
      <4>1. UNCHANGED <<node_type[q], node_id[q], address[q]>> /\ f \in Queued(q)
        BY <1>1, <2>2, <3>2, PanelStepOwn
      <4>2. IsOwn(q, f)
        BY <4>1 DEF Frames
      <4> QED BY <2>0, <4>1, <4>2, StaysOwn
    <3> QED BY <3>1, <3>2
  <2>3. ASSUME NEW i \in DOMAIN port'
        PROVE  IsHeard(port[i])'
    <3>1. port' = port
      BY <1>1, PanelStepOwn
    <3>2. \A f : IsHeard(f) => IsHeard(f)'
      BY <2>0, StaysHeard
    <3>3. IsHeard(port[i])
      BY <2>3, <3>1 DEF Frames
    <3>4. PICK f : f = port[i]
      OBVIOUS
    <3>5. IsHeard(f)' /\ f = port'[i]
      BY <3>1, <3>2, <3>3, <3>4
    <3> QED BY <3>5
  <2> QED BY <2>1, <2>2, <2>3 DEF Frames
<1>2. ASSUME NEW p \in Node, PanelTransmits(p)
      PROVE  Frames'
  <2>0. Onward
    BY <1>2, StepOnward
  <2>1. UNCHANGED <<node_type, node_id, address, drawn, presses, rx>>
    BY <1>2, WriteEffect DEF panelVars
  <2>2. \A q \in Node : \A i \in DOMAIN rx'[q] : IsAnswer(rx[q][i])'
    BY <2>1 DEF Frames, IsAnswer
  <2>3. ASSUME NEW q \in Node, NEW f \in Queued(q)'
        PROVE  IsOwn(q, f)'
    <3>1. f \in Queued(q)
      BY <1>2, <2>3, WriteEffect
    <3> QED BY <2>0, <2>1, <3>1, StaysOwn DEF Frames
  <2>4. ASSUME NEW f, f = Outgoing(p)
        PROVE  IsHeard(f)'
    <3>1. IsOwn(p, f)
      BY <1>2, <2>4, WriteEffect DEF Frames
    <3>2. node_type[p] # "NotReady" => node_id[p] \in drawn
      BY DEF Identifiers
    <3>3. node_type[p] = "Ready" => address[p] \in FirstAddress .. Broadcast
      BY DEF Panels
    <3>4. IsHeard(f)
      BY <3>1, <3>2, <3>3 DEF IsOwn, IsHeard
    <3> QED BY <2>0, <3>4, StaysHeard
  <2>5. ASSUME NEW i \in DOMAIN port', NEW f, f = port'[i]
        PROVE  IsHeard(f)'
    <3>1. \/ i \in DOMAIN port /\ f = port[i]
          \/ f = Outgoing(p)
      <4>1. port \in Seq(Frame) /\ Outgoing(p) \in Frame
        BY <1>2, WriteEffect DEF TypeOK
      <4>2. port' = port \/ port' = Append(port, Outgoing(p))
        BY <1>2, WriteEffect
      <4> QED BY <2>5, <4>1, <4>2, AppendElements
    <3>2. CASE i \in DOMAIN port /\ f = port[i]
      BY <2>0, <3>2, StaysHeard DEF Frames
    <3> QED BY <3>1, <3>2, <2>4
  <2>6. \A i \in DOMAIN port' : IsHeard(port[i])'
    BY <2>5
  <2> QED BY <2>2, <2>3, <2>6 DEF Frames
<1>3. ASSUME ManagerStep \/ StartListener \/ StartProbe \/ ClosePort
      PROVE  Frames'
  <2>0. OnlyHear
    BY <1>3, ManagerHears
  <2>1. /\ UNCHANGED <<node_type, node_id, address, drawn, presses>>
        /\ \A p \in Node : Queued(p)' = Queued(p)
    BY <2>0, ManagerQueues DEF panelVars
  <2>2. PICK F \in SUBSET Frame : Hears(F) /\ \A f \in F : IsAnswer(f)
    BY <2>0 DEF OnlyHear, Replied
  <2>3. \A q \in Node : \A i \in DOMAIN rx'[q] : IsAnswer(rx[q][i])'
    BY <2>1, <2>2 DEF Frames, IsAnswer, Hears
  <2>4. \A q \in Node : \A f \in Queued(q)' : IsOwn(q, f)'
    BY <2>1 DEF Frames, IsOwn, ReportsOf
  <2>5. PICK k \in Nat : \A i \in DOMAIN port' : i + k \in DOMAIN port /\ port'[i] = port[i + k]
    BY <2>0, PortRest DEF OnlyHear, TypeOK
  <2>6. \A i \in DOMAIN port' : IsHeard(port[i])'
    BY <2>1, <2>5 DEF Frames, IsHeard, ReportsOf
  <2> QED BY <2>3, <2>4, <2>6 DEF Frames
<1> QED BY <1>1, <1>2, <1>3 DEF Next

-----------------------------------------------------------------------------
(* The state of the panels.                                                *)

LEMMA TransmitsKeepsPanels ==
    ASSUME TypeOK, NEW p \in Node, PanelTransmits(p)
    PROVE  UNCHANGED <<node_type, node_id, address, halted, level, old, runtime, drawn, presses>>
BY WriteEffect DEF panelVars

LEMMA ManagerKeepsPanels ==
    ASSUME TypeOK, Frames, ManagerStep \/ StartListener \/ StartProbe \/ ClosePort
    PROVE  /\ UNCHANGED <<node_type, node_id, address, halted, level, old, runtime, drawn, presses>>
           /\ UNCHANGED <<pending_frame, tx_queue>>
BY ManagerHears, ManagerQueues DEF panelVars

LEMMA PanelsStep ==
    ASSUME TypeOK, Frames, Panels, AddressesAgree, Next
    PROVE  Panels' /\ AddressesAgree'
<1>0. NodeTypeOK /\ PanelTypeOK
  BY DEF TypeOK, PanelTypeOK
<1>1. ASSUME NEW p \in Node, PanelStep(p)
      PROVE  Panels' /\ AddressesAgree'
  <2>1. CASE PanelJoin(p)
    <3>1. /\ node_type[p] = "NotReady" /\ node_type' = [node_type EXCEPT ![p] = "Joining"]
          /\ UNCHANGED <<address, level, old, runtime, presses>>
      BY <2>1 DEF PanelJoin, SendJoin
    <3>2. \A q \in Node : q \in halted => q \in halted'
      BY <2>1 DEF PanelJoin, SendJoin, Enqueue
    <3>3. /\ node_type'[p] = "Joining"
          /\ \A q \in Node \ {p} : node_type'[q] = node_type[q]
      BY <1>0, <3>1 DEF NodeTypeOK
    <3>4. Panels'
      BY <3>1, <3>3 DEF Panels
    <3> QED BY <3>1, <3>2, <3>3, <3>4 DEF AddressesAgree, Panels
  <2>2. CASE Scan(p)
    <3>1. /\ level[p] \/ presses[p] < MaxPresses[p]
          /\ UNCHANGED <<node_type, address, halted, runtime, old, presses>>
          /\ \A q \in Node \ {p} : level'[q] = level[q]
          /\ level'[p] = ~level[p]
      BY <1>0, <2>2 DEF Scan, nodeVars, PanelTypeOK
    <3> QED BY <3>1 DEF Panels, AddressesAgree
  <2>3. CASE ReportEdge(p)
    <3>1. /\ UNCHANGED <<node_type, address, halted, runtime, level>>
          /\ \A q \in Node \ {p} : old'[q] = old[q] /\ presses'[q] = presses[q]
          /\ old'[p] = level[p]
      BY <1>0, <2>3, EdgeEffect DEF PanelTypeOK
    <3> QED BY <3>1 DEF Panels, AddressesAgree
  <2>4. CASE PanelRead(p)
    <3>1. CASE AcceptAddress(p)
      <4>1. /\ address' = [address EXCEPT ![p] = Incoming(p).address]
            /\ node_type' = [node_type EXCEPT ![p] = "Ready"]
            /\ UNCHANGED <<level, old, presses>>
            /\ node_type[p] = "Joining" /\ Incoming(p).type = "SetAddress"
            /\ Reading(p) /\ TakeFrame(p)
            /\ \/ halted' = halted \cup {p} /\ UNCHANGED runtime
               \/ runtime' = [runtime EXCEPT ![p] = Incoming(p).address] /\ UNCHANGED halted
        BY <3>1, AcceptEffect
      <4>2. Incoming(p).address \in FirstAddress .. Broadcast
        <5>1. IsAnswer(Incoming(p))
          BY <1>0, <4>1, ReadFrame DEF Frames
        <5> QED BY <4>1, <5>1 DEF IsAnswer
      <4>3. /\ address'[p] = Incoming(p).address /\ node_type'[p] = "Ready"
            /\ \A q \in Node \ {p} : address'[q] = address[q] /\ node_type'[q] = node_type[q]
                                    /\ runtime'[q] = runtime[q]
            /\ \/ p \in halted' /\ runtime'[p] = runtime[p]
               \/ p \notin halted /\ runtime'[p] = Incoming(p).address
            /\ \A q \in Node \ {p} : q \in halted' <=> q \in halted
        BY <1>0, <4>1 DEF NodeTypeOK, PanelTypeOK, Reading
      <4>4. runtime[p] = None
        BY <4>1 DEF Panels
      <4>5. Panels'
        BY <4>1, <4>2, <4>3, <4>4 DEF Panels
      <4> QED BY <4>3, <4>4, <4>5 DEF AddressesAgree
    <3>2. CASE Drops(p) \/ Settles(p)
      BY <3>2 DEF Drops, Settles, Still, panelVars, Panels, AddressesAgree
    <3>3. CASE Replies(p)
      <4>1. UNCHANGED <<node_type, address, level, old, runtime, presses>>
        BY <3>3 DEF Replies, Still, panelVars
      <4>2. \A q \in Node : q \in halted => q \in halted'
        BY <3>3 DEF Replies, Enqueue
      <4> QED BY <4>1, <4>2 DEF Panels, AddressesAgree
    <3> QED BY <2>4, <3>1, <3>2, <3>3, ReadKinds
  <2>5. CASE PowerCycle(p)
    <3>1. /\ node_type'[p] = "NotReady" /\ address'[p] = Unassigned /\ runtime'[p] = None
          /\ level'[p] = FALSE /\ presses' = presses
          /\ \A q \in Node \ {p} :
                /\ node_type'[q] = node_type[q] /\ address'[q] = address[q]
                /\ runtime'[q] = runtime[q] /\ level'[q] = level[q] /\ old'[q] = old[q]
                /\ q \in halted' <=> q \in halted
      BY <1>0, <2>5 DEF PowerCycle, ClientRestart, NodeTypeOK, PanelTypeOK
    <3> QED BY <3>1 DEF Panels, AddressesAgree
  <2> QED BY <1>1, <2>1, <2>2, <2>3, <2>4, <2>5 DEF PanelStep
<1>2. ASSUME NEW p \in Node, PanelTransmits(p)
      PROVE  Panels' /\ AddressesAgree'
  BY <1>2, TransmitsKeepsPanels DEF Panels, AddressesAgree
<1>3. ASSUME ManagerStep \/ StartListener \/ StartProbe \/ ClosePort
      PROVE  Panels' /\ AddressesAgree'
  BY <1>3, ManagerKeepsPanels DEF Panels, AddressesAgree
<1> QED BY <1>1, <1>2, <1>3 DEF Next

LEMMA IdentifiersStep ==
    ASSUME TypeOK, Frames, Panels, Identifiers, Next
    PROVE  Identifiers'
<1>0. NodeTypeOK /\ PanelTypeOK
  BY DEF TypeOK, PanelTypeOK
<1>1. ASSUME NEW p \in Node, PanelStep(p)
      PROVE  Identifiers'
  <2>1. CASE PanelJoin(p)
    <3>1. PICK id \in Id \ drawn : SendJoin(p, id) /\ drawn' = drawn \cup {id}
      BY <2>1 DEF PanelJoin
    <3>2. /\ node_id'[p] = id
          /\ \A q \in Node \ {p} : node_type'[q] = node_type[q] /\ node_id'[q] = node_id[q]
      BY <1>0, <3>1 DEF SendJoin, NodeTypeOK
    <3> QED BY <3>1, <3>2 DEF Identifiers
  <2>2. CASE PanelRead(p)
    <3>1. CASE AcceptAddress(p)
      <4>1. /\ node_type' = [node_type EXCEPT ![p] = "Ready"] /\ UNCHANGED <<node_id, drawn>>
            /\ node_type[p] = "Joining"
        BY <3>1, AcceptEffect
      <4>2. \A q \in Node : node_type'[q] # "NotReady" <=> node_type[q] # "NotReady"
        BY <1>0, <4>1 DEF NodeTypeOK
      <4> QED BY <4>1, <4>2 DEF Identifiers
    <3>2. CASE Drops(p) \/ Settles(p) \/ Replies(p)
      BY <3>2 DEF Drops, Settles, Replies, Still, panelVars, Identifiers
    <3> QED BY <2>2, <3>1, <3>2, ReadKinds
  <2>3. CASE PowerCycle(p)
    <3>1. /\ node_type'[p] = "NotReady" /\ UNCHANGED drawn
          /\ \A q \in Node \ {p} : node_type'[q] = node_type[q] /\ node_id'[q] = node_id[q]
      BY <1>0, <2>3 DEF PowerCycle, ClientRestart, NodeTypeOK
    <3> QED BY <3>1 DEF Identifiers
  <2>4. Scan(p) \/ ReportEdge(p) => UNCHANGED <<node_type, node_id, drawn>>
    BY DEF Scan, ReportEdge, nodeVars
  <2>5. CASE UNCHANGED <<node_type, node_id, drawn>>
    BY <2>5 DEF Identifiers
  <2> QED BY <1>1, <2>1, <2>2, <2>3, <2>4, <2>5 DEF PanelStep
<1>2. ASSUME NEW p \in Node, PanelTransmits(p)
      PROVE  Identifiers'
  BY <1>2, TransmitsKeepsPanels DEF Identifiers
<1>3. ASSUME ManagerStep \/ StartListener \/ StartProbe \/ ClosePort
      PROVE  Identifiers'
  BY <1>3, ManagerKeepsPanels DEF Identifiers
<1> QED BY <1>1, <1>2, <1>3 DEF Next

-----------------------------------------------------------------------------
(* The tables.                                                             *)

(* Only a Join that the listener handles changes the table of addresses.   *)
LEMMA AddressesKept ==
    ASSUME Next, ~ClosePort, ~(\E heard \in SUBSET Reachable : HandleJoin(heard))
    PROVE  UNCHANGED <<join_addresses, next_address, exhausted>>
<1>1. \A p \in Node : PanelStep(p) \/ PanelTransmits(p) =>
                         UNCHANGED <<join_addresses, next_address, exhausted>>
  BY DEF PanelStep, managerVars, PanelTransmits, tables
<1>2. ManagerStep => UNCHANGED <<join_addresses, next_address, exhausted>>
  BY DEF ManagerStep, SkipFrame, HandleControlEvent, ProbeJoin, ChildHello, HandleHello,
         ProbeHello, ManagerUnchanged, tables
<1>3. StartListener \/ StartProbe => UNCHANGED <<join_addresses, next_address, exhausted>>
  BY DEF StartListener, StartProbe, Open, tables
<1> QED BY <1>1, <1>2, <1>3 DEF Next

LEMMA NextOnward ==
    ASSUME TypeOK, Frames, Panels, Next
    PROVE  Onward
<1>1. ManagerStep \/ StartListener \/ StartProbe \/ ClosePort => Onward
  BY ManagerHears, ManagerQueues
<1> QED BY <1>1, StepOnward DEF Next

(* What the handling of a Join does to the table.                          *)
LEMMA JoinEffect ==
    ASSUME TypeOK, Frames, NEW heard, HandleJoin(heard)
    PROVE  /\ Received.id \in Id /\ Received.id \in drawn
           /\ mode = "listen" /\ mode' = mode /\ strangers' = strangers
           /\ exhausted' = (exhausted \/ Offer(Received.id) = Broadcast)
           /\ join_addresses'[Received.id] = Offer(Received.id)
           /\ \A id \in Id \ {Received.id} : join_addresses'[id] = join_addresses[id]
           /\ UNCHANGED <<known_devices, requested_children, pressed_buttons, pushes>>
           /\ port # <<>> /\ port' = Tail(port) /\ Received.type = "Join"
           /\ Offer(Received.id) \in FirstAddress .. Broadcast
           /\ join_addresses[Received.id] # None =>
                 /\ Offer(Received.id) = join_addresses[Received.id]
                 /\ next_address' = next_address
           /\ join_addresses[Received.id] = None =>
                 /\ Offer(Received.id) = next_address
                 /\ IF next_address = Broadcast THEN next_address' = Broadcast
                    ELSE next_address' = next_address + 1
<1>1. Received.id \in Id /\ Received.id \in drawn
  BY ReceivedFrame DEF HandleJoin, Receives
<1>2. Offer(Received.id) \in FirstAddress .. Broadcast
  BY <1>1, OfferInRange
<1>3. /\ join_addresses'[Received.id] = Offer(Received.id)
      /\ \A id \in Id \ {Received.id} : join_addresses'[id] = join_addresses[id]
  BY <1>1 DEF HandleJoin, TypeOK
<1> QED BY <1>1, <1>2, <1>3 DEF HandleJoin, Receives, SessionUnchanged, Offer, NextAddress

LEMMA TablesStep ==
    ASSUME TypeOK, Frames, Panels, Tables, Next
    PROVE  Tables'
<1>1. drawn \subseteq drawn'
  BY NextOnward DEF Onward
<1>2. CASE UNCHANGED <<join_addresses, next_address>>
  BY <1>1, <1>2 DEF Tables
<1>3. CASE ClosePort
  BY <1>3 DEF ClosePort, NoAddresses, Tables
<1>4. ASSUME NEW heard, HandleJoin(heard)
      PROVE  Tables'
  <2>1. CASE join_addresses[Received.id] # None
    <3>1. next_address' = next_address /\ \A id \in Id : join_addresses'[id] = join_addresses[id]
      BY <1>4, <2>1, JoinEffect
    <3> QED BY <1>1, <3>1 DEF Tables
  <2>2. CASE join_addresses[Received.id] = None
    <3>1. /\ Received.id \in Id /\ Received.id \in drawn
          /\ join_addresses'[Received.id] = next_address
          /\ \A id \in Id \ {Received.id} : join_addresses'[id] = join_addresses[id]
          /\ IF next_address = Broadcast THEN next_address' = Broadcast
             ELSE next_address' = next_address + 1
      BY <1>4, <2>2, JoinEffect
    <3>2. next_address \in FirstAddress .. Broadcast /\ next_address \in Nat
      BY DEF TypeOK, FirstAddress, Broadcast
    <3>3. \A id \in Id : join_addresses[id] # None =>
             /\ id \in drawn /\ join_addresses[id] \in FirstAddress .. Broadcast
             /\ join_addresses[id] \in Nat
             /\ (join_addresses[id] < next_address \/ join_addresses[id] = Broadcast)
      BY DEF Tables, FirstAddress, Broadcast
    <3>4. Broadcast \in Nat
      BY DEF Broadcast
    <3>5. ASSUME NEW id \in Id, join_addresses'[id] # None
          PROVE  /\ id \in drawn' /\ join_addresses'[id] \in FirstAddress .. Broadcast
                 /\ (join_addresses'[id] < next_address' \/ join_addresses'[id] = Broadcast)
      <4>1. CASE id = Received.id
        BY <1>1, <3>1, <3>2, <4>1
      <4>2. CASE id # Received.id
        <5>1. join_addresses'[id] = join_addresses[id] /\ join_addresses[id] # None
          BY <3>1, <3>5, <4>2
        <5> QED BY <1>1, <3>1, <3>2, <3>3, <3>4, <5>1
      <4> QED BY <4>1, <4>2
    <3>6. ASSUME NEW i \in Id, NEW j \in Id, join_addresses'[i] = join_addresses'[j],
                 join_addresses'[i] # None, i # j
          PROVE  join_addresses'[i] = Broadcast
      <4>1. CASE i # Received.id /\ j # Received.id
        BY <3>1, <3>6, <4>1 DEF Tables
      <4>2. CASE i = Received.id
        <5>1. join_addresses[j] = next_address /\ join_addresses[j] # None
          BY <3>1, <3>6, <4>2
        <5> QED BY <3>1, <3>2, <3>3, <4>2, <5>1
      <4>3. CASE j = Received.id
        <5>1. join_addresses[i] = next_address /\ join_addresses[i] # None
          BY <3>1, <3>6, <4>3
        <5> QED BY <3>1, <3>2, <3>3, <3>6, <4>3, <5>1
      <4> QED BY <4>1, <4>2, <4>3
    <3> QED BY <3>5, <3>6 DEF Tables
  <2> QED BY <2>1, <2>2
<1> QED BY <1>2, <1>3, <1>4, AddressesKept

LEMMA SessionsStep ==
    ASSUME TypeOK, Sessions, Next
    PROVE  Sessions'
<1>1. ASSUME NEW p \in Node, PanelStep(p)
      PROVE  Sessions'
  BY <1>1 DEF PanelStep, managerVars, tables, Sessions
<1>2. ASSUME NEW p \in Node, PanelTransmits(p)
      PROVE  Sessions'
  BY <1>2, WriteEffect DEF tables, Sessions
<1>3. ASSUME NEW heard, NEW asked,
             HandleJoin(heard) \/ HandleHello(heard, asked) \/ HandleControlEvent(heard)
      PROVE  Sessions'
  BY <1>3 DEF HandleJoin, HandleHello, HandleControlEvent, Receives, ManagerUnchanged,
              SessionUnchanged, Sessions
<1>4. ASSUME NEW heard, NEW asked,
             SkipFrame \/ ProbeJoin(heard) \/ ChildHello(heard) \/ ProbeHello(heard, asked)
      PROVE  Sessions'
  <2>1. CASE SkipFrame
    BY <2>1 DEF SkipFrame, ManagerUnchanged, SessionUnchanged, tables, Sessions
  <2>2. CASE ProbeJoin(heard) \/ ChildHello(heard)
    BY <2>2 DEF ProbeJoin, ChildHello, Receives, ManagerUnchanged, SessionUnchanged,
                tables, Sessions
  <2>3. CASE ProbeHello(heard, asked)
    BY <2>3 DEF ProbeHello, tables, Sessions
  <2> QED BY <1>4, <2>1, <2>2, <2>3
<1>5. CASE StartListener \/ StartProbe
  BY <1>5 DEF StartListener, StartProbe, Open, tables, Sessions
<1>6. CASE ClosePort
  BY <1>6 DEF ClosePort, Sessions
<1>7. CASE ManagerStep
  BY <1>3, <1>4, <1>7 DEF ManagerStep
<1> QED BY <1>1, <1>2, <1>5, <1>6, <1>7 DEF Next

-----------------------------------------------------------------------------
(* Before the addresses run out.                                           *)

LEMMA PanelStepOthers ==
    ASSUME TypeOK, Frames, Panels, NEW p \in Node, PanelStep(p)
    PROVE  /\ UNCHANGED managerVars
           /\ \A q \in Node \ {p} :
                 /\ UNCHANGED <<node_type[q], node_id[q], address[q], pending_frame[q],
                                tx_queue[q], rx[q], presses[q]>>
                 /\ q \in halted' <=> q \in halted
<1>0. NodeTypeOK /\ PanelTypeOK
  BY DEF TypeOK, PanelTypeOK
<1>m. UNCHANGED managerVars
  BY DEF PanelStep
<1> SUFFICES ASSUME NEW q \in Node \ {p}
             PROVE  /\ UNCHANGED <<node_type[q], node_id[q], address[q], pending_frame[q],
                                   tx_queue[q], rx[q], presses[q]>>
                    /\ q \in halted' <=> q \in halted
  BY <1>m
<1>1. CASE PanelJoin(p)
  BY <1>0, <1>1 DEF PanelJoin, SendJoin, Enqueue, NodeTypeOK
<1>2. CASE Scan(p)
  BY <1>2 DEF Scan, nodeVars
<1>3. CASE ReportEdge(p)
  <2>1. presses'[q] = presses[q]
    BY <1>0, <1>3, EdgeEffect DEF PanelTypeOK
  <2> QED BY <1>3, <2>1, EdgeEffect
<1>4. CASE AcceptAddress(p)
  <2>1. /\ address' = [address EXCEPT ![p] = Incoming(p).address]
        /\ node_type' = [node_type EXCEPT ![p] = "Ready"]
        /\ pending_frame' = [pending_frame EXCEPT ![p] = None]
        /\ TakeFrame(p) /\ UNCHANGED <<node_id, presses>>
        /\ tx_queue'[q] = tx_queue[q]
        /\ halted' = halted \cup {p} \/ halted' = halted
    BY <1>4, AcceptEffect
  <2> QED BY <1>0, <2>1 DEF TakeFrame, NodeTypeOK
<1>5. CASE Drops(p) \/ Settles(p) \/ Replies(p)
  BY <1>0, <1>5 DEF Drops, Settles, Replies, Still, Enqueue, TakeFrame, panelVars, NodeTypeOK
<1>6. CASE PowerCycle(p)
  BY <1>0, <1>6 DEF PowerCycle, ClientRestart, NodeTypeOK
<1> QED BY <1>1, <1>2, <1>3, <1>4, <1>5, <1>6, ReadKinds DEF PanelStep

(* A panel without an address is not addressed, save by an offer.          *)
LEMMA NotAddressed ==
    ASSUME TypeOK, Frames, Panels, NEW p \in Node, Quiet(p), node_type[p] # "Ready",
           Reading(p), TakeFrame(p), Addressed(p)
    PROVE  Incoming(p).type = "SetAddress"
<1>1. NodeTypeOK
  BY DEF TypeOK, PanelTypeOK
<1>2. /\ Incoming(p) = rx[p][1] /\ 1 \in DOMAIN rx[p]
  BY <1>1, ReadFrame
<1>3. IsAnswer(Incoming(p)) /\ Narrow(Incoming(p))
  BY <1>2 DEF Frames, Quiet
<1>4. address[p] = Unassigned
  BY DEF Panels
<1> QED BY <1>3, <1>4 DEF IsAnswer, Narrow, Addressed, Unassigned, FirstAddress, Broadcast

LEMMA QuietKept ==
    ASSUME TypeOK, Frames, Panels, NEW q \in Node, Quiet(q),
           UNCHANGED <<node_type[q], node_id[q], address[q], pending_frame[q], tx_queue[q],
                       join_addresses, port>>,
           q \in halted' <=> q \in halted,
           \A i \in DOMAIN rx'[q] : \E j \in DOMAIN rx[q] : rx'[q][i] = rx[q][j]
    PROVE  Quiet(q)'
<1>1. \A i \in DOMAIN rx'[q] : Narrow(rx'[q][i])
  BY DEF Quiet
<1>2. Unsent(q) => Unsent(q)'
  BY DEF Unsent
<1> QED BY <1>1, <1>2 DEF Quiet, Narrow

LEMMA QuietPanel ==
    ASSUME TypeOK, Frames, Panels, Tables, NEW p \in Node, PanelStep(p), Quiet(p)
    PROVE  Quiet(p)'
<1>0. NodeTypeOK /\ PanelTypeOK
  BY DEF TypeOK, PanelTypeOK
<1>m. UNCHANGED <<join_addresses, port>>
  BY DEF PanelStep, managerVars, tables
<1>r. /\ \A i \in DOMAIN rx'[p] : \E j \in DOMAIN rx[p] : rx'[p][i] = rx[p][j]
      /\ \A i \in DOMAIN rx'[p] : Narrow(rx'[p][i])
  BY PanelStepRx DEF Quiet
<1>b. Unassigned # Broadcast
  BY DEF Unassigned, Broadcast
<1>1. CASE PanelJoin(p)
  <2>1. PICK id \in Id \ drawn : SendJoin(p, id)
    BY <1>1 DEF PanelJoin
  <2> DEFINE f == Join(MasterAddress, address[p], id)
  <2>2. f \in Frame
    BY <1>0, Addresses, FrameConstructors DEF NodeTypeOK
  <2>3. node_type[p] = "NotReady" /\ p \notin halted /\ pending_frame[p] = None /\ tx_queue[p] = <<>>
    BY <1>1 DEF PanelJoin, Quiet
  <2>4. /\ node_type'[p] = "Joining" /\ node_id'[p] = id
        /\ UNCHANGED <<address, pending_frame, rx>> /\ Enqueue(p, f)
    BY <1>0, <2>1 DEF SendJoin, NodeTypeOK
  <2> HIDE DEF f
  <2>5. tx_queue'[p] = Append(tx_queue[p], f) /\ halted' = halted
    BY <1>0, <2>2, <2>3, <2>4, EnqueueEffect
  <2>6. Len(tx_queue'[p]) = 1
    BY <2>3, <2>5
  <2>7. join_addresses'[id] = None
    BY <1>m DEF Tables
  <2>8. \A i \in DOMAIN rx[p] : ~(rx[p][i].type = "SetAddress" /\ rx[p][i].id = id)
    BY DEF Frames, IsAnswer
  <2>9. \A i \in DOMAIN port : ~(port[i].type = "Join" /\ port[i].id = id)
    BY DEF Frames, IsHeard
  <2>10. Unsent(p)'
    BY <1>m, <2>3, <2>4, <2>6, <2>7, <2>8, <2>9 DEF Unsent
  <2> QED BY <1>r, <2>3, <2>4, <2>5, <2>10 DEF Quiet, Narrow
<1>2. CASE Scan(p)
  BY <1>m, <1>r, <1>2, QuietKept DEF Scan, nodeVars
<1>3. CASE ReportEdge(p)
  <2>1. UNCHANGED <<node_type, node_id, address, pending_frame, rx, halted>>
        /\ (tx_queue' = tx_queue \/ runtime[p] # None)
    BY <1>3, EdgeEffect
  <2>2. CASE tx_queue' = tx_queue
    BY <1>m, <1>r, <2>1, <2>2, QuietKept
  <2>3. CASE node_type[p] = "Ready"
    BY <1>r, <2>1, <2>3 DEF Quiet, Narrow
  <2> QED BY <2>1, <2>2, <2>3 DEF Panels
<1>4. CASE AcceptAddress(p)
  <2>1. /\ Reading(p) /\ TakeFrame(p) /\ Incoming(p).type = "SetAddress"
        /\ address' = [address EXCEPT ![p] = Incoming(p).address]
        /\ node_type' = [node_type EXCEPT ![p] = "Ready"]
    BY <1>4, AcceptEffect
  <2>2. Narrow(Incoming(p))
    BY <1>0, <2>1, ReadFrame DEF Quiet
  <2>3. address'[p] # Broadcast /\ node_type'[p] = "Ready"
    BY <1>0, <2>1, <2>2 DEF Narrow, NodeTypeOK
  <2> QED BY <1>r, <2>3 DEF Quiet, Narrow
<1>5. CASE Drops(p)
  BY <1>m, <1>r, <1>5, QuietKept DEF Drops, Still
<1>6. CASE Settles(p) \/ Replies(p)
  <2>1. /\ Reading(p) /\ TakeFrame(p) /\ Addressed(p) /\ Incoming(p).type # "SetAddress"
        /\ UNCHANGED <<node_type, address>>
    BY <1>6 DEF Settles, Replies, Still
  <2>2. node_type[p] = "Ready"
    BY <2>1, NotAddressed
  <2> QED BY <1>r, <2>1, <2>2 DEF Quiet, Narrow
<1>7. CASE PowerCycle(p)
  <2>1. /\ node_type'[p] = "NotReady" /\ address'[p] = Unassigned
        /\ pending_frame'[p] = None /\ tx_queue'[p] = <<>> /\ p \notin halted'
    BY <1>0, <1>7 DEF PowerCycle, ClientRestart, NodeTypeOK
  <2> QED BY <1>b, <1>r, <2>1 DEF Quiet, Narrow
<1> QED BY <1>1, <1>2, <1>3, <1>4, <1>5, <1>6, <1>7, ReadKinds DEF PanelStep

LEMMA QuietTransmits ==
    ASSUME TypeOK, Frames, Panels, Identifiers, Unicast, ~exhausted,
           NEW p \in Node, PanelTransmits(p), NEW q \in Node
    PROVE  Quiet(q)'
<1>1. /\ UNCHANGED <<node_type, node_id, address, rx, halted, join_addresses>>
      /\ Outgoing(p) \in Queued(p) /\ Outgoing(p) \in Frame
      /\ port' = port \/ port' = Append(port, Outgoing(p))
      /\ port \in Seq(Frame)
  BY WriteEffect DEF tables, TypeOK
<1>2. Quiet(p) /\ Quiet(q)
  BY DEF Unicast
<1>3. ASSUME NEW i \in DOMAIN port'
      PROVE  \/ i \in DOMAIN port /\ port'[i] = port[i]
             \/ port'[i] = Outgoing(p)
  BY <1>1, <1>3, AppendElements
<1>4. CASE q # p
  <2>1. UNCHANGED <<pending_frame[q], tx_queue[q]>>
    BY <1>4, WriteEffect
  <2>2. ASSUME Unsent(q), node_type[q] = "Joining"
        PROVE  Unsent(q)'
    <3>1. ASSUME NEW i \in DOMAIN port', port'[i].type = "Join", port'[i].id = node_id[q]
          PROVE  FALSE
      <4>1. port'[i] = Outgoing(p)
        BY <1>3, <2>2, <3>1 DEF Unsent
      <4>2. IsOwn(p, Outgoing(p)) /\ Outgoing(p).type = "Join" /\ Outgoing(p).id = node_id[q]
        BY <1>1, <3>1, <4>1 DEF Frames
      <4>3. node_type[p] # "NotReady" /\ node_id[p] = node_id[q]
        BY <4>2 DEF IsOwn
      <4> QED BY <1>4, <2>2, <4>3 DEF Identifiers
    <3> QED BY <1>1, <2>1, <2>2, <3>1 DEF Unsent
  <2> QED BY <1>1, <1>2, <2>1, <2>2 DEF Quiet, Narrow
<1>5. CASE q = p
  <2>1. Queued(p) # {}
    BY <1>1
  <2>2. node_type[p] # "NotReady"
    BY <1>2, <2>1 DEF Quiet, Queued
  <2>3. CASE node_type[p] = "Joining"
    <3>1. /\ IF pending_frame[p] = None THEN tx_queue[p] # <<>> /\ tx_queue'[p] = Tail(tx_queue[p])
             ELSE tx_queue'[p] = tx_queue[p]
          /\ tx_queue[p] \in Seq(Frame)
      BY WriteEffect DEF TypeOK, PanelTypeOK, NodeTypeOK
    <3>2. tx_queue'[p] = <<>>
      <4>1. CASE Unsent(p)
        <5>1. pending_frame[p] = None /\ Len(tx_queue[p]) = 1
          BY <4>1 DEF Unsent
        <5>2. tx_queue'[p] = Tail(tx_queue[p]) /\ tx_queue[p] # <<>>
          BY <3>1, <5>1
        <5>3. tx_queue'[p] \in Seq(Frame) /\ Len(tx_queue'[p]) = 0
          BY <3>1, <5>1, <5>2, TailElements
        <5> QED BY <5>3
      <4>2. CASE tx_queue[p] = <<>>
        BY <3>1, <4>2
      <4> QED BY <1>2, <2>3, <4>1, <4>2 DEF Quiet
    <3> QED BY <1>1, <1>2, <1>5, <2>3, <3>2 DEF Quiet, Narrow
  <2>4. CASE node_type[p] # "Joining"
    BY <1>1, <1>2, <1>5, <2>2, <2>4 DEF Quiet, Narrow
  <2> QED BY <2>3, <2>4
<1> QED BY <1>4, <1>5

LEMMA QuietManager ==
    ASSUME TypeOK, Frames, Panels, Identifiers, Unicast, ~exhausted',
           ManagerStep \/ StartListener \/ StartProbe \/ ClosePort, ~exhausted,
           NEW q \in Node
    PROVE  Quiet(q)'
<1>0. OnlyHear
  BY ManagerHears
<1>1. UNCHANGED <<node_type, node_id, address, pending_frame, tx_queue, halted>>
  BY <1>0, ManagerQueues
<1>2. PICK F \in SUBSET Frame : Hears(F) /\ \A f \in F : Replied(f)
  BY <1>0 DEF OnlyHear
<1>3. Quiet(q)
  BY DEF Unicast
<1>4. ASSUME NEW i \in DOMAIN rx'[q]
      PROVE  \/ i \in DOMAIN rx[q] /\ rx'[q][i] = rx[q][i]
             \/ Replied(rx'[q][i])
  BY <1>2, <1>4 DEF Hears
<1>5. ASSUME NEW f, Replied(f)
      PROVE  Narrow(f)
  <2>1. port # <<>> => 1 \in DOMAIN port /\ Received = port[1]
    BY ReceivedFrame
  <2>2. port # <<>> /\ Received.type = "Set" => Received.from # Broadcast
    BY <2>1 DEF Unicast
  <2>3. f.type = "SetAddress" => f.address # Broadcast /\ f.to = Unassigned
    BY <1>5 DEF Replied, IsAnswer
  <2>4. f.type # "SetAddress" => f.to # Broadcast
    BY <1>5, <2>2 DEF Replied, FirstAddress, Broadcast
  <2> QED BY <2>3, <2>4 DEF Narrow, Unassigned, Broadcast
<1>6. ASSUME Unsent(q), node_type[q] = "Joining"
      PROVE  Unsent(q)'
  <2>1. /\ pending_frame[q] = None /\ Len(tx_queue[q]) = 1
        /\ join_addresses[node_id[q]] = None
        /\ \A i \in DOMAIN rx[q] :
              ~(rx[q][i].type = "SetAddress" /\ rx[q][i].id = node_id[q])
        /\ \A i \in DOMAIN port : ~(port[i].type = "Join" /\ port[i].id = node_id[q])
    BY <1>6 DEF Unsent
  <2>2. port # <<>> /\ Received.type = "Join" => Received.id # node_id[q]
    BY <2>1, ReceivedFrame
  <2>3. \A i \in DOMAIN rx'[q] : ~(rx'[q][i].type = "SetAddress" /\ rx'[q][i].id = node_id[q])
    BY <1>4, <2>1, <2>2 DEF Replied
  <2>4. \A i \in DOMAIN port' : ~(port'[i].type = "Join" /\ port'[i].id = node_id[q])
    BY <1>0, <2>1, PortRest DEF OnlyHear, TypeOK
  <2>5. node_id[q] \in Id
    BY <1>6 DEF Identifiers, TypeOK, PanelTypeOK
  <2>6. join_addresses'[node_id[q]] = None
    <3>1. CASE ClosePort
      BY <2>5, <3>1 DEF ClosePort, NoAddresses
    <3>2. ASSUME NEW heard, HandleJoin(heard)
          PROVE  join_addresses'[node_id[q]] = None
      BY <2>1, <2>2, <2>5, <3>2, JoinEffect
    <3> QED BY <2>1, <3>1, <3>2, AddressesKept DEF Next
  <2> QED BY <1>1, <2>1, <2>3, <2>4, <2>6 DEF Unsent
<1>7. \A i \in DOMAIN rx'[q] : Narrow(rx'[q][i])
  BY <1>3, <1>4, <1>5 DEF Quiet
<1> QED BY <1>1, <1>3, <1>6, <1>7 DEF Quiet, Narrow

LEMMA UnicastStep ==
    ASSUME TypeOK, Frames, Panels, Identifiers, Tables, Unicast, Next
    PROVE  Unicast'
<1> SUFFICES ASSUME ~exhausted'
             PROVE  /\ \A id \in Id : join_addresses'[id] # Broadcast
                    /\ \A i \in DOMAIN port' : port'[i].type = "Set" => port'[i].from # Broadcast
                    /\ \A q \in Node : Quiet(q)'
  BY DEF Unicast
<1>0. ~exhausted
  <2>1. ASSUME NEW heard, HandleJoin(heard) PROVE ~exhausted
    BY <2>1, JoinEffect
  <2>2. ClosePort => ~exhausted
    BY DEF ClosePort
  <2> QED BY <2>1, <2>2, AddressesKept
<1>1. /\ \A id \in Id : join_addresses[id] # Broadcast
      /\ \A i \in DOMAIN port : port[i].type = "Set" => port[i].from # Broadcast
      /\ \A q \in Node : Quiet(q)
  BY <1>0 DEF Unicast
<1>2. ASSUME NEW p \in Node, PanelStep(p), NEW q \in Node
      PROVE  UNCHANGED port /\ Quiet(q)'
  <2>1. UNCHANGED <<port, join_addresses>>
    BY <1>2 DEF PanelStep, managerVars, tables
  <2>2. CASE q = p
    BY <1>1, <1>2, <2>1, <2>2, QuietPanel
  <2>3. CASE q # p
    BY <1>1, <1>2, <2>1, <2>3, PanelStepOthers, PanelStepRx, QuietKept
  <2> QED BY <2>1, <2>2, <2>3
<1>3. ASSUME NEW p \in Node, PanelTransmits(p), NEW i \in DOMAIN port', port'[i].type = "Set"
      PROVE  port'[i].from # Broadcast
  <2>1. /\ port' = port \/ port' = Append(port, Outgoing(p))
        /\ Outgoing(p) \in Queued(p) /\ Outgoing(p) \in Frame /\ port \in Seq(Frame)
    BY <1>3, WriteEffect DEF TypeOK
  <2>2. \/ i \in DOMAIN port /\ port'[i] = port[i]
        \/ port'[i] = Outgoing(p)
    BY <1>3, <2>1, AppendElements
  <2>3. IsOwn(p, Outgoing(p)) /\ address[p] # Broadcast
    BY <1>1, <2>1 DEF Frames, Quiet
  <2> QED BY <1>1, <1>3, <2>2, <2>3 DEF IsOwn
<1>4. ASSUME ManagerStep \/ StartListener \/ StartProbe \/ ClosePort,
             NEW i \in DOMAIN port', port'[i].type = "Set"
      PROVE  port'[i].from # Broadcast
  BY <1>1, <1>4, ManagerHears, PortRest DEF OnlyHear, TypeOK
<1>5. \A id \in Id : join_addresses'[id] # Broadcast
  <2>1. ASSUME NEW heard, HandleJoin(heard), NEW id \in Id PROVE join_addresses'[id] # Broadcast
    BY <1>1, <2>1, JoinEffect
  <2>2. CASE ClosePort
    <3>1. None # Broadcast
      BY Addresses
    <3> QED BY <2>2, <3>1 DEF ClosePort, NoAddresses
  <2> QED BY <1>1, <2>1, <2>2, AddressesKept
<1>6. \A i \in DOMAIN port' : port'[i].type = "Set" => port'[i].from # Broadcast
  BY <1>1, <1>2, <1>3, <1>4 DEF Next
<1>7. \A q \in Node : Quiet(q)'
  BY <1>0, <1>2, QuietTransmits, QuietManager DEF Next
<1> QED BY <1>5, <1>6, <1>7

-----------------------------------------------------------------------------
(* Sessions.                                                               *)

SessionStep ==
    /\ InSession
    /\ \/ \E p \in Node : PanelStep(p) \/ PanelTransmits(p)
       \/ /\ OnlyHear
          /\ \/ SkipFrame
             \/ \E heard \in SUBSET Node :
                   \/ HandleJoin(heard)
                   \/ HandleControlEvent(heard)
                   \/ \E asked \in SUBSET Node : HandleHello(heard, asked)

SessionBegins ==
    /\ \A p \in Node : node_type'[p] = "NotReady"
    /\ port' = <<>>
    /\ join_addresses' = NoAddresses /\ known_devices' = NoDevices
    /\ pressed_buttons' = {} /\ pushes' = NoPushes
    /\ UNCHANGED <<nodeVars, panelVars, exhausted>>

LEMMA SessionGoesOn ==
    ASSUME TypeOK, Frames, Sessions, Next, InSession'
    PROVE  /\ SessionStep \/ SessionBegins
           /\ exhausted => exhausted'
<1>0. exhausted => exhausted'
  <2>1. ASSUME NEW heard, HandleJoin(heard) PROVE exhausted => exhausted'
    BY <2>1, JoinEffect
  <2>2. ClosePort => exhausted' = exhausted
    BY DEF ClosePort
  <2> QED BY <2>1, <2>2, AddressesKept
<1> SUFFICES SessionStep \/ SessionBegins
  BY <1>0
<1>1. ASSUME NEW p \in Node, PanelStep(p) \/ PanelTransmits(p)
      PROVE  SessionStep
  <2>1. UNCHANGED <<mode, strangers>>
    BY <1>1 DEF PanelStep, PanelTransmits, managerVars
  <2> QED BY <1>1, <2>1 DEF SessionStep, InSession
<1>2. CASE StartListener
  <2>1. mode = "closed" /\ port' = <<>> /\ UNCHANGED <<nodeVars, panelVars, tables, exhausted, pushes>>
    BY <1>2 DEF StartListener, Open
  <2>2. \A p \in Node : node_type[p] = "NotReady"
    BY <1>2 DEF StartListener, InSession
  <2> QED BY <2>1, <2>2 DEF SessionBegins, Sessions, tables, nodeVars
<1>3. ~StartProbe /\ ~ClosePort
  BY DEF StartProbe, ClosePort, Open, InSession
<1>4. ASSUME ManagerStep
      PROVE  SessionStep
  <2>0. OnlyHear /\ Reachable \subseteq Node
    BY <1>4, ManagerHears DEF Reachable
  <2>1. CASE SkipFrame
    BY <2>0, <2>1 DEF SkipFrame, ManagerUnchanged, SessionUnchanged, SessionStep, InSession
  <2>2. ASSUME NEW heard \in SUBSET Reachable, HandleJoin(heard) \/ HandleControlEvent(heard)
        PROVE  SessionStep
    <3>1. UNCHANGED <<mode, strangers>> /\ heard \in SUBSET Node
      BY <2>0, <2>2 DEF HandleJoin, HandleControlEvent, ManagerUnchanged, SessionUnchanged
    <3> QED BY <2>0, <2>2, <3>1 DEF SessionStep, InSession
  <2>3. ASSUME NEW heard \in SUBSET Reachable, ProbeJoin(heard) \/ ChildHello(heard)
        PROVE  FALSE
    BY <2>3 DEF ProbeJoin, ChildHello, Receives, ManagerUnchanged, SessionUnchanged, InSession
  <2>4. ASSUME NEW heard \in SUBSET Reachable,
               NEW asked \in SUBSET Reachable,
               HandleHello(heard, asked)
        PROVE  SessionStep
    <3>1. UNCHANGED <<mode, strangers>> /\ heard \in SUBSET Node /\ asked \in SUBSET Node
      BY <2>0, <2>4 DEF HandleHello, ManagerUnchanged, SessionUnchanged
    <3> QED BY <2>0, <2>4, <3>1 DEF SessionStep, InSession
  <2>5. ASSUME NEW heard, NEW asked, ProbeHello(heard, asked)
        PROVE  FALSE
    BY <2>5 DEF ProbeHello, InSession
  <2> QED BY <1>4, <2>1, <2>2, <2>3, <2>4, <2>5 DEF ManagerStep
<1> QED BY <1>1, <1>2, <1>3, <1>4 DEF Next

OffersMatchAt(p) ==
    /\ node_type[p] = "Ready" => join_addresses[node_id[p]] = address[p]
    /\ node_type[p] = "Joining" => \A i \in DOMAIN rx[p] :
          rx[p][i].type = "SetAddress" /\ rx[p][i].id = node_id[p]
              => rx[p][i].address = join_addresses[node_id[p]]

LEMMA OffersMatchPanel ==
    ASSUME TypeOK, Frames, Panels, NEW p \in Node, OffersMatchAt(p), PanelStep(p)
    PROVE  OffersMatchAt(p)'
<1>0. NodeTypeOK /\ PanelTypeOK
  BY DEF TypeOK, PanelTypeOK
<1>j. join_addresses' = join_addresses
  BY DEF PanelStep, managerVars, tables
<1>r. \A i \in DOMAIN rx'[p] : \E j \in DOMAIN rx[p] : rx'[p][i] = rx[p][j]
  BY PanelStepRx
<1>1. CASE UNCHANGED <<node_type, node_id, address>>
  BY <1>j, <1>r, <1>1 DEF OffersMatchAt
<1>2. CASE PanelJoin(p)
  <2>1. PICK id \in Id \ drawn : SendJoin(p, id)
    BY <1>2 DEF PanelJoin
  <2>2. node_type'[p] = "Joining" /\ node_id'[p] = id /\ UNCHANGED rx
    BY <1>0, <2>1 DEF SendJoin, NodeTypeOK
  <2>3. \A i \in DOMAIN rx[p] : ~(rx[p][i].type = "SetAddress" /\ rx[p][i].id = id)
    BY DEF Frames, IsAnswer
  <2> QED BY <2>2, <2>3 DEF OffersMatchAt
<1>3. CASE AcceptAddress(p)
  <2>1. /\ Reading(p) /\ TakeFrame(p) /\ node_type[p] = "Joining"
        /\ Incoming(p).type = "SetAddress" /\ Incoming(p).id = node_id[p]
        /\ address' = [address EXCEPT ![p] = Incoming(p).address]
        /\ node_type' = [node_type EXCEPT ![p] = "Ready"] /\ UNCHANGED node_id
    BY <1>3, AcceptEffect
  <2>2. Incoming(p) = rx[p][1] /\ 1 \in DOMAIN rx[p]
    BY <1>0, <2>1, ReadFrame
  <2>3. address'[p] = Incoming(p).address /\ node_type'[p] = "Ready"
    BY <1>0, <2>1 DEF NodeTypeOK
  <2> QED BY <1>j, <2>1, <2>2, <2>3 DEF OffersMatchAt
<1>4. CASE PowerCycle(p)
  <2>1. node_type'[p] = "NotReady"
    BY <1>0, <1>4 DEF PowerCycle, ClientRestart, NodeTypeOK
  <2> QED BY <2>1 DEF OffersMatchAt
<1>5. Scan(p) \/ ReportEdge(p) \/ Drops(p) \/ Settles(p) \/ Replies(p)
        => UNCHANGED <<node_type, node_id, address>>
  BY DEF Scan, ReportEdge, nodeVars, Drops, Settles, Replies, Still
<1> QED BY <1>1, <1>2, <1>3, <1>4, <1>5, ReadKinds DEF PanelStep

LEMMA OffersMatchStep ==
    ASSUME TypeOK, Frames, Panels, Identifiers, Sessions, OffersMatch, Next
    PROVE  OffersMatch'
<1> SUFFICES ASSUME InSession', NEW q \in Node
             PROVE  OffersMatchAt(q)'
  BY DEF OffersMatch, OffersMatchAt
<1>1. CASE SessionBegins
  BY <1>1 DEF SessionBegins, OffersMatchAt
<1>2. CASE SessionStep
  <2>1. OffersMatchAt(q)
    BY <1>2 DEF SessionStep, OffersMatch, OffersMatchAt
  <2>2. ASSUME NEW p \in Node, PanelStep(p)
        PROVE  OffersMatchAt(q)'
    <3>1. CASE p = q
      BY <2>1, <2>2, <3>1, OffersMatchPanel
    <3>2. CASE p # q
      <4>1. UNCHANGED <<node_type[q], node_id[q], address[q], rx[q]>>
        BY <2>2, <3>2, PanelStepOthers
      <4>2. UNCHANGED join_addresses
        BY <2>2 DEF PanelStep, managerVars, tables
      <4> QED BY <2>1, <4>1, <4>2 DEF OffersMatchAt
    <3> QED BY <3>1, <3>2
  <2>3. ASSUME NEW p \in Node, PanelTransmits(p)
        PROVE  OffersMatchAt(q)'
    BY <2>1, <2>3, WriteEffect DEF tables, OffersMatchAt
  <2>4. ASSUME OnlyHear, UNCHANGED join_addresses
        PROVE  OffersMatchAt(q)'
    <3>1. UNCHANGED <<node_type, node_id, address>>
      BY <2>4, ManagerQueues
    <3>2. PICK F \in SUBSET Frame : Hears(F) /\ \A f \in F : Replied(f)
      BY <2>4 DEF OnlyHear
    <3>3. ASSUME NEW i \in DOMAIN rx'[q], rx'[q][i].type = "SetAddress", rx'[q][i].id = node_id[q],
                 node_type[q] = "Joining"
          PROVE  rx'[q][i].address = join_addresses[node_id[q]]
      <4>1. CASE i \in DOMAIN rx[q] /\ rx'[q][i] = rx[q][i]
        BY <2>1, <3>3, <4>1 DEF OffersMatchAt
      <4>2. CASE Replied(rx'[q][i])
        BY <2>4, <3>3, <4>2 DEF Replied, InSession
      <4> QED BY <3>2, <3>3, <4>1, <4>2 DEF Hears
    <3> QED BY <2>1, <2>4, <3>1, <3>3 DEF OffersMatchAt
  <2>5. ASSUME NEW heard, HandleJoin(heard), OnlyHear
        PROVE  OffersMatchAt(q)'
    <3>1. UNCHANGED <<node_type, node_id, address>>
      BY <2>5, ManagerQueues
    <3>2. PICK F \in SUBSET Frame : Hears(F) /\ \A f \in F : Replied(f)
      BY <2>5 DEF OnlyHear
    <3>3. \A id \in Id : join_addresses[id] # None => join_addresses'[id] = join_addresses[id]
      BY <2>5, JoinEffect
    <3>4. node_type[q] # "NotReady" => node_id[q] \in Id
      BY DEF Identifiers, TypeOK, PanelTypeOK
    <3>5. ASSUME node_type[q] = "Ready"
          PROVE  join_addresses'[node_id[q]] = address[q]
      <4>1. join_addresses[node_id[q]] = address[q] /\ address[q] # None
        BY <2>1, <3>5, Addresses DEF OffersMatchAt, Panels
      <4> QED BY <3>3, <3>4, <3>5, <4>1
    <3>6. ASSUME NEW i \in DOMAIN rx'[q], rx'[q][i].type = "SetAddress", rx'[q][i].id = node_id[q],
                 node_type[q] = "Joining"
          PROVE  rx'[q][i].address = join_addresses'[node_id[q]]
      <4>1. CASE i \in DOMAIN rx[q] /\ rx'[q][i] = rx[q][i]
        <5>1. rx[q][i].address = join_addresses[node_id[q]]
          BY <2>1, <3>6, <4>1 DEF OffersMatchAt
        <5>2. rx[q][i].address # None
          BY <3>6, <4>1, Addresses DEF Frames, IsAnswer
        <5> QED BY <3>3, <3>4, <3>6, <4>1, <5>1, <5>2
      <4>2. CASE Replied(rx'[q][i])
        BY <2>5, <3>6, <4>2 DEF Replied, InSession
      <4> QED BY <3>2, <3>6, <4>1, <4>2 DEF Hears
    <3> QED BY <3>1, <3>5, <3>6 DEF OffersMatchAt
  <2>6. SkipFrame => UNCHANGED join_addresses
    BY DEF SkipFrame, tables
  <2>7. \A heard, asked : HandleHello(heard, asked) \/ HandleControlEvent(heard)
                             => UNCHANGED join_addresses
    BY DEF HandleHello, HandleControlEvent
  <2> QED BY <1>2, <2>2, <2>3, <2>4, <2>5, <2>6, <2>7 DEF SessionStep
<1> QED BY <1>1, <1>2, SessionGoesOn

-----------------------------------------------------------------------------
(* Whose address is whose.                                                 *)

(* The table holds address a for the identifier with which q joined.       *)
Held(a, q) == node_type[q] # "NotReady" /\ join_addresses[node_id[q]] = a

LEMMA AcceptHeld ==
    ASSUME TypeOK, OffersMatch, InSession, NEW p \in Node, AcceptAddress(p)
    PROVE  Held(Incoming(p).address, p)
<1>1. /\ Reading(p) /\ TakeFrame(p) /\ node_type[p] = "Joining"
      /\ Incoming(p).type = "SetAddress" /\ Incoming(p).id = node_id[p]
  BY AcceptEffect
<1>2. Incoming(p) = rx[p][1] /\ 1 \in DOMAIN rx[p]
  BY <1>1, ReadFrame DEF TypeOK, PanelTypeOK
<1> QED BY <1>1, <1>2 DEF OffersMatch, Held

LEMMA HeldOnce ==
    ASSUME TypeOK, Identifiers, Tables, Unicast, ~exhausted,
           NEW p \in Node, NEW q \in Node, NEW a \in Address, Held(a, p), Held(a, q)
    PROVE  p = q
<1>1. node_id[p] \in Id /\ node_id[q] \in Id
  BY DEF Held, Identifiers, TypeOK, PanelTypeOK
<1>2. join_addresses[node_id[p]] # Broadcast
  BY <1>1 DEF Unicast
<1>3. node_id[p] = node_id[q]
  BY <1>1, <1>2 DEF Held, Tables
<1> QED BY <1>3 DEF Held, Identifiers

(* A claim is made by the panel that accepts the address.                  *)
LEMMA ClaimsGrow ==
    ASSUME TypeOK, Frames, Panels, SessionStep,
           NEW a \in Address, NEW d \in Node, Claimed(a, d)'
    PROVE  Claimed(a, d) \/ (AcceptAddress(d) /\ a = Incoming(d).address)
<1>0. NodeTypeOK /\ PanelTypeOK
  BY DEF TypeOK, PanelTypeOK
<1> DEFINE SetsFrom(P) == \E i \in DOMAIN P :
              P[i].type = "Set" /\ P[i].from = a /\ P[i].body.device = d
<1>1. ASSUME NEW p \in Node, PanelStep(p)
      PROVE  Claimed(a, d) \/ (AcceptAddress(d) /\ a = Incoming(d).address)
  <2>1. UNCHANGED <<known_devices, port>>
    BY <1>1 DEF PanelStep, managerVars, tables
  <2>2. CASE node_type'[d] = "Ready" /\ address'[d] = a
    <3>1. CASE d # p
      <4>1. node_type[d] = "Ready" /\ address[d] = a
        BY <1>1, <2>2, <3>1, PanelStepOthers
      <4> QED BY <4>1 DEF Claimed
    <3>2. CASE d = p /\ AcceptAddress(p)
      <4>1. address' = [address EXCEPT ![p] = Incoming(p).address]
        BY <3>2, AcceptEffect
      <4> QED BY <1>0, <2>2, <3>2, <4>1 DEF NodeTypeOK
    <3>3. CASE d = p /\ UNCHANGED <<node_type, address>>
      BY <2>2, <3>3 DEF Claimed
    <3>4. CASE d = p /\ (PanelJoin(p) \/ PowerCycle(p))
      <4>1. node_type'[p] \in {"Joining", "NotReady"}
        BY <1>0, <3>4 DEF PanelJoin, SendJoin, PowerCycle, ClientRestart, NodeTypeOK
      <4> QED BY <2>2, <3>4, <4>1
    <3>5. Scan(p) \/ ReportEdge(p) \/ Drops(p) \/ Settles(p) \/ Replies(p)
            => UNCHANGED <<node_type, address>>
      BY DEF Scan, ReportEdge, nodeVars, Drops, Settles, Replies, Still
    <3> QED BY <1>1, <3>1, <3>2, <3>3, <3>4, <3>5, ReadKinds DEF PanelStep
  <2>3. CASE known_devices'[a] = d \/ SetsFrom(port')
    BY <2>1, <2>3 DEF Claimed
  <2> QED BY <2>2, <2>3 DEF Claimed
<1>2. ASSUME NEW p \in Node, PanelTransmits(p)
      PROVE  Claimed(a, d)
  <2>1. /\ UNCHANGED <<node_type, address, known_devices>>
        /\ port' = port \/ port' = Append(port, Outgoing(p))
        /\ Outgoing(p) \in Frame /\ IsOwn(p, Outgoing(p)) /\ port \in Seq(Frame)
    BY <1>2, WriteEffect DEF tables, Frames, TypeOK
  <2>2. ASSUME NEW i \in DOMAIN port', port'[i].type = "Set", port'[i].from = a,
               port'[i].body.device = d
        PROVE  Claimed(a, d)
    <3>1. CASE i \in DOMAIN port /\ port'[i] = port[i]
      BY <2>2, <3>1 DEF Claimed
    <3>2. CASE port'[i] = Outgoing(p)
      <4>1. node_type[p] = "Ready" /\ address[p] = a /\ Outgoing(p).body \in ReportsOf(p)
        BY <2>1, <2>2, <3>2 DEF IsOwn
      <4>2. Outgoing(p).body.device = p
        BY <4>1 DEF ReportsOf, Hello, Button
      <4> QED BY <2>2, <3>2, <4>1, <4>2 DEF Claimed
    <3> QED BY <2>1, <2>2, <3>1, <3>2, AppendElements
  <2> QED BY <2>1, <2>2 DEF Claimed
<1>3. ASSUME OnlyHear
      PROVE  /\ UNCHANGED <<node_type, address>>
             /\ SetsFrom(port') => SetsFrom(port)
  BY <1>3, ManagerQueues, PortRest DEF OnlyHear, TypeOK
<1>4. ASSUME OnlyHear, UNCHANGED known_devices
      PROVE  Claimed(a, d)
  BY <1>3, <1>4 DEF Claimed
<1>5. ASSUME OnlyHear, NEW heard, NEW asked, HandleHello(heard, asked)
      PROVE  Claimed(a, d)
  <2>1. known_devices' = [known_devices EXCEPT ![Received.from] = Received.body.device]
        /\ port # <<>> /\ Received.type = "Set"
    BY <1>5 DEF HandleHello, Receives
  <2>2. known_devices \in [Address -> Node \cup {None}]
    BY DEF TypeOK
  <2>3. CASE a = Received.from /\ d = Received.body.device
    BY <2>1, <2>3, ReceivedFrame DEF Claimed
  <2>4. CASE ~(a = Received.from /\ d = Received.body.device)
    <3>1. known_devices'[a] = d => known_devices[a] = d
      BY <2>1, <2>2, <2>4
    <3> QED BY <1>3, <1>5, <3>1 DEF Claimed
  <2> QED BY <2>3, <2>4
<1>6. /\ SkipFrame => UNCHANGED known_devices
      /\ \A heard : HandleJoin(heard) \/ HandleControlEvent(heard) => UNCHANGED known_devices
  BY DEF SkipFrame, tables, HandleJoin, HandleControlEvent
<1> QED BY <1>1, <1>2, <1>4, <1>5, <1>6 DEF SessionStep

(* Entries of the table stay, and a new one has an unclaimed address.      *)
LEMMA HeldGrows ==
    ASSUME TypeOK, Frames, Panels, Identifiers, Tables, SessionStep
    PROVE  /\ \A id \in Id : join_addresses[id] # None => join_addresses'[id] = join_addresses[id]
           /\ \A a \in Address, q \in Node : Held(a, q)' =>
                 \/ Held(a, q)
                 \/ a = next_address
<1>0. NodeTypeOK /\ PanelTypeOK
  BY DEF TypeOK, PanelTypeOK
<1>n. \A a \in Address : a # None
  BY OptionAssumption
<1>1. ASSUME NEW p \in Node, PanelStep(p)
      PROVE  /\ UNCHANGED join_addresses
             /\ \A a \in Address, q \in Node : Held(a, q)' => Held(a, q)
  <2>1. UNCHANGED join_addresses
    BY <1>1 DEF PanelStep, managerVars, tables
  <2>2. ASSUME NEW a \in Address, NEW q \in Node \ {p}, Held(a, q)'
        PROVE  Held(a, q)
    BY <1>1, <2>1, <2>2, PanelStepOthers DEF Held
  <2>3. ASSUME NEW a \in Address, Held(a, p)'
        PROVE  Held(a, p)
    <3>1. CASE PanelJoin(p)
      <4>1. PICK id \in Id \ drawn : SendJoin(p, id)
        BY <3>1 DEF PanelJoin
      <4>2. node_id'[p] = id
        BY <1>0, <4>1 DEF SendJoin, NodeTypeOK
      <4>3. join_addresses[id] = None
        BY DEF Tables
      <4> QED BY <1>n, <2>1, <2>3, <4>2, <4>3 DEF Held
    <3>2. CASE PowerCycle(p)
      <4>1. node_type'[p] = "NotReady"
        BY <1>0, <3>2 DEF PowerCycle, ClientRestart, NodeTypeOK
      <4> QED BY <2>3, <4>1 DEF Held
    <3>3. CASE AcceptAddress(p)
      BY <2>1, <2>3, <3>3, AcceptEffect DEF Held
    <3>4. CASE UNCHANGED <<node_type, node_id>>
      BY <2>1, <2>3, <3>4 DEF Held
    <3>5. Scan(p) \/ ReportEdge(p) \/ Drops(p) \/ Settles(p) \/ Replies(p)
            => UNCHANGED <<node_type, node_id>>
      BY DEF Scan, ReportEdge, nodeVars, Drops, Settles, Replies, Still
    <3> QED BY <1>1, <3>1, <3>2, <3>3, <3>4, <3>5, ReadKinds DEF PanelStep
  <2> QED BY <2>1, <2>2, <2>3
<1>2. ASSUME NEW p \in Node, PanelTransmits(p)
      PROVE  UNCHANGED <<join_addresses, node_type, node_id>>
  BY <1>2, WriteEffect DEF tables
<1>3. ASSUME OnlyHear
      PROVE  UNCHANGED <<node_type, node_id>>
  BY <1>3, ManagerQueues
<1>4. ASSUME OnlyHear, NEW heard, HandleJoin(heard)
      PROVE  /\ \A id \in Id : join_addresses[id] # None => join_addresses'[id] = join_addresses[id]
             /\ \A a \in Address, q \in Node : Held(a, q)' => Held(a, q) \/ a = next_address
  <2>1. /\ Received.id \in Id
        /\ \A id \in Id \ {Received.id} : join_addresses'[id] = join_addresses[id]
        /\ join_addresses'[Received.id] \in {join_addresses[Received.id], next_address}
        /\ join_addresses[Received.id] # None =>
              join_addresses'[Received.id] = join_addresses[Received.id]
    BY <1>4, JoinEffect
  <2>2. \A q \in Node : node_type[q] # "NotReady" => node_id[q] \in Id
    BY DEF Identifiers, TypeOK, PanelTypeOK
  <2> QED BY <1>3, <1>4, <2>1, <2>2 DEF Held
<1>5. /\ SkipFrame => UNCHANGED join_addresses
      /\ \A heard, asked : HandleControlEvent(heard) \/ HandleHello(heard, asked)
                             => UNCHANGED join_addresses
  BY DEF SkipFrame, tables, HandleControlEvent, HandleHello
<1>6. CASE UNCHANGED <<join_addresses, node_type, node_id>>
  BY <1>6 DEF Held
<1> QED BY <1>1, <1>2, <1>3, <1>4, <1>5, <1>6 DEF SessionStep

LEMMA ClaimsStep ==
    ASSUME TypeOK, Frames, Panels, Identifiers, Tables, Sessions, Unicast, OffersMatch,
           Claims, Next
    PROVE  Claims'
<1> SUFFICES ASSUME InOrder', NEW a \in Address, NEW d \in Node, Claimed(a, d)'
             PROVE  /\ \E id \in Id : join_addresses'[id] = a
                    /\ \A e \in Node : Claimed(a, e)' => d = e
                    /\ \A q \in Node : Held(a, q)' => d = q
  BY DEF Claims, Held
<1>1. CASE SessionBegins
  <2>1. known_devices'[a] = None /\ port' = <<>> /\ node_type'[d] # "Ready"
    BY <1>1 DEF SessionBegins, NoDevices
  <2> QED BY <2>1, OptionAssumption DEF Claimed
<1>2. CASE SessionStep
  <2>0. InSession /\ ~exhausted
    BY <1>2, SessionGoesOn DEF SessionStep, InOrder
  <2>1. \A e \in Node : Claimed(a, e)' => Claimed(a, e) \/ Held(a, e)
    BY <1>2, <2>0, ClaimsGrow, AcceptHeld
  <2>2. \A e \in Node : Claimed(a, e) =>
           /\ \E id \in Id : join_addresses[id] = a
           /\ \A f \in Node : Claimed(a, f) => e = f
           /\ \A q \in Node : Held(a, q) => e = q
    BY <2>0 DEF Claims, InOrder, Held
  <2>3. \A q \in Node : Held(a, q) => node_id[q] \in Id
    BY DEF Held, Identifiers, TypeOK, PanelTypeOK
  <2>4. \E id \in Id : join_addresses[id] = a
    BY <2>1, <2>2, <2>3 DEF Held
  <2>5. a # next_address
    <3>1. PICK id \in Id : join_addresses[id] = a
      BY <2>4
    <3>2. a # None /\ a # Broadcast
      BY <2>0, <3>1, OptionAssumption DEF Unicast
    <3>3. a < next_address
      BY <3>1, <3>2 DEF Tables
    <3> QED BY <3>3 DEF TypeOK, FirstAddress, Address
  <2>6. \A q \in Node : Held(a, q)' => Held(a, q)
    BY <1>2, <2>5, HeldGrows
  <2>7. \E id \in Id : join_addresses'[id] = a
    BY <1>2, <2>4, HeldGrows, OptionAssumption
  <2>8. \A p, q \in Node : Held(a, p) /\ Held(a, q) => p = q
    BY <2>0, HeldOnce
  <2> QED BY <2>1, <2>2, <2>6, <2>7, <2>8
<1> QED BY <1>1, <1>2, SessionGoesOn DEF InOrder

-----------------------------------------------------------------------------
(* Who is answered.                                                        *)

AnswersMeantAt(p) ==
    /\ node_type[p] = "Ready" => \A i \in DOMAIN rx[p] :
          rx[p][i].to = address[p] => Meant(rx[p][i], p)
    /\ node_type[p] = "Joining" => \A i, j \in DOMAIN rx[p] :
          i < j /\ rx[p][i].type = "SetAddress" /\ rx[p][i].id = node_id[p]
          /\ rx[p][j].to = rx[p][i].address
              => Meant(rx[p][j], p)

LEMMA AnswersMeantPanel ==
    ASSUME TypeOK, Frames, Panels, NEW p \in Node, AnswersMeantAt(p), PanelStep(p)
    PROVE  AnswersMeantAt(p)'
<1>0. NodeTypeOK /\ PanelTypeOK
  BY DEF TypeOK, PanelTypeOK
<1>k. \A f, g : f = g => (Meant(f, p) <=> Meant(g, p)')
  BY DEF PanelStep, managerVars, tables, Meant
<1>1. CASE UNCHANGED <<node_type, node_id, address, rx>>
  BY <1>k, <1>1 DEF AnswersMeantAt
<1>2. CASE UNCHANGED <<node_type, node_id, address>> /\ Reading(p) /\ TakeFrame(p)
  <2>1. \A i \in DOMAIN rx'[p] :
           i \in Nat /\ i + 1 \in DOMAIN rx[p] /\ rx'[p][i] = rx[p][i + 1]
    BY <1>0, <1>2, ReadShift
  <2>2. \A i, j \in DOMAIN rx'[p] : i < j => i + 1 < j + 1
    BY <2>1
  <2>3. node_type[p] = "Ready" => \A i \in DOMAIN rx'[p] :
           rx'[p][i].to = address[p] => Meant(rx'[p][i], p)
    BY <2>1 DEF AnswersMeantAt
  <2>4. node_type[p] = "Joining" => \A i, j \in DOMAIN rx'[p] :
           i < j /\ rx'[p][i].type = "SetAddress" /\ rx'[p][i].id = node_id[p]
           /\ rx'[p][j].to = rx'[p][i].address
               => Meant(rx'[p][j], p)
    BY <2>1, <2>2 DEF AnswersMeantAt
  <2> QED BY <1>2, <1>k, <2>3, <2>4 DEF AnswersMeantAt
<1>3. CASE PanelJoin(p)
  <2>1. PICK id \in Id \ drawn : SendJoin(p, id)
    BY <1>3 DEF PanelJoin
  <2>2. node_type'[p] = "Joining" /\ node_id'[p] = id /\ UNCHANGED rx
    BY <1>0, <2>1 DEF SendJoin, NodeTypeOK
  <2>3. \A i \in DOMAIN rx[p] : ~(rx[p][i].type = "SetAddress" /\ rx[p][i].id = id)
    BY DEF Frames, IsAnswer
  <2> QED BY <2>2, <2>3 DEF AnswersMeantAt
<1>4. CASE AcceptAddress(p)
  <2>1. /\ Reading(p) /\ TakeFrame(p) /\ node_type[p] = "Joining"
        /\ Incoming(p).type = "SetAddress" /\ Incoming(p).id = node_id[p]
        /\ address' = [address EXCEPT ![p] = Incoming(p).address]
        /\ node_type' = [node_type EXCEPT ![p] = "Ready"]
    BY <1>4, AcceptEffect
  <2>2. /\ \A i \in DOMAIN rx'[p] :
              i \in Nat /\ i + 1 \in DOMAIN rx[p] /\ rx'[p][i] = rx[p][i + 1]
        /\ Incoming(p) = rx[p][1] /\ 1 \in DOMAIN rx[p]
    BY <1>0, <2>1, ReadShift
  <2>3. address'[p] = Incoming(p).address /\ node_type'[p] = "Ready"
    BY <1>0, <2>1 DEF NodeTypeOK
  <2>4. ASSUME NEW i \in DOMAIN rx'[p], rx'[p][i].to = address'[p]
        PROVE  Meant(rx'[p][i], p)
    <3>1. i + 1 \in DOMAIN rx[p] /\ rx'[p][i] = rx[p][i + 1] /\ i \in DOMAIN rx'[p]
      BY <2>2, <2>4
    <3>2. 1 < i + 1
      <4>1. rx'[p] \in Seq(Frame)
        BY <1>0, <2>1, ReadShift
      <4> QED BY <4>1, <2>4
    <3> QED BY <2>1, <2>2, <2>3, <2>4, <3>1, <3>2 DEF AnswersMeantAt
  <2> QED BY <1>k, <2>3, <2>4 DEF AnswersMeantAt
<1>5. CASE PowerCycle(p)
  <2>1. node_type'[p] = "NotReady"
    BY <1>0, <1>5 DEF PowerCycle, ClientRestart, NodeTypeOK
  <2> QED BY <2>1 DEF AnswersMeantAt
<1>6. Scan(p) \/ ReportEdge(p) => UNCHANGED <<node_type, node_id, address, rx>>
  BY DEF Scan, ReportEdge, nodeVars
<1>7. Drops(p) \/ Settles(p) \/ Replies(p) =>
         UNCHANGED <<node_type, node_id, address>> /\ Reading(p) /\ TakeFrame(p)
  BY DEF Drops, Settles, Replies, Still
<1> QED BY <1>1, <1>2, <1>3, <1>4, <1>5, <1>6, <1>7, ReadKinds DEF PanelStep

(* What the handling of a Set does to known_devices.                       *)
LEMMA DevicesEffect ==
    ASSUME TypeOK, Greetings, InOrder, NEW heard, NEW asked,
           HandleHello(heard, asked) \/ HandleControlEvent(heard)
    PROVE  /\ port # <<>> /\ Received.type = "Set"
           /\ known_devices' = [known_devices EXCEPT ![Received.from] = Received.body.device]
<1>1. CASE HandleHello(heard, asked)
  BY <1>1 DEF HandleHello, Receives
<1>2. CASE HandleControlEvent(heard)
  <2>1. port # <<>> /\ Received.type = "Set" /\ Received.body.kind = "Button" /\ UNCHANGED known_devices
    BY <1>2 DEF HandleControlEvent, Receives
  <2>2. Received = port[1] /\ 1 \in DOMAIN port
    BY <2>1, TailElements DEF TypeOK, Received
  <2>3. known_devices[Received.from] = Received.body.device
    BY <2>1, <2>2 DEF Greetings
  <2>4. known_devices \in [Address -> Node \cup {None}]
    BY DEF TypeOK
  <2> QED BY <2>1, <2>3, <2>4
<1> QED BY <1>1, <1>2

LEMMA AnswersMeantSet ==
    ASSUME TypeOK, Frames, Panels, OffersMatch, Claims, AnswersMeant, InOrder, InOrder',
           OnlyHear, port # <<>>, Received.type = "Set",
           known_devices' = [known_devices EXCEPT ![Received.from] = Received.body.device],
           NEW q \in Node
    PROVE  AnswersMeantAt(q)'
<1>1. UNCHANGED <<node_type, node_id, address>>
  BY ManagerQueues
<1>2. PICK F \in SUBSET Frame : Hears(F) /\ \A f \in F : Replied(f)
  BY DEF OnlyHear
<1>3. AnswersMeantAt(q)
  BY DEF AnswersMeant, AnswersMeantAt
<1>4. /\ Received.from \in Address /\ Received.body.device \in Node
      /\ Claimed(Received.from, Received.body.device)
  BY ReceivedFrame DEF Claimed
<1>5. \A d \in Node : Claimed(Received.from, d) \/ Held(Received.from, d)
         => d = Received.body.device
  BY <1>4 DEF Claims, Held
<1>6. ASSUME NEW f \in Frame, Meant(f, q)
      PROVE  Meant(f, q)'
  <2>1. f.to \in Address
    BY FrameFields
  <2>2. f.type = "Ack" => known_devices'[f.to] = q
    BY <1>4, <1>5, <1>6, <2>1 DEF Meant, TypeOK, Claimed
  <2> QED BY <1>6, <2>2 DEF Meant
<1>7. ASSUME NEW f \in Frame, Replied(f),
             Claimed(f.to, q) \/ Held(f.to, q)
      PROVE  Meant(f, q)'
  <2>1. mode' = "listen"
    BY DEF InOrder, InSession
  <2>2. f.type # "SetAddress" /\ f.to = Received.from
    BY <1>7, <2>1 DEF Replied
  <2>3. q = Received.body.device
    BY <1>5, <1>7, <2>2
  <2>4. known_devices'[f.to] = q
    BY <1>4, <2>2, <2>3 DEF TypeOK
  <2>5. f.type = "Set" => q \in ImcpHub
    BY <1>7, <2>1, <2>3 DEF Replied
  <2> QED BY <2>4, <2>5 DEF Meant
<1>8. \A i \in DOMAIN rx'[q] :
         /\ rx'[q][i] \in Frame /\ i \in Nat
         /\ \/ i \in DOMAIN rx[q] /\ rx'[q][i] = rx[q][i]
            \/ i \notin DOMAIN rx[q] /\ Replied(rx'[q][i])
  BY <1>2 DEF Hears
<1>9. ASSUME node_type[q] = "Ready", NEW i \in DOMAIN rx'[q], rx'[q][i].to = address[q]
      PROVE  \A f : f = rx'[q][i] => Meant(f, q)'
  <2>1. CASE i \in DOMAIN rx[q] /\ rx'[q][i] = rx[q][i]
    <3>1. Meant(rx[q][i], q)
      BY <1>3, <1>9, <2>1 DEF AnswersMeantAt
    <3> QED BY <1>6, <1>8, <2>1, <3>1
  <2>2. CASE Replied(rx'[q][i])
    <3>1. Claimed(rx'[q][i].to, q)
      BY <1>9 DEF Claimed
    <3> QED BY <1>7, <1>8, <2>2, <3>1
  <2> QED BY <1>8, <2>1, <2>2
<1>10. ASSUME node_type[q] = "Joining", NEW i \in DOMAIN rx'[q], NEW j \in DOMAIN rx'[q], i < j,
              rx'[q][i].type = "SetAddress", rx'[q][i].id = node_id[q],
              rx'[q][j].to = rx'[q][i].address
       PROVE  \A f : f = rx'[q][j] => Meant(f, q)'
  <2>1. i \in DOMAIN rx[q] /\ rx'[q][i] = rx[q][i]
    BY <1>8, <1>10 DEF Replied
  <2>2. Held(rx'[q][i].address, q)
    BY <1>10, <2>1 DEF OffersMatch, InOrder, Held
  <2>3. CASE j \in DOMAIN rx[q] /\ rx'[q][j] = rx[q][j]
    <3>1. Meant(rx[q][j], q)
      BY <1>3, <1>10, <2>1, <2>3 DEF AnswersMeantAt
    <3> QED BY <1>6, <1>8, <2>3, <3>1
  <2>4. CASE Replied(rx'[q][j])
    BY <1>7, <1>8, <1>10, <2>2, <2>4
  <2> QED BY <1>8, <2>3, <2>4
<1> QED BY <1>1, <1>9, <1>10 DEF AnswersMeantAt

LEMMA AnswersMeantStep ==
    ASSUME TypeOK, Frames, Panels, Sessions, OffersMatch, Claims, AnswersMeant, Greetings, Next
    PROVE  AnswersMeant'
<1> SUFFICES ASSUME InOrder', NEW q \in Node
             PROVE  AnswersMeantAt(q)'
  BY DEF AnswersMeant, AnswersMeantAt
<1>1. CASE SessionBegins
  BY <1>1 DEF SessionBegins, AnswersMeantAt
<1>2. CASE SessionStep
  <2>0. InOrder
    BY <1>2, SessionGoesOn DEF SessionStep, InOrder
  <2>1. AnswersMeantAt(q)
    BY <2>0 DEF AnswersMeant, AnswersMeantAt
  <2>2. ASSUME UNCHANGED <<node_type[q], node_id[q], address[q], rx[q], known_devices>>
        PROVE  AnswersMeantAt(q)'
    BY <2>1, <2>2 DEF AnswersMeantAt, Meant
  <2>3. ASSUME NEW p \in Node, PanelStep(p)
        PROVE  AnswersMeantAt(q)'
    <3>1. CASE p = q
      BY <2>1, <2>3, <3>1, AnswersMeantPanel
    <3>2. CASE p # q
      BY <2>2, <2>3, <3>2, PanelStepOthers DEF managerVars, tables
    <3> QED BY <3>1, <3>2
  <2>4. ASSUME NEW p \in Node, PanelTransmits(p)
        PROVE  AnswersMeantAt(q)'
    BY <2>2, <2>4, WriteEffect DEF tables
  <2>5. ASSUME OnlyHear, SkipFrame
        PROVE  AnswersMeantAt(q)'
    BY <2>2, <2>5, ManagerQueues DEF SkipFrame, tables
  <2>6. ASSUME OnlyHear, NEW heard, HandleJoin(heard)
        PROVE  AnswersMeantAt(q)'
    <3>1. UNCHANGED <<node_type, node_id, address, known_devices>> /\ Received.type = "Join"
      BY <2>6, ManagerQueues, JoinEffect
    <3>2. PICK F \in SUBSET Frame : Hears(F) /\ \A f \in F : Replied(f)
      BY <2>6 DEF OnlyHear
    <3>3. \A f \in F : f.type = "SetAddress"
      BY <3>1, <3>2 DEF Replied, InOrder, InSession
    <3>4. ASSUME NEW i \in DOMAIN rx'[q]
          PROVE  \/ i \in DOMAIN rx[q] /\ rx'[q][i] = rx[q][i]
                 \/ i \notin DOMAIN rx[q] /\ Meant(rx'[q][i], q)
      BY <3>2, <3>3 DEF Hears, Meant
    <3>5. \A i, j \in DOMAIN rx'[q] : i < j /\ j \in DOMAIN rx[q] => i \in DOMAIN rx[q]
      BY <3>2 DEF Hears, TypeOK, PanelTypeOK, NodeTypeOK
    <3>6. \A f, g : f = g => (Meant(f, q) <=> Meant(g, q)')
      BY <3>1 DEF Meant
    <3> QED BY <2>1, <3>1, <3>4, <3>5, <3>6 DEF AnswersMeantAt
  <2>7. ASSUME OnlyHear, NEW heard, NEW asked,
               HandleHello(heard, asked) \/ HandleControlEvent(heard)
        PROVE  AnswersMeantAt(q)'
    BY <2>0, <2>7, DevicesEffect, AnswersMeantSet
  <2> QED BY <1>2, <2>3, <2>4, <2>5, <2>6, <2>7 DEF SessionStep
<1> QED BY <1>1, <1>2, SessionGoesOn DEF InOrder

-----------------------------------------------------------------------------
(* Hellos go first.                                                        *)

Greeted(p) ==
    node_type[p] = "Ready" => known_devices[address[p]] = p \/ HelloFirst(p)

LEMMA HelloStaysFirst ==
    ASSUME NodeTypeOK, NEW p \in Node, HelloFirst(p),
           NEW f \in Frame, tx_queue'[p] = Append(tx_queue[p], f),
           pending_frame'[p] = pending_frame[p]
    PROVE  HelloFirst(p)'
<1>1. CASE pending_frame[p] # None
  BY <1>1 DEF HelloFirst
<1>2. CASE pending_frame[p] = None
  <2>1. PICK i \in DOMAIN tx_queue[p] :
           /\ IsHello(tx_queue[p][i], p)
           /\ \A j \in 1 .. i - 1 : tx_queue[p][j].type \notin Retained
    BY <1>2 DEF HelloFirst
  <2>2. tx_queue[p] \in Seq(Frame)
    BY DEF NodeTypeOK
  <2>3. /\ \A j \in DOMAIN tx_queue[p] : j \in DOMAIN tx_queue'[p] /\ tx_queue'[p][j] = tx_queue[p][j]
        /\ \A j \in 1 .. i - 1 : j \in DOMAIN tx_queue[p]
    BY <2>2, AppendElements
  <2>4. \A g, h : g = h => (IsHello(g, p) <=> IsHello(h, p)')
    BY DEF IsHello
  <2>5. IsHello(tx_queue[p][i], p)'
    BY <2>1, <2>3, <2>4
  <2> QED BY <1>2, <2>1, <2>3, <2>5 DEF HelloFirst
<1> QED BY <1>1, <1>2

LEMMA HelloGoesFirst ==
    ASSUME TypeOK, NEW p \in Node, HelloFirst(p), PanelTransmits(p)
    PROVE  HelloFirst(p)' /\ (Outgoing(p).type = "Set" => IsHello(Outgoing(p), p))
<1>1. /\ pending_frame'[p] = IF Outgoing(p).type \in Retained THEN Outgoing(p) ELSE None
      /\ IF pending_frame[p] = None
           THEN /\ tx_queue[p] # <<>> /\ Outgoing(p) = tx_queue[p][1]
                /\ 1 \in DOMAIN tx_queue[p] /\ tx_queue'[p] = Tail(tx_queue[p])
           ELSE Outgoing(p) = pending_frame[p] /\ tx_queue'[p] = tx_queue[p]
      /\ Outgoing(p) \in Frame
  BY WriteEffect
<1>2. "Set" \in Retained
  BY DEF Retained
<1>3. \A g, h : g = h => (IsHello(g, p) <=> IsHello(h, p)')
  BY DEF IsHello
<1>4. ASSUME IsHello(Outgoing(p), p)
      PROVE  HelloFirst(p)'
  <2>1. pending_frame'[p] = Outgoing(p) /\ pending_frame'[p] # None
    BY <1>1, <1>2, <1>4, NoneAssumption DEF IsHello
  <2>2. IsHello(pending_frame[p], p)'
    BY <1>3, <1>4, <2>1
  <2> QED BY <2>1, <2>2 DEF HelloFirst
<1>5. CASE pending_frame[p] # None
  BY <1>1, <1>4, <1>5 DEF HelloFirst
<1>6. CASE pending_frame[p] = None
  <2>1. PICK i \in DOMAIN tx_queue[p] :
           /\ IsHello(tx_queue[p][i], p)
           /\ \A j \in 1 .. i - 1 : tx_queue[p][j].type \notin Retained
    BY <1>6 DEF HelloFirst
  <2>2. CASE i = 1
    BY <1>1, <1>4, <1>6, <2>1, <2>2
  <2>3. CASE i # 1
    <3>1. tx_queue[p] \in Seq(Frame)
      BY DEF TypeOK, PanelTypeOK, NodeTypeOK
    <3>2. i \in 2 .. Len(tx_queue[p])
      BY <2>3, <3>1
    <3>3. Outgoing(p).type \notin Retained
      BY <1>1, <1>6, <2>1, <3>2
    <3>4. pending_frame'[p] = None
      BY <1>1, <3>3
    <3>5. /\ i - 1 \in DOMAIN tx_queue'[p] /\ tx_queue'[p][i - 1] = tx_queue[p][i]
          /\ \A j \in 1 .. (i - 1) - 1 : /\ tx_queue'[p][j] = tx_queue[p][j + 1]
                                         /\ j + 1 \in 1 .. i - 1
      <4>1. tx_queue[p] # <<>> /\ tx_queue'[p] = Tail(tx_queue[p])
        BY <1>1, <1>6
      <4>2. \A s \in Seq(Frame) : s # <<>> => \A k \in 2 .. Len(s) :
               k - 1 \in DOMAIN Tail(s) /\ Tail(s)[k - 1] = s[k]
        OBVIOUS
      <4>3. \A k \in 2 .. Len(tx_queue[p]) :
               k - 1 \in DOMAIN tx_queue'[p] /\ tx_queue'[p][k - 1] = tx_queue[p][k]
        BY <3>1, <4>1, <4>2
      <4>4. \A j \in 1 .. (i - 1) - 1 :
               /\ j + 1 \in 2 .. Len(tx_queue[p]) /\ (j + 1) - 1 = j
               /\ j + 1 \in 1 .. i - 1
        BY <3>1, <3>2
      <4>5. \A j \in 1 .. (i - 1) - 1 : tx_queue'[p][j] = tx_queue[p][j + 1]
        BY <4>3, <4>4
      <4> QED BY <3>2, <4>3, <4>4, <4>5
    <3>6. IsHello(tx_queue[p][i - 1], p)'
      BY <1>3, <2>1, <3>5
    <3>7. HelloFirst(p)'
      BY <2>1, <3>4, <3>5, <3>6 DEF HelloFirst
    <3> QED BY <1>2, <3>3, <3>7
  <2> QED BY <2>2, <2>3
<1> QED BY <1>5, <1>6

(* An offer finds the channel empty: there is room for the Ack and hello.  *)
LEMMA AcceptRoom ==
    ASSUME TypeOK, NEW p \in Node, Quiet(p), AcceptAddress(p)
    PROVE  /\ halted' = halted /\ pending_frame'[p] = None
           /\ tx_queue'[p] = <<Accepted(p), Greeting(p, Incoming(p).address)>>
<1>1. NodeTypeOK
  BY DEF TypeOK, PanelTypeOK
<1>2. /\ Reading(p) /\ TakeFrame(p) /\ node_type[p] = "Joining"
      /\ Incoming(p).type = "SetAddress" /\ Incoming(p).id = node_id[p]
  BY AcceptEffect
<1>3. Incoming(p) = rx[p][1] /\ 1 \in DOMAIN rx[p]
  BY <1>1, <1>2, ReadFrame
<1>4. tx_queue[p] = <<>>
  BY <1>2, <1>3 DEF Quiet, Unsent
<1>5. Len(tx_queue[p]) = 0 /\ QueueCap \in Nat /\ QueueCap >= 2
  BY <1>4
<1>6. /\ halted' = halted
      /\ tx_queue'[p] = tx_queue[p] \o <<Accepted(p), Greeting(p, Incoming(p).address)>>
      /\ pending_frame' = [pending_frame EXCEPT ![p] = None]
  BY <1>5, AcceptEffect
<1>7. pending_frame'[p] = None
  BY <1>1, <1>6 DEF NodeTypeOK
<1> QED BY <1>4, <1>6, <1>7

LEMMA GreetedPanel ==
    ASSUME TypeOK, Frames, Panels, NEW p \in Node, Quiet(p), AnswersMeantAt(p), Greeted(p),
           PanelStep(p)
    PROVE  Greeted(p)'
<1>0. NodeTypeOK /\ PanelTypeOK
  BY DEF TypeOK, PanelTypeOK
<1>k. UNCHANGED known_devices
  BY DEF PanelStep, managerVars, tables
<1>1. CASE UNCHANGED <<node_type, address, pending_frame, tx_queue>>
  BY <1>k, <1>1 DEF Greeted, HelloFirst, IsHello
<1>2. ASSUME UNCHANGED <<node_type, address, pending_frame>>,
             NEW f \in Frame, tx_queue'[p] = Append(tx_queue[p], f)
      PROVE  Greeted(p)'
  BY <1>0, <1>k, <1>2, HelloStaysFirst DEF Greeted
<1>3. CASE PanelJoin(p) \/ PowerCycle(p)
  <2>1. node_type'[p] \in {"Joining", "NotReady"}
    BY <1>0, <1>3 DEF PanelJoin, SendJoin, PowerCycle, ClientRestart, NodeTypeOK
  <2> QED BY <2>1 DEF Greeted
<1>4. CASE Scan(p)
  BY <1>1, <1>4 DEF Scan, nodeVars
<1>5. CASE ReportEdge(p)
  BY <1>1, <1>2, <1>5, EdgeEffect
<1>6. CASE AcceptAddress(p)
  <2>1. /\ pending_frame'[p] = None
        /\ tx_queue'[p] = <<Accepted(p), Greeting(p, Incoming(p).address)>>
    BY <1>6, AcceptRoom
  <2>2. /\ 2 \in DOMAIN tx_queue'[p] /\ tx_queue'[p][2] = Greeting(p, Incoming(p).address)
        /\ \A j \in 1 .. 2 - 1 : tx_queue'[p][j] = Accepted(p)
    BY <2>1
  <2>3. Accepted(p).type \notin Retained
    BY DEF Accepted, Ack, Retained
  <2>4. \A g : g = Greeting(p, Incoming(p).address) => IsHello(g, p)'
    BY DEF Greeting, Set, IsHello
  <2>5. IsHello(tx_queue[p][2], p)'
    BY <2>2, <2>4
  <2>6. HelloFirst(p)'
    BY <2>1, <2>2, <2>3, <2>5 DEF HelloFirst
  <2> QED BY <2>6 DEF Greeted
<1>7. CASE Drops(p)
  BY <1>1, <1>7 DEF Drops, Still
<1>8. CASE Settles(p)
  <2>1. /\ Reading(p) /\ TakeFrame(p) /\ Addressed(p) /\ Incoming(p).type = "Ack"
        /\ UNCHANGED <<node_type, address>>
    BY <1>8 DEF Settles, Still
  <2>2. node_type[p] = "Ready"
    BY <2>1, NotAddressed
  <2>3. Incoming(p) = rx[p][1] /\ 1 \in DOMAIN rx[p]
    BY <1>0, <2>1, ReadFrame
  <2>4. Incoming(p).to = address[p]
    BY <2>1, <2>3 DEF Addressed, Quiet, Narrow
  <2>5. known_devices[address[p]] = p
    BY <2>1, <2>2, <2>3, <2>4 DEF AnswersMeantAt, Meant
  <2> QED BY <1>k, <2>1, <2>5 DEF Greeted
<1>9. CASE Replies(p)
  <2> DEFINE f == Ack(Incoming(p).from, address[p], Incoming(p).to)
  <2>1. f \in Frame
    BY <1>9, ReplyFrame DEF Replies
  <2>2. Enqueue(p, f) /\ UNCHANGED <<node_type, address, pending_frame>>
    BY <1>9 DEF Replies, Still
  <2> HIDE DEF f
  <2>3. tx_queue' = tx_queue \/ tx_queue'[p] = Append(tx_queue[p], f)
    BY <1>0, <2>1, <2>2, EnqueueEffect
  <2> QED BY <1>1, <1>2, <2>1, <2>2, <2>3
<1> QED BY <1>3, <1>4, <1>5, <1>6, <1>7, <1>8, <1>9, ReadKinds DEF PanelStep

(* Every event in the port is one of a panel that is known.                *)
EventsKnown ==
    \A i \in DOMAIN port :
        port[i].type = "Set" /\ port[i].body.kind = "Button"
            => known_devices[port[i].from] = port[i].body.device

LEMMA GreetingsStep ==
    ASSUME TypeOK, Frames, Panels, Sessions, Unicast, Claims, AnswersMeant, Greetings, Next
    PROVE  Greetings'
<1> SUFFICES ASSUME InOrder'
             PROVE  (\A q \in Node : Greeted(q)') /\ EventsKnown'
  BY DEF Greetings, Greeted, EventsKnown
<1>1. CASE SessionBegins
  BY <1>1 DEF SessionBegins, Greeted, EventsKnown
<1>2. CASE SessionStep
  <2>0. InOrder
    BY <1>2, SessionGoesOn DEF SessionStep, InOrder
  <2>1. /\ \A q \in Node : Greeted(q) /\ AnswersMeantAt(q) /\ Quiet(q)
        /\ EventsKnown
    BY <2>0 DEF Greetings, Greeted, EventsKnown, AnswersMeant, AnswersMeantAt, Unicast, InOrder
  <2>2. ASSUME NEW q \in Node, UNCHANGED <<node_type[q], address[q], pending_frame[q], tx_queue[q],
                                           known_devices>>
        PROVE  Greeted(q)'
    BY <2>1, <2>2 DEF Greeted, HelloFirst, IsHello
  <2>3. ASSUME NEW p \in Node, PanelStep(p)
        PROVE  (\A q \in Node : Greeted(q)') /\ EventsKnown'
    <3>1. UNCHANGED <<known_devices, port>>
      BY <2>3 DEF PanelStep, managerVars, tables
    <3>2. Greeted(p)'
      BY <2>1, <2>3, GreetedPanel
    <3>3. \A q \in Node \ {p} : Greeted(q)'
      BY <2>2, <2>3, <3>1, PanelStepOthers
    <3>4. EventsKnown'
      BY <2>1, <3>1 DEF EventsKnown
    <3> QED BY <3>2, <3>3, <3>4
  <2>4. ASSUME NEW p \in Node, PanelTransmits(p)
        PROVE  (\A q \in Node : Greeted(q)') /\ EventsKnown'
    <3>1. /\ UNCHANGED <<node_type, address, known_devices>>
          /\ \A q \in Node \ {p} : pending_frame'[q] = pending_frame[q] /\ tx_queue'[q] = tx_queue[q]
          /\ port' = port \/ port' = Append(port, Outgoing(p))
          /\ Outgoing(p) \in Frame /\ IsOwn(p, Outgoing(p)) /\ port \in Seq(Frame)
      BY <2>4, WriteEffect DEF tables, Frames, TypeOK
    <3>2. Greeted(p)'
      BY <2>1, <2>4, <3>1, HelloGoesFirst DEF Greeted
    <3>3. \A q \in Node \ {p} : Greeted(q)'
      BY <2>2, <3>1
    <3>4. ASSUME Outgoing(p).type = "Set", Outgoing(p).body.kind = "Button"
          PROVE  known_devices[Outgoing(p).from] = Outgoing(p).body.device
      <4>1. node_type[p] = "Ready" /\ Outgoing(p).from = address[p] /\ Outgoing(p).body \in ReportsOf(p)
        BY <3>1, <3>4 DEF IsOwn
      <4>2. Outgoing(p).body.device = p /\ Outgoing(p).body # Hello(p)
        BY <3>4, <4>1 DEF ReportsOf, Hello, Button
      <4>3. ~HelloFirst(p)
        BY <2>4, <3>4, <4>2, HelloGoesFirst DEF IsHello
      <4> QED BY <2>1, <4>1, <4>2, <4>3 DEF Greeted
    <3>5. ASSUME NEW i \in DOMAIN port', port'[i].type = "Set", port'[i].body.kind = "Button"
          PROVE  known_devices[port'[i].from] = port'[i].body.device
      <4>1. (i \in DOMAIN port /\ port'[i] = port[i]) \/ port'[i] = Outgoing(p)
        BY <3>1, <3>5, AppendElements
      <4> QED BY <2>1, <3>4, <3>5, <4>1 DEF EventsKnown
    <3> QED BY <3>1, <3>2, <3>3, <3>5 DEF EventsKnown
  <2>5. ASSUME OnlyHear
        PROVE  /\ UNCHANGED <<node_type, address, pending_frame, tx_queue>>
               /\ \A i \in DOMAIN port' : \E j \in DOMAIN port : port'[i] = port[j]
    BY <2>5, ManagerQueues, PortRest DEF OnlyHear, TypeOK
  <2>6. ASSUME OnlyHear, UNCHANGED known_devices
        PROVE  (\A q \in Node : Greeted(q)') /\ EventsKnown'
    BY <2>1, <2>2, <2>5, <2>6 DEF EventsKnown
  <2>7. ASSUME OnlyHear, NEW heard, NEW asked,
               HandleHello(heard, asked) \/ HandleControlEvent(heard)
        PROVE  (\A q \in Node : Greeted(q)') /\ EventsKnown'
    <3>1. /\ port # <<>> /\ Received.type = "Set"
          /\ known_devices' = [known_devices EXCEPT ![Received.from] = Received.body.device]
      BY <2>0, <2>7, DevicesEffect
    <3>2. /\ Received.from \in Address /\ Received.body.device \in Node
          /\ Claimed(Received.from, Received.body.device)
      BY <3>1, ReceivedFrame DEF Claimed
    <3>3. \A d \in Node : Claimed(Received.from, d) => d = Received.body.device
      BY <2>0, <3>2 DEF Claims
    <3>4. known_devices \in [Address -> Node \cup {None}] /\ address \in [Node -> Address]
      BY DEF TypeOK, PanelTypeOK, NodeTypeOK
    <3>5. \A a \in Address, d \in Node : known_devices[a] = d => known_devices'[a] = d
      BY <3>1, <3>2, <3>3, <3>4 DEF Claimed
    <3>6. ASSUME NEW q \in Node
          PROVE  Greeted(q)'
      BY <2>1, <2>5, <2>7, <3>4, <3>5 DEF Greeted, HelloFirst, IsHello
    <3>7. ASSUME NEW i \in DOMAIN port', port'[i].type = "Set", port'[i].body.kind = "Button"
          PROVE  known_devices'[port'[i].from] = port'[i].body.device
      <4>1. PICK j \in DOMAIN port : port'[i] = port[j]
        BY <2>5, <2>7
      <4>2. known_devices[port[j].from] = port[j].body.device
        BY <2>1, <3>7, <4>1 DEF EventsKnown
      <4>3. port[j].from \in Address /\ port[j].body.device \in Node
        <5>1. port[j].from \in FirstAddress .. Broadcast /\ \E p \in Node : port[j].body \in ReportsOf(p)
          BY <3>7, <4>1 DEF Frames, IsHeard
        <5>2. \A p \in Node : \A b \in ReportsOf(p) : b.device = p
          BY DEF ReportsOf, Hello, Button
        <5> QED BY <5>1, <5>2, Addresses
      <4> QED BY <3>5, <4>1, <4>2, <4>3
    <3> QED BY <3>6, <3>7 DEF EventsKnown
  <2>8. /\ SkipFrame => UNCHANGED known_devices
        /\ \A heard : HandleJoin(heard) => UNCHANGED known_devices
    BY DEF SkipFrame, tables, HandleJoin
  <2> QED BY <1>2, <2>3, <2>4, <2>6, <2>7, <2>8 DEF SessionStep
<1> QED BY <1>1, <1>2, SessionGoesOn DEF InOrder

LEMMA StopsStep ==
    ASSUME TypeOK, Frames, Panels, Sessions, Unicast, AnswersMeant, NoPanelStops, Next
    PROVE  NoPanelStops'
<1>0. NodeTypeOK
  BY DEF TypeOK, PanelTypeOK
<1> SUFFICES ASSUME InOrder', NEW q \in Node, q \in halted'
             PROVE  q \in ImcpHub /\ node_type'[q] = "Ready"
  <2>1. TypeOK'
    BY Types
  <2>2. halted' \subseteq Node
    BY <2>1 DEF TypeOK, PanelTypeOK, NodeTypeOK
  <2> QED BY <2>2 DEF NoPanelStops
<1>1. CASE SessionBegins
  <2>1. q \in halted /\ ~exhausted /\ node_type[q] = "NotReady"
    BY <1>1 DEF SessionBegins, nodeVars, InOrder
  <2> QED BY <2>1 DEF Unicast, Quiet
<1>2. CASE SessionStep
  <2>0. InOrder
    BY <1>2, SessionGoesOn DEF SessionStep, InOrder
  <2>1. q \in halted => q \in ImcpHub /\ node_type[q] = "Ready"
    BY <2>0 DEF NoPanelStops
  <2>2. /\ \A p \in Node : Quiet(p) /\ AnswersMeantAt(p)
    BY <2>0 DEF Unicast, InOrder, AnswersMeant, AnswersMeantAt
  <2>3. ASSUME UNCHANGED <<node_type[q], halted>>
        PROVE  q \in ImcpHub /\ node_type'[q] = "Ready"
    BY <2>1, <2>3
  <2>4. ASSUME NEW p \in Node, PanelStep(p), q # p
        PROVE  q \in ImcpHub /\ node_type'[q] = "Ready"
    BY <2>1, <2>4, PanelStepOthers
  <2>5. ASSUME PanelStep(q)
        PROVE  q \in ImcpHub /\ node_type'[q] = "Ready"
    <3>1. CASE PanelJoin(q)
      <4>1. /\ q \notin halted /\ node_type[q] = "NotReady"
        BY <3>1 DEF PanelJoin, SendJoin
      <4>2. tx_queue[q] = <<>>
        BY <2>2, <4>1 DEF Quiet
      <4>3. ~QueueFull(q)
        BY <4>2 DEF QueueFull
      <4>4. halted' = halted
        BY <3>1, <4>3 DEF PanelJoin, SendJoin, Enqueue
      <4> QED BY <4>1, <4>4
    <3>2. CASE Scan(q) \/ ReportEdge(q)
      BY <2>3, <3>2 DEF Scan, ReportEdge, nodeVars
    <3>3. CASE AcceptAddress(q)
      <4>1. halted' = halted /\ q \notin halted
        BY <2>2, <3>3, AcceptRoom, AcceptEffect DEF Reading
      <4> QED BY <4>1
    <3>4. CASE Drops(q) \/ Settles(q)
      BY <2>3, <3>4 DEF Drops, Settles, Still
    <3>5. CASE Replies(q)
      <4>1. /\ Reading(q) /\ TakeFrame(q) /\ Addressed(q) /\ Incoming(q).type = "Set"
            /\ UNCHANGED node_type
        BY <3>5 DEF Replies, Still
      <4>2. node_type[q] = "Ready"
        BY <2>2, <4>1, NotAddressed
      <4>3. Incoming(q) = rx[q][1] /\ 1 \in DOMAIN rx[q]
        BY <1>0, <4>1, ReadFrame
      <4>4. Incoming(q).to = address[q]
        BY <2>2, <4>1, <4>3 DEF Addressed, Quiet, Narrow
      <4>5. q \in ImcpHub
        BY <2>2, <4>1, <4>2, <4>3, <4>4 DEF AnswersMeantAt, Meant
      <4> QED BY <4>1, <4>2, <4>5
    <3>6. CASE PowerCycle(q)
      BY <3>6 DEF PowerCycle, ClientRestart
    <3> QED BY <2>5, <3>1, <3>2, <3>3, <3>4, <3>5, <3>6, ReadKinds DEF PanelStep
  <2>6. ASSUME NEW p \in Node, PanelTransmits(p)
        PROVE  UNCHANGED <<node_type, halted>>
    BY <2>6, WriteEffect
  <2>7. OnlyHear => UNCHANGED <<node_type, halted>>
    BY ManagerQueues
  <2> QED BY <1>2, <2>3, <2>4, <2>5, <2>6, <2>7 DEF SessionStep
<1> QED BY <1>1, <1>2, SessionGoesOn DEF InOrder

-----------------------------------------------------------------------------
(* The order of events.                                                    *)

LEMMA ReportFields ==
    ASSUME TypeOK, NEW p \in Node, NEW b \in ReportsOf(p)
    PROVE  /\ b.device = p
           /\ b.kind = "Button" => b.press \in Nat /\ b.press <= presses[p]
<1>1. presses[p] \in Nat
  BY DEF TypeOK, PanelTypeOK
<1>2. CASE b = Hello(p)
  BY <1>2 DEF Hello
<1>3. ASSUME NEW pressed \in BOOLEAN, NEW n \in 0 .. presses[p], b = Button(p, pressed, n)
      PROVE  b.device = p /\ b.press \in Nat /\ b.press <= presses[p]
  BY <1>1, <1>3 DEF Button
<1> QED BY <1>2, <1>3 DEF ReportsOf

LEMMA ButtonFields ==
    ASSUME TypeOK, Frames, NEW p \in Node
    PROVE  /\ \A f \in Queued(p) : IsButton(f, p) => f.body.press \in Nat /\ f.body.press <= presses[p]
           /\ \A i \in DOMAIN port : IsButton(port[i], p) =>
                 port[i].body.press \in Nat /\ port[i].body.press <= presses[p]
<1>1. ASSUME NEW f \in Queued(p), IsButton(f, p)
      PROVE  f.body.press \in Nat /\ f.body.press <= presses[p]
  <2>1. f.type = "Set" /\ f.body.kind = "Button"
    BY <1>1 DEF IsButton
  <2>2. f.body \in ReportsOf(p)
    BY <1>1, <2>1 DEF Frames, IsOwn
  <2> QED BY <2>1, <2>2, ReportFields
<1>2. ASSUME NEW i \in DOMAIN port, IsButton(port[i], p)
      PROVE  port[i].body.press \in Nat /\ port[i].body.press <= presses[p]
  <2>1. port[i].type = "Set" /\ port[i].body.kind = "Button" /\ port[i].body.device = p
    BY <1>2 DEF IsButton
  <2>2. PICK q \in Node : port[i].body \in ReportsOf(q)
    BY <2>1 DEF Frames, IsHeard
  <2> QED BY <2>1, <2>2, ReportFields
<1> QED BY <1>1, <1>2

LEMMA OrderedRest ==
    ASSUME NEW p, NEW P \in Seq(Frame), NEW x, NEW Q, Ordered(p, P, x, Q),
           NEW R, NEW k \in Nat,
           \A i \in DOMAIN R : i \in Nat /\ i + k \in DOMAIN P /\ R[i] = P[i + k]
    PROVE  Ordered(p, R, x, Q)
BY DEF Ordered

(* The event e is queued last; what else is queued is no event.            *)
LEMMA OrderedGrows ==
    ASSUME NEW p, NEW P, NEW x, NEW Q \in Seq(Frame), Ordered(p, P, x, Q),
           NEW y \in {x, None}, NEW R \in Seq(Frame), NEW e,
           \A i \in DOMAIN R : \/ i \in DOMAIN Q /\ R[i] = Q[i]
                               \/ i = Len(Q) + 1 /\ R[i] = e
                               \/ ~IsButton(R[i], p),
           \A i \in DOMAIN P : Precedes(P[i], e, p),
           \A j \in DOMAIN Q : Precedes(Q[j], e, p),
           x # None => Precedes(x, e, p)
    PROVE  Ordered(p, P, y, R)
<1>1. \A i \in DOMAIN P, j \in DOMAIN R : Precedes(P[i], R[j], p)
  BY DEF Ordered, Precedes
<1>2. \A j \in DOMAIN R : x # None => Precedes(x, R[j], p)
  BY DEF Ordered, Precedes
<1>3. ASSUME NEW i \in DOMAIN R, NEW j \in DOMAIN R, i < j
      PROVE  Precedes(R[i], R[j], p)
  <2>1. CASE ~IsButton(R[i], p) \/ ~IsButton(R[j], p)
    BY <2>1 DEF Precedes
  <2>2. CASE IsButton(R[i], p) /\ IsButton(R[j], p)
    <3>1. i \in DOMAIN Q /\ R[i] = Q[i]
      BY <1>3, <2>2
    <3> QED BY <1>3, <2>2, <3>1 DEF Ordered
  <2> QED BY <2>1, <2>2
<1> QED BY <1>1, <1>2, <1>3 DEF Ordered

(* A frame that is sent stays first, if it stays.                          *)
LEMMA OrderedSends ==
    ASSUME NEW p, NEW P \in Seq(Frame), NEW Q \in Seq(Frame), NEW f \in Frame,
           Ordered(p, P, f, Q), Precedes(f, f, p),
           NEW y \in {f, None}, NEW R, R = P \/ R = Append(P, f)
    PROVE  Ordered(p, R, y, Q)
<1>1. f # None
  BY NoneAssumption
<1>2. \A i \in DOMAIN R : \/ i \in DOMAIN P /\ R[i] = P[i]
                          \/ i = Len(P) + 1 /\ R[i] = f
  BY AppendElements
<1>3. \A i \in DOMAIN R : i \in Nat
  <2>1. R \in Seq(Frame)
    OBVIOUS
  <2> QED BY <2>1
<1>4. \A i \in DOMAIN R, j \in DOMAIN Q : Precedes(R[i], Q[j], p)
  BY <1>1, <1>2 DEF Ordered
<1>5. \A i \in DOMAIN R : Precedes(R[i], f, p)
  BY <1>1, <1>2 DEF Ordered
<1>6. ASSUME NEW i \in DOMAIN R, NEW j \in DOMAIN R, i < j
      PROVE  Precedes(R[i], R[j], p)
  <2>1. i \in DOMAIN P /\ R[i] = P[i]
    BY <1>2, <1>3, <1>6
  <2>2. CASE j \in DOMAIN P /\ R[j] = P[j]
    BY <1>6, <2>1, <2>2 DEF Ordered
  <2>3. CASE R[j] = f
    BY <1>1, <2>1, <2>3 DEF Ordered
  <2> QED BY <1>2, <2>2, <2>3
<1> QED BY <1>1, <1>4, <1>5, <1>6 DEF Ordered

LEMMA OrderedNext ==
    ASSUME NEW p, NEW P, NEW Q \in Seq(Frame), Q # <<>>, Ordered(p, P, None, Q)
    PROVE  Ordered(p, P, Q[1], Tail(Q))
<1>1. \A i \in DOMAIN Tail(Q) : i \in Nat /\ i + 1 \in DOMAIN Q /\ Tail(Q)[i] = Q[i + 1]
  BY TailElements
<1>2. 1 \in DOMAIN Q /\ \A i \in DOMAIN Tail(Q) : 1 < i + 1
  <2>1. Tail(Q) \in Seq(Frame)
    OBVIOUS
  <2> QED BY <2>1
<1>3. \A i, j \in DOMAIN Tail(Q) : i < j => i + 1 < j + 1
  BY <1>1
<1>4. \A i, j \in DOMAIN Tail(Q) : i < j => Precedes(Tail(Q)[i], Tail(Q)[j], p)
  BY <1>1, <1>3 DEF Ordered
<1> QED BY <1>1, <1>2, <1>4 DEF Ordered

(* A new event is one of the last press, and its release comes after.      *)
LEMMA EventIsLast ==
    ASSUME TypeOK, Frames, Panels, NEW p \in Node, ReportEdge(p), NEW f,
           IsButton(f, p) => f.body.press \in Nat /\ f.body.press <= presses[p]
    PROVE  Precedes(f, Event(p), p)
<1>1. presses[p] \in Nat /\ level[p] \in BOOLEAN
  BY DEF TypeOK, PanelTypeOK
<1>2. /\ Event(p).body.pressed = level[p] /\ Event(p).body.press = Press(p)
  BY DEF Event, Set, Button
<1>3. Press(p) \in Nat /\ presses[p] <= Press(p) /\ (level[p] => presses[p] < Press(p))
  BY <1>1 DEF Press
<1> QED BY <1>1, <1>2, <1>3 DEF Precedes, Follows

LEMMA OrderedPanel ==
    ASSUME TypeOK, Frames, Panels, NEW p \in Node, PanelStep(p),
           Ordered(p, port, pending_frame[p], tx_queue[p])
    PROVE  Ordered(p, port', pending_frame'[p], tx_queue'[p])
<1>0. NodeTypeOK /\ PanelTypeOK
  BY DEF TypeOK, PanelTypeOK
<1>p. UNCHANGED port
  BY DEF PanelStep, managerVars
<1>q. /\ tx_queue[p] \in Seq(Frame) /\ tx_queue'[p] \in Seq(Frame)
  <2>1. PanelTypeOK'
    BY PanelStepTypes
  <2> QED BY <1>0, <2>1 DEF PanelTypeOK, NodeTypeOK

<1>1. ASSUME pending_frame'[p] \in {pending_frame[p], None}, NEW e \in Frame, e.type # "Set",
             \A i \in DOMAIN tx_queue'[p] :
                \/ i \in DOMAIN tx_queue[p] /\ tx_queue'[p][i] = tx_queue[p][i]
                \/ tx_queue'[p][i].type # "Set"
      PROVE  Ordered(p, port', pending_frame'[p], tx_queue'[p])
  <2>1. /\ \A i \in DOMAIN port : Precedes(port[i], e, p)
        /\ \A j \in DOMAIN tx_queue[p] : Precedes(tx_queue[p][j], e, p)
        /\ Precedes(pending_frame[p], e, p)
    BY <1>1 DEF Precedes, IsButton
  <2>2. \A i \in DOMAIN tx_queue'[p] :
           \/ i \in DOMAIN tx_queue[p] /\ tx_queue'[p][i] = tx_queue[p][i]
           \/ i = Len(tx_queue[p]) + 1 /\ tx_queue'[p][i] = e
           \/ ~IsButton(tx_queue'[p][i], p)
    BY <1>1 DEF IsButton
  <2> QED BY <1>p, <1>q, <1>1, <2>1, <2>2, OrderedGrows
<1>2. ASSUME NEW f \in Frame, f.type # "Set", tx_queue'[p] \in {tx_queue[p], Append(tx_queue[p], f)},
             pending_frame'[p] \in {pending_frame[p], None}
      PROVE  Ordered(p, port', pending_frame'[p], tx_queue'[p])
  <2>1. \A i \in DOMAIN tx_queue'[p] :
           \/ i \in DOMAIN tx_queue[p] /\ tx_queue'[p][i] = tx_queue[p][i]
           \/ tx_queue'[p][i].type # "Set"
    BY <1>q, <1>2, AppendElements
  <2> QED BY <1>1, <1>2, <2>1
<1>3. CASE UNCHANGED <<pending_frame, tx_queue>>
  BY <1>p, <1>3
<1>4. CASE PanelJoin(p)
  <2>1. PICK id \in Id : SendJoin(p, id)
    BY <1>4 DEF PanelJoin
  <2>2. /\ Join(MasterAddress, address[p], id) \in Frame
        /\ Join(MasterAddress, address[p], id).type # "Set"
    BY <1>0, Addresses, FrameConstructors DEF NodeTypeOK, Join
  <2>3. /\ tx_queue'[p] \in {tx_queue[p], Append(tx_queue[p], Join(MasterAddress, address[p], id))}
        /\ UNCHANGED pending_frame
    BY <1>0, <2>1, <2>2, EnqueueEffect DEF SendJoin
  <2> QED BY <1>2, <2>2, <2>3
<1>5. CASE ReportEdge(p)
  <2>1. UNCHANGED pending_frame
    BY <1>5, EdgeEffect
  <2>2. CASE tx_queue' = tx_queue
    BY <1>3, <2>1, <2>2
  <2>3. CASE Event(p) \in Frame /\ tx_queue'[p] = Append(tx_queue[p], Event(p))
    <3>1. /\ \A i \in DOMAIN port : Precedes(port[i], Event(p), p)
          /\ \A f \in Queued(p) : Precedes(f, Event(p), p)
      BY <1>5, ButtonFields, EventIsLast
    <3>2. /\ \A j \in DOMAIN tx_queue[p] : tx_queue[p][j] \in Queued(p)
          /\ pending_frame[p] # None => pending_frame[p] \in Queued(p)
      BY <1>q, NoneAssumption DEF Queued
    <3>3. \A i \in DOMAIN tx_queue'[p] :
             \/ i \in DOMAIN tx_queue[p] /\ tx_queue'[p][i] = tx_queue[p][i]
             \/ i = Len(tx_queue[p]) + 1 /\ tx_queue'[p][i] = Event(p)
      BY <1>q, <2>3, AppendElements
    <3> QED BY <1>p, <1>q, <2>1, <3>1, <3>2, <3>3, OrderedGrows
  <2> QED BY <1>5, <2>2, <2>3, EdgeEffect
<1>6. CASE AcceptAddress(p)
  <2> DEFINE a == Accepted(p)
             h == Greeting(p, Incoming(p).address)
  <2>1. /\ a \in Frame /\ h \in Frame /\ a.type = "Ack" /\ h.body = Hello(p)
    BY <1>6, AcceptEffect DEF Accepted, Greeting, Ack, Set
  <2>2. pending_frame' = [pending_frame EXCEPT ![p] = None]
    BY <1>6, AcceptEffect
  <2>3. pending_frame'[p] = None
    BY <1>0, <2>2 DEF NodeTypeOK
  <2>4. \/ tx_queue'[p] \in {tx_queue[p], Append(tx_queue[p], a)}
        \/ tx_queue'[p] = tx_queue[p] \o <<a, h>>
    BY <1>6, AcceptEffect
  <2> HIDE DEF a, h
  <2>5. CASE tx_queue'[p] = tx_queue[p] \o <<a, h>>
    <3>1. <<a, h>> \in Seq(Frame) /\ \A i \in DOMAIN <<a, h>> : <<a, h>>[i] \in {a, h}
      BY <2>1
    <3>2. ~IsButton(a, p) /\ ~IsButton(h, p)
      BY <2>1 DEF Hello, IsButton
    <3>3. \A i \in DOMAIN tx_queue'[p] :
             \/ i \in DOMAIN tx_queue[p] /\ tx_queue'[p][i] = tx_queue[p][i]
             \/ tx_queue'[p][i] \in {a, h}
      BY <1>q, <2>5, <3>1, ConcatElements
    <3>4. /\ \A i \in DOMAIN port : Precedes(port[i], a, p)
          /\ \A j \in DOMAIN tx_queue[p] : Precedes(tx_queue[p][j], a, p)
          /\ Precedes(pending_frame[p], a, p)
      BY <3>2 DEF Precedes
    <3>5. \A i \in DOMAIN tx_queue'[p] :
             \/ i \in DOMAIN tx_queue[p] /\ tx_queue'[p][i] = tx_queue[p][i]
             \/ i = Len(tx_queue[p]) + 1 /\ tx_queue'[p][i] = a
             \/ ~IsButton(tx_queue'[p][i], p)
      BY <3>2, <3>3
    <3> QED BY <1>p, <1>q, <2>3, <3>4, <3>5, OrderedGrows
  <2> QED BY <1>2, <2>1, <2>3, <2>4, <2>5
<1>7. CASE Drops(p) \/ Settles(p)
  <2>1. /\ UNCHANGED tx_queue /\ pending_frame'[p] \in {pending_frame[p], None}
    BY <1>0, <1>7 DEF Drops, Settles, NodeTypeOK
  <2>2. Pong(MasterAddress, MasterAddress) \in Frame
        /\ Pong(MasterAddress, MasterAddress).type # "Set"
    BY Addresses, FrameConstructors DEF Pong
  <2> QED BY <1>2, <2>1, <2>2
<1>8. CASE Replies(p)
  <2>1. /\ Ack(Incoming(p).from, address[p], Incoming(p).to) \in Frame
        /\ Ack(Incoming(p).from, address[p], Incoming(p).to).type # "Set"
    BY <1>8, ReplyFrame DEF Replies, Ack
  <2>2. /\ tx_queue'[p] \in {tx_queue[p],
                             Append(tx_queue[p], Ack(Incoming(p).from, address[p], Incoming(p).to))}
        /\ UNCHANGED pending_frame
    BY <1>0, <1>8, <2>1, EnqueueEffect DEF Replies
  <2> QED BY <1>2, <2>1, <2>2
<1>9. CASE PowerCycle(p)
  <2>1. tx_queue'[p] = <<>> /\ pending_frame'[p] = None
    BY <1>0, <1>9 DEF PowerCycle, ClientRestart, NodeTypeOK
  <2> QED BY <1>p, <2>1 DEF Ordered
<1>10. CASE Scan(p)
  BY <1>3, <1>10 DEF Scan, nodeVars
<1> QED BY <1>4, <1>5, <1>6, <1>7, <1>8, <1>9, <1>10, ReadKinds DEF PanelStep

LEMMA OrderedTransmits ==
    ASSUME TypeOK, Frames, NEW p \in Node, PanelTransmits(p),
           Ordered(p, port, pending_frame[p], tx_queue[p])
    PROVE  Ordered(p, port', pending_frame'[p], tx_queue'[p])
<1>1. /\ Outgoing(p) \in Frame /\ Outgoing(p) \in Queued(p)
      /\ pending_frame'[p] \in {Outgoing(p), None}
      /\ IF pending_frame[p] = None
           THEN /\ tx_queue[p] # <<>> /\ Outgoing(p) = tx_queue[p][1]
                /\ tx_queue'[p] = Tail(tx_queue[p])
           ELSE Outgoing(p) = pending_frame[p] /\ tx_queue'[p] = tx_queue[p]
      /\ port' = port \/ port' = Append(port, Outgoing(p))
      /\ port \in Seq(Frame) /\ tx_queue[p] \in Seq(Frame) /\ tx_queue'[p] \in Seq(Frame)
  BY WriteEffect DEF TypeOK, PanelTypeOK, NodeTypeOK
<1>2. Precedes(Outgoing(p), Outgoing(p), p)
  <2>1. IsButton(Outgoing(p), p) => Outgoing(p).body.press \in Nat
    BY <1>1, ButtonFields
  <2> QED BY <2>1 DEF Precedes, Follows
<1>3. Ordered(p, port, Outgoing(p), tx_queue'[p])
  BY <1>1, OrderedNext
<1> QED BY <1>1, <1>2, <1>3, OrderedSends

LEMMA EventOrderStep ==
    ASSUME TypeOK, Frames, Panels, EventOrder, Next
    PROVE  EventOrder'
<1> SUFFICES ASSUME NEW q \in Node
             PROVE  Ordered(q, port', pending_frame'[q], tx_queue'[q])
  BY DEF EventOrder
<1>0. Ordered(q, port, pending_frame[q], tx_queue[q])
  BY DEF EventOrder
<1>1. ASSUME NEW p \in Node, PanelStep(p)
      PROVE  Ordered(q, port', pending_frame'[q], tx_queue'[q])
  <2>1. CASE p = q
    BY <1>0, <1>1, <2>1, OrderedPanel
  <2>2. CASE p # q
    <3>1. UNCHANGED <<port, pending_frame[q], tx_queue[q]>>
      BY <1>1, <2>2, PanelStepOthers DEF managerVars
    <3> QED BY <1>0, <3>1
  <2> QED BY <2>1, <2>2
<1>2. ASSUME NEW p \in Node, PanelTransmits(p)
      PROVE  Ordered(q, port', pending_frame'[q], tx_queue'[q])
  <2>1. CASE p = q
    BY <1>0, <1>2, <2>1, OrderedTransmits
  <2>2. CASE p # q
    <3>1. /\ UNCHANGED <<pending_frame[q], tx_queue[q]>>
          /\ port' = port \/ port' = Append(port, Outgoing(p))
          /\ Outgoing(p) \in Frame /\ IsOwn(p, Outgoing(p)) /\ port \in Seq(Frame)
      BY <1>2, <2>2, WriteEffect DEF TypeOK, Frames
    <3>2. ~IsButton(Outgoing(p), q)
      <4>1. Outgoing(p).type = "Set" => Outgoing(p).body \in ReportsOf(p)
        BY <3>1 DEF IsOwn
      <4>2. \A b \in ReportsOf(p) : b.device = p
        BY ReportFields
      <4> QED BY <2>2, <4>1, <4>2 DEF IsButton
    <3>3. \A i \in DOMAIN port' : i \in Nat /\ \/ i \in DOMAIN port /\ port'[i] = port[i]
                                               \/ port'[i] = Outgoing(p)
      <4>1. port' \in Seq(Frame)
        BY <3>1
      <4> QED BY <3>1, <4>1, AppendElements
    <3>4. Ordered(q, port', pending_frame[q], tx_queue[q])
      BY <1>0, <3>2, <3>3 DEF Ordered, Precedes
    <3> QED BY <3>1, <3>4
  <2> QED BY <2>1, <2>2
<1>3. ASSUME OnlyHear
      PROVE  Ordered(q, port', pending_frame'[q], tx_queue'[q])
  <2>1. UNCHANGED <<pending_frame, tx_queue>> /\ port \in Seq(Frame)
    BY <1>3, ManagerQueues DEF TypeOK
  <2>2. PICK k \in Nat : \A i \in DOMAIN port' :
           i \in Nat /\ i + k \in DOMAIN port /\ port'[i] = port[i + k]
    BY <1>3, <2>1, PortRest DEF OnlyHear
  <2>3. Ordered(q, port', pending_frame[q], tx_queue[q])
    BY <1>0, <2>1, <2>2, OrderedRest
  <2> QED BY <2>1, <2>3
<1> QED BY <1>1, <1>2, <1>3, ManagerHears DEF Next

-----------------------------------------------------------------------------
(* The pushes.                                                             *)

PushCountAt(p) ==
    /\ Due(p) <= presses[p]
    /\ \A f \in Queued(p) : IsButton(f, p) => Counts(pushes[p], Due(p), f.body)
    /\ \A i \in DOMAIN port : IsButton(port[i], p) => Counts(pushes[p], Due(p), port[i].body)

LEMMA DueType ==
    ASSUME TypeOK, NEW p \in Node
    PROVE  /\ pushes[p] \in Nat /\ Due(p) \in Nat /\ presses[p] \in Nat
           /\ pushes[p] <= Due(p) /\ Due(p) <= pushes[p] + 1
BY DEF TypeOK, PanelTypeOK, Due

(* What was sent and what was heard may go, and an event of a later press  *)
(* may come.                                                               *)
LEMMA CountKept ==
    ASSUME NEW p \in Node, PushCountAt(p),
           Due(p) \in Nat, presses[p] \in Nat, presses'[p] \in Nat, presses[p] <= presses'[p],
           UNCHANGED <<pushes, pressed_buttons>>,
           \A f \in Queued(p)' : \/ f \in Queued(p)
                                 \/ IsButton(f, p) => Counts(pushes[p], Due(p), f.body),
           \A i \in DOMAIN port' : \/ \E j \in DOMAIN port : port'[i] = port[j]
                                   \/ port'[i] \in Queued(p)
                                   \/ ~IsButton(port'[i], p)
    PROVE  PushCountAt(p)'
<1>1. Due(p)' = Due(p) /\ pushes'[p] = pushes[p]
  BY DEF Due
<1>2. Due(p) <= presses'[p]
  BY DEF PushCountAt
<1>3. \A f \in Queued(p)' : IsButton(f, p) => Counts(pushes[p], Due(p), f.body)
  BY DEF PushCountAt
<1>4. \A i \in DOMAIN port' : IsButton(port'[i], p) => Counts(pushes[p], Due(p), port'[i].body)
  BY DEF PushCountAt
<1> QED BY <1>1, <1>2, <1>3, <1>4 DEF PushCountAt

LEMMA CountPanel ==
    ASSUME TypeOK, Frames, Panels, NEW p \in Node, PanelStep(p), PushCountAt(p)
    PROVE  PushCountAt(p)'
<1>0. NodeTypeOK /\ PanelTypeOK
  BY DEF TypeOK, PanelTypeOK
<1>m. UNCHANGED <<port, pushes, pressed_buttons>>
  BY DEF PanelStep, managerVars, tables
<1>d. /\ pushes[p] \in Nat /\ Due(p) \in Nat /\ presses[p] \in Nat
      /\ pushes[p] <= Due(p) /\ Due(p) <= presses[p]
  BY DueType DEF PushCountAt
<1>1. ASSUME presses'[p] = presses[p],
             \A f \in Queued(p)' : f \in Queued(p) \/ ~IsButton(f, p)
      PROVE  PushCountAt(p)'
  BY <1>m, <1>d, <1>1, CountKept
<1>2. CASE Queued(p)' = {} /\ presses'[p] = presses[p]
  BY <1>1, <1>2
<1>3. CASE UNCHANGED <<pending_frame, tx_queue, presses>>
  BY <1>1, <1>3 DEF Queued
<1>4. ASSUME NEW f \in Frame, f.type # "Set", tx_queue'[p] \in {tx_queue[p], Append(tx_queue[p], f)},
             pending_frame'[p] = pending_frame[p], presses'[p] = presses[p]
      PROVE  PushCountAt(p)'
  <2>1. Queued(p)' \subseteq Queued(p) \cup {f}
    BY <1>0, <1>4, AppendQueued, SameQueued
  <2> QED BY <1>1, <1>4, <2>1 DEF IsButton
<1>5. CASE PanelJoin(p)
  <2>1. PICK id \in Id : SendJoin(p, id)
    BY <1>5 DEF PanelJoin
  <2>2. /\ Join(MasterAddress, address[p], id) \in Frame
        /\ Join(MasterAddress, address[p], id).type # "Set"
    BY <1>0, Addresses, FrameConstructors DEF NodeTypeOK, Join
  <2>3. /\ tx_queue'[p] \in {tx_queue[p], Append(tx_queue[p], Join(MasterAddress, address[p], id))}
        /\ UNCHANGED <<pending_frame, presses>>
    BY <1>0, <1>5, <2>1, <2>2, EnqueueEffect DEF SendJoin, PanelJoin
  <2> QED BY <1>4, <2>2, <2>3
<1>6. CASE ReportEdge(p)
  <2>1. /\ presses' = [presses EXCEPT ![p] = Press(p)] /\ Press(p) \in 0 .. MaxPresses[p]
        /\ presses[p] <= Press(p) /\ UNCHANGED pending_frame
        /\ \/ tx_queue' = tx_queue
           \/ Event(p) \in Frame /\ tx_queue'[p] = Append(tx_queue[p], Event(p))
    BY <1>6, EdgeEffect
  <2>2. presses'[p] = Press(p) /\ Press(p) \in Nat
    BY <1>0, <2>1, PressesAssumption DEF PanelTypeOK
  <2>3. Queued(p)' \subseteq Queued(p) \cup {Event(p)}
    BY <1>0, <2>1, AppendQueued, SameQueued
  <2>4. Counts(pushes[p], Due(p), Event(p).body)
    <3>1. /\ Event(p).body.pressed = level[p] /\ Event(p).body.press = Press(p)
      BY DEF Event, Set, Button
    <3>2. level[p] => Press(p) = presses[p] + 1
      BY DEF Press
    <3>3. level[p] \in BOOLEAN
      BY <1>0 DEF PanelTypeOK
    <3> QED BY <1>d, <2>1, <2>2, <3>1, <3>2, <3>3 DEF Counts
  <2> QED BY <1>m, <1>d, <2>1, <2>2, <2>3, <2>4, CountKept
<1>7. CASE AcceptAddress(p)
  <2> DEFINE a == Accepted(p)
             h == Greeting(p, Incoming(p).address)
  <2>1. /\ a \in Frame /\ h \in Frame /\ a.type = "Ack" /\ h.body = Hello(p)
        /\ UNCHANGED presses
    BY <1>7, AcceptEffect DEF Accepted, Greeting, Ack, Set
  <2>2. pending_frame' = [pending_frame EXCEPT ![p] = None]
    BY <1>7, AcceptEffect
  <2>3. pending_frame'[p] = None
    BY <1>0, <2>2 DEF NodeTypeOK
  <2>4. \/ tx_queue'[p] \in {tx_queue[p], Append(tx_queue[p], a)}
        \/ tx_queue'[p] = tx_queue[p] \o <<a, h>>
    BY <1>7, AcceptEffect
  <2> HIDE DEF a, h
  <2>5. tx_queue[p] \in Seq(Frame) /\ <<a, h>> \in Seq(Frame)
    BY <1>0, <2>1 DEF NodeTypeOK
  <2>6. \A i \in DOMAIN <<a, h>> : <<a, h>>[i] \in {a, h}
    OBVIOUS
  <2>7. \A i \in DOMAIN tx_queue'[p] :
           \/ i \in DOMAIN tx_queue[p] /\ tx_queue'[p][i] = tx_queue[p][i]
           \/ tx_queue'[p][i] \in {a, h}
    <3>1. CASE tx_queue'[p] = tx_queue[p]
      BY <3>1
    <3>2. CASE tx_queue'[p] = Append(tx_queue[p], a)
      BY <2>1, <2>5, <3>2, AppendElements
    <3>3. CASE tx_queue'[p] = tx_queue[p] \o <<a, h>>
      BY <2>5, <2>6, <3>3, ConcatElements
    <3> QED BY <2>4, <3>1, <3>2, <3>3
  <2>8. ~IsButton(a, p) /\ ~IsButton(h, p)
    BY <2>1 DEF Hello, IsButton
  <2>9. \A f \in Queued(p)' : f \in Queued(p) \/ f \in {a, h}
    BY <2>3, <2>7 DEF Queued
  <2> QED BY <1>1, <2>1, <2>8, <2>9
<1>8. CASE Drops(p) \/ Settles(p)
  <2>1. /\ UNCHANGED <<tx_queue, presses>> /\ pending_frame'[p] \in {None, pending_frame[p]}
    BY <1>0, <1>8 DEF Drops, Settles, Still, panelVars, NodeTypeOK
  <2> QED BY <1>1, <2>1, SameQueued
<1>9. CASE Replies(p)
  <2>1. /\ Ack(Incoming(p).from, address[p], Incoming(p).to) \in Frame
        /\ Ack(Incoming(p).from, address[p], Incoming(p).to).type # "Set"
    BY <1>9, ReplyFrame DEF Replies, Ack
  <2>2. /\ tx_queue'[p] \in {tx_queue[p],
                             Append(tx_queue[p], Ack(Incoming(p).from, address[p], Incoming(p).to))}
        /\ UNCHANGED <<pending_frame, presses>>
    BY <1>0, <1>9, <2>1, EnqueueEffect DEF Replies, Still, panelVars
  <2> QED BY <1>4, <2>1, <2>2
<1>10. CASE PowerCycle(p)
  <2>1. tx_queue'[p] = <<>> /\ pending_frame'[p] = None /\ UNCHANGED presses
    BY <1>0, <1>10 DEF PowerCycle, ClientRestart, NodeTypeOK
  <2> QED BY <1>2, <2>1 DEF Queued
<1>11. CASE Scan(p)
  BY <1>3, <1>11 DEF Scan, nodeVars
<1> QED BY <1>5, <1>6, <1>7, <1>8, <1>9, <1>10, <1>11, ReadKinds DEF PanelStep

(* The event at the head of the port is counted; the rest are later ones.  *)
LEMMA CountEvent ==
    ASSUME TypeOK, Frames, InOrder, Greetings, EventOrder, PushCount, OnlyHear,
           NEW heard, HandleControlEvent(heard), NEW q \in Node
    PROVE  PushCountAt(q)'
<1>1. /\ port # <<>> /\ port' = Tail(port) /\ Received.type = "Set"
      /\ Received.body.kind = "Button"
      /\ ProcessControlEvent(known_devices[Received.from], Received.body.pressed)
  BY DEF HandleControlEvent, Receives
<1>2. /\ Received = port[1] /\ 1 \in DOMAIN port /\ Received.body.device \in Node
      /\ known_devices[Received.from] = Received.body.device
  <2>1. Received = port[1] /\ 1 \in DOMAIN port /\ Received.body.device \in Node
    BY <1>1, ReceivedFrame
  <2> QED BY <1>1, <2>1 DEF Greetings
<1>3. UNCHANGED <<pending_frame, tx_queue, presses>>
  BY ManagerQueues DEF panelVars
<1>4. \A i \in DOMAIN port' :
         i \in Nat /\ 1 < i + 1 /\ i + 1 \in DOMAIN port /\ port'[i] = port[i + 1]
  <2>1. port' \in Seq(Frame) /\ \A i \in DOMAIN port' : i + 1 \in DOMAIN port /\ port'[i] = port[i + 1]
    BY <1>1, TailElements DEF TypeOK
  <2> QED BY <2>1
<1>5. PushCountAt(q) /\ TypeOK
  BY DEF PushCount, PushCountAt
<1>6. ASSUME UNCHANGED <<pushes[q], Due(q)>>
      PROVE  PushCountAt(q)'
  <2>1. Queued(q)' = Queued(q)
    BY <1>3 DEF Queued
  <2> QED BY <1>3, <1>4, <1>5, <1>6, <2>1 DEF PushCountAt
<1>7. pushes \in [Node -> Nat] /\ pressed_buttons \in SUBSET Node
  BY DEF TypeOK
<1>8. CASE Received.body.device # q \/ UNCHANGED <<pressed_buttons, pushes>>
  <2>1. /\ pushes'[q] = pushes[q]
        /\ q \in pressed_buttons' <=> q \in pressed_buttons
    BY <1>1, <1>2, <1>7, <1>8 DEF ProcessControlEvent, Release
  <2> QED BY <1>6, <2>1 DEF Due
<1>9. CASE Received.body.device = q /\ ~UNCHANGED <<pressed_buttons, pushes>>
  <2> DEFINE b == Received.body
  <2>1. IsButton(port[1], q)
    BY <1>1, <1>2, <1>9 DEF IsButton
  <2>2. /\ Counts(pushes[q], Due(q), b) /\ b.press \in Nat /\ b.press <= presses[q]
    BY <1>2, <1>5, <2>1, ButtonFields DEF PushCountAt
  <2>3. /\ \A i \in DOMAIN port' : IsButton(port'[i], q) =>
              /\ Follows(b, port'[i].body) /\ Counts(pushes[q], Due(q), port'[i].body)
              /\ port'[i].body.press \in Nat
        /\ \A f \in Queued(q) : IsButton(f, q) =>
              /\ Follows(b, f.body) /\ Counts(pushes[q], Due(q), f.body)
              /\ f.body.press \in Nat
    <3>1. Ordered(q, port, pending_frame[q], tx_queue[q])
      BY DEF EventOrder
    <3>2. ASSUME NEW i \in DOMAIN port', IsButton(port'[i], q)
          PROVE  /\ Follows(b, port'[i].body) /\ Counts(pushes[q], Due(q), port'[i].body)
                 /\ port'[i].body.press \in Nat
      <4>1. i + 1 \in DOMAIN port /\ 1 < i + 1 /\ port'[i] = port[i + 1]
        BY <1>4, <3>2
      <4>2. Precedes(port[1], port[i + 1], q)
        BY <1>2, <3>1, <4>1 DEF Ordered
      <4>3. Follows(b, port'[i].body)
        BY <1>2, <2>1, <3>2, <4>1, <4>2 DEF Precedes
      <4>4. Counts(pushes[q], Due(q), port'[i].body) /\ port'[i].body.press \in Nat
        BY <1>5, <3>2, <4>1, ButtonFields DEF PushCountAt
      <4> QED BY <4>3, <4>4
    <3>3. ASSUME NEW f \in Queued(q), IsButton(f, q)
          PROVE  /\ Follows(b, f.body) /\ Counts(pushes[q], Due(q), f.body)
                 /\ f.body.press \in Nat
      <4>1. (f = pending_frame[q] /\ f # None) \/ \E j \in DOMAIN tx_queue[q] : f = tx_queue[q][j]
        BY <3>3 DEF Queued
      <4>2. Precedes(port[1], f, q)
        BY <1>2, <3>1, <4>1 DEF Ordered
      <4>3. Follows(b, f.body)
        BY <1>2, <2>1, <3>3, <4>2 DEF Precedes
      <4>4. Counts(pushes[q], Due(q), f.body) /\ f.body.press \in Nat
        BY <1>5, <3>3, ButtonFields DEF PushCountAt
      <4> QED BY <4>3, <4>4
    <3> QED BY <3>2, <3>3
  <2>d. /\ pushes[q] \in Nat /\ presses[q] \in Nat
        /\ Due(q) = pushes[q] + (IF q \in pressed_buttons THEN 1 ELSE 0)
    BY DueType DEF Due
  <2>4. \/ /\ b.pressed /\ pushes'[q] = pushes[q] /\ Due(q)' = pushes[q] + 1
        \/ /\ ~b.pressed /\ q \in pressed_buttons
           /\ pushes'[q] = pushes[q] + 1 /\ Due(q)' = pushes[q] + 1
    <3>1. q # None /\ ProcessControlEvent(q, b.pressed)
      BY <1>1, <1>2, <1>9
    <3>2. CASE b.pressed
      <4>1. pressed_buttons' = pressed_buttons \cup {q} /\ pushes' = pushes
        BY <1>9, <3>1, <3>2 DEF ProcessControlEvent
      <4> QED BY <3>2, <4>1 DEF Due
    <3>3. CASE ~b.pressed
      <4>1. Release(q)
        BY <1>9, <3>1, <3>3 DEF ProcessControlEvent
      <4>2. CASE q \notin pressed_buttons
        <5>1. UNCHANGED <<pressed_buttons, pushes>>
          BY <1>7, <4>1, <4>2 DEF Release
        <5> QED BY <1>9, <5>1
      <4>3. CASE q \in pressed_buttons
        <5>1. pushes'[q] = pushes[q] + 1 /\ q \notin pressed_buttons'
          BY <1>7, <4>1, <4>3 DEF Release
        <5>2. Due(q)' = pushes'[q] + 0
          BY <5>1 DEF Due
        <5> QED BY <2>d, <3>3, <4>3, <5>1, <5>2
      <4> QED BY <4>2, <4>3
    <3> QED BY <3>2, <3>3
  <2> HIDE DEF b
  <2>5. Due(q)' <= presses[q]
    BY <2>2, <2>4, <2>d DEF Counts
  <2>6. ASSUME NEW c, Follows(b, c), Counts(pushes[q], Due(q), c), c.press \in Nat
        PROVE  Due(q)' <= c.press /\ (c.pressed => pushes'[q] < c.press)
    <3>1. CASE b.pressed /\ pushes'[q] = pushes[q] /\ Due(q)' = pushes[q] + 1
      <4>1. pushes[q] < b.press /\ b.press <= c.press
        BY <2>2, <2>6, <3>1 DEF Counts, Follows
      <4>2. c.pressed => pushes[q] < c.press
        BY <2>6 DEF Counts
      <4> QED BY <2>2, <2>6, <2>d, <3>1, <4>1, <4>2
    <3>2. CASE /\ ~b.pressed /\ q \in pressed_buttons
               /\ pushes'[q] = pushes[q] + 1 /\ Due(q)' = pushes[q] + 1
      <4>1. pushes[q] + 1 <= b.press /\ b.press <= c.press
        BY <2>2, <2>6, <2>d, <3>2 DEF Counts, Follows
      <4>2. c.pressed => b.press < c.press
        BY <2>6, <3>2 DEF Follows
      <4> QED BY <2>2, <2>6, <2>d, <3>2, <4>1, <4>2
    <3> QED BY <2>4, <3>1, <3>2
  <2>7. Queued(q)' = Queued(q)
    BY <1>3 DEF Queued
  <2>8. \A f \in Queued(q)' : IsButton(f, q) =>
           Due(q)' <= f.body.press /\ (f.body.pressed => pushes'[q] < f.body.press)
    BY <2>3, <2>6, <2>7
  <2>9. \A i \in DOMAIN port' : IsButton(port'[i], q) =>
           Due(q)' <= port'[i].body.press /\ (port'[i].body.pressed => pushes'[q] < port'[i].body.press)
    BY <2>3, <2>6
  <2> QED BY <1>3, <2>5, <2>8, <2>9 DEF PushCountAt, Counts, IsButton
<1> QED BY <1>8, <1>9

LEMMA PushCountStep ==
    ASSUME TypeOK, Frames, Panels, Sessions, Unicast, Greetings, EventOrder, PushCount, Next
    PROVE  PushCount'
<1> SUFFICES ASSUME InOrder', NEW q \in Node
             PROVE  PushCountAt(q)'
  BY DEF PushCount, PushCountAt
<1>1. CASE SessionBegins
  <2>1. /\ ~exhausted /\ node_type[q] = "NotReady" /\ UNCHANGED <<pending_frame, tx_queue, presses>>
        /\ port' = <<>> /\ pushes' = NoPushes /\ pressed_buttons' = {}
    BY <1>1 DEF SessionBegins, nodeVars, panelVars, InOrder
  <2>2. pending_frame[q] = None /\ tx_queue[q] = <<>>
    BY <2>1 DEF Unicast, Quiet
  <2>3. Queued(q)' = {}
    BY <2>1, <2>2 DEF Queued
  <2>4. Due(q)' = 0 /\ presses[q] \in Nat
    BY <2>1 DEF Due, NoPushes, TypeOK, PanelTypeOK
  <2> QED BY <2>1, <2>3, <2>4 DEF PushCountAt
<1>2. CASE SessionStep
  <2>0. InOrder
    BY <1>2, SessionGoesOn DEF SessionStep, InOrder
  <2>1. /\ PushCountAt(q) /\ Due(q) \in Nat /\ presses[q] \in Nat
    BY <2>0, DueType DEF PushCount, PushCountAt
  <2>2. ASSUME NEW p \in Node, PanelStep(p)
        PROVE  PushCountAt(q)'
    <3>1. CASE p = q
      BY <2>1, <2>2, <3>1, CountPanel
    <3>2. CASE p # q
      <4>1. UNCHANGED <<port, pushes, pressed_buttons, presses[q], pending_frame[q], tx_queue[q]>>
        BY <2>2, <3>2, PanelStepOthers DEF managerVars, tables
      <4>2. Queued(q)' = Queued(q)
        BY <4>1, OthersQueued
      <4> QED BY <2>1, <4>1, <4>2, CountKept
    <3> QED BY <3>1, <3>2
  <2>3. ASSUME NEW p \in Node, PanelTransmits(p)
        PROVE  PushCountAt(q)'
    <3>1. /\ UNCHANGED <<presses, pushes, pressed_buttons>> /\ Queued(q)' \subseteq Queued(q)
          /\ port' = port \/ port' = Append(port, Outgoing(p))
          /\ Outgoing(p) \in Frame /\ Outgoing(p) \in Queued(p) /\ port \in Seq(Frame)
      BY <2>3, WriteEffect DEF tables, panelVars, TypeOK
    <3>2. Outgoing(p) \in Queued(q) \/ ~IsButton(Outgoing(p), q)
      <4>1. Outgoing(p).type = "Set" => Outgoing(p).body \in ReportsOf(p)
        BY <3>1 DEF Frames, IsOwn
      <4>2. \A b \in ReportsOf(p) : b.device = p
        BY ReportFields
      <4> QED BY <3>1, <4>1, <4>2 DEF IsButton
    <3>3. \A i \in DOMAIN port' : \/ \E j \in DOMAIN port : port'[i] = port[j]
                                  \/ port'[i] \in Queued(q)
                                  \/ ~IsButton(port'[i], q)
      BY <3>1, <3>2, AppendElements
    <3> QED BY <2>1, <3>1, <3>3, CountKept
  <2>4. ASSUME OnlyHear, UNCHANGED <<pushes, pressed_buttons>>
        PROVE  PushCountAt(q)'
    <3>1. /\ UNCHANGED presses /\ Queued(q)' = Queued(q)
          /\ \A i \in DOMAIN port' : \E j \in DOMAIN port : port'[i] = port[j]
      BY <2>4, ManagerQueues, PortRest DEF OnlyHear, TypeOK, panelVars
    <3> QED BY <2>1, <2>4, <3>1, CountKept
  <2>5. ASSUME OnlyHear, NEW heard, HandleControlEvent(heard)
        PROVE  PushCountAt(q)'
    BY <2>0, <2>5, CountEvent
  <2>6. /\ SkipFrame => UNCHANGED <<pushes, pressed_buttons>>
        /\ \A heard, asked : HandleJoin(heard) \/ HandleHello(heard, asked)
                                => UNCHANGED <<pushes, pressed_buttons>>
    BY DEF SkipFrame, tables, HandleJoin, HandleHello
  <2> QED BY <1>2, <2>2, <2>3, <2>4, <2>5, <2>6 DEF SessionStep
<1> QED BY <1>1, <1>2, SessionGoesOn DEF InOrder

-----------------------------------------------------------------------------
(* The theorems.                                                           *)

LEMMA InitIInv ==
    ASSUME Init
    PROVE  IInv
<1>1. /\ Unassigned \in Address /\ Unassigned # Broadcast
      /\ FirstAddress \in FirstAddress .. Broadcast
  BY Addresses DEF Unassigned, FirstAddress, Broadcast
<1>2. TypeOK
  <2>1. NodeTypeOK
    BY <1>1 DEF Init, PanelInit, NodeTypeOK
  <2>2. presses \in [Node -> Nat] /\ \A p \in Node : presses[p] <= MaxPresses[p]
    BY PressesAssumption DEF Init, PanelInit
  <2>3. PanelTypeOK
    BY <2>1, <2>2 DEF Init, PanelInit, PanelTypeOK
  <2>4. /\ join_addresses \in [Id -> (FirstAddress .. Broadcast) \cup {None}]
        /\ known_devices \in [Address -> Node \cup {None}]
        /\ pushes \in [Node -> Nat]
    BY DEF Init, NoAddresses, NoDevices, NoPushes
  <2>5. port \in Seq(Frame) /\ openings \in 0 .. MaxOpenings
    BY DEF Init
  <2> QED BY <1>1, <2>3, <2>4, <2>5 DEF Init, TypeOK
<1>3. /\ \A p \in Node : Queued(p) = {} /\ rx[p] = <<>> /\ pending_frame[p] = None
                        /\ tx_queue[p] = <<>>
      /\ port = <<>>
  BY DEF Init, PanelInit, Queued
<1>4. Frames /\ Panels /\ AddressesAgree
  <2>1. Frames
    BY <1>3 DEF Frames
  <2>2. Panels /\ AddressesAgree
    BY DEF Init, PanelInit, Panels, AddressesAgree
  <2> QED BY <2>1, <2>2
<1>5. Identifiers /\ Tables /\ Sessions
  BY DEF Init, PanelInit, Identifiers, Tables, Sessions, NoAddresses
<1>6. Unicast
  <2>1. \A id \in Id : join_addresses[id] # Broadcast
    BY Addresses, OptionAssumption DEF Init, NoAddresses
  <2>2. ASSUME NEW p \in Node
        PROVE  Quiet(p)
    <3>1. rx[p] = <<>> /\ tx_queue[p] = <<>> /\ pending_frame[p] = None
      BY <1>3
    <3>2. DOMAIN rx[p] = {}
      BY <3>1
    <3>3. address[p] = Unassigned /\ node_type[p] = "NotReady"
      BY DEF Init, PanelInit
    <3>4. p \notin halted
      BY DEF Init, PanelInit
    <3> QED BY <3>1, <3>2, <3>3, <3>4, <1>1 DEF Quiet
  <2>3. ~exhausted /\ port = <<>>
    BY DEF Init
  <2> QED BY <2>1, <2>2, <2>3 DEF Unicast
<1>7. ~InSession
  BY DEF Init, InSession
<1>8. EventOrder
  <2>1. ASSUME NEW p \in Node
        PROVE  Ordered(p, port, pending_frame[p], tx_queue[p])
    <3>1. port = <<>> /\ tx_queue[p] = <<>> /\ pending_frame[p] = None
      BY <1>3
    <3>2. DOMAIN port = {} /\ DOMAIN tx_queue[p] = {}
      BY <3>1
    <3> QED BY <3>1, <3>2 DEF Ordered
  <2> QED BY <2>1 DEF EventOrder
<1> QED BY <1>2, <1>4, <1>5, <1>6, <1>7, <1>8
        DEF IInv, OffersMatch, Claims, AnswersMeant, Greetings, PushCount, NoPanelStops, InOrder

LEMMA NextIInv ==
    ASSUME IInv, [Next]_vars
    PROVE  IInv'
<1>1. CASE Next
  <2>1. TypeOK /\ Frames /\ Panels /\ AddressesAgree /\ Identifiers /\ Tables /\ Sessions
    BY DEF IInv
  <2>2. Unicast /\ OffersMatch /\ Claims /\ AnswersMeant /\ Greetings /\ NoPanelStops
    BY DEF IInv
  <2>3. EventOrder /\ PushCount
    BY DEF IInv
  <2>4. TypeOK' /\ Frames' /\ Panels' /\ AddressesAgree'
    BY <1>1, <2>1, Types, FramesStep, PanelsStep
  <2>5. Identifiers' /\ Tables' /\ Sessions' /\ Unicast'
    BY <1>1, <2>1, <2>2, IdentifiersStep, TablesStep, SessionsStep, UnicastStep
  <2>6. OffersMatch' /\ Claims'
    BY <1>1, <2>1, <2>2, OffersMatchStep, ClaimsStep
  <2>7. AnswersMeant' /\ Greetings' /\ NoPanelStops'
    BY <1>1, <2>1, <2>2, AnswersMeantStep, GreetingsStep, StopsStep
  <2>8. EventOrder' /\ PushCount'
    BY <1>1, <2>1, <2>2, <2>3, EventOrderStep, PushCountStep
  <2> QED BY <2>4, <2>5, <2>6, <2>7, <2>8 DEF IInv
<1>2. CASE UNCHANGED vars
  <2>1. /\ UNCHANGED <<node_type, node_id, address, pending_frame, tx_queue, rx, halted>>
        /\ UNCHANGED <<level, old, runtime, drawn, presses>>
        /\ UNCHANGED <<mode, port, join_addresses, next_address, known_devices,
                       requested_children, pressed_buttons, assigned_address, openings,
                       strangers, exhausted, pushes>>
    BY <1>2 DEF vars, nodeVars, panelVars, managerVars, tables
  <2>2. TypeOK' /\ AddressesAgree'
    BY <2>1 DEF IInv, TypeOK, PanelTypeOK, NodeTypeOK, AddressesAgree
  <2>3. Frames' /\ Panels' /\ Identifiers'
    BY <2>1 DEF IInv, Frames, Panels, Identifiers, IsAnswer, IsOwn, IsHeard, Queued, ReportsOf
  <2>4. Tables' /\ Sessions' /\ Unicast'
    BY <2>1 DEF IInv, Tables, Sessions, Unicast, Quiet, Narrow, Unsent
  <2>5. OffersMatch' /\ Claims' /\ NoPanelStops'
    BY <2>1 DEF IInv, OffersMatch, Claims, Claimed, NoPanelStops, InOrder, InSession
  <2>6. AnswersMeant' /\ Greetings'
    BY <2>1 DEF IInv, AnswersMeant, Meant, Greetings, HelloFirst, IsHello, InOrder, InSession
  <2>7. EventOrder'
    BY <2>1 DEF IInv, EventOrder
  <2>8. PushCount'
    BY <2>1 DEF IInv, PushCount, Due, Queued, InOrder, InSession
  <2> QED BY <2>2, <2>3, <2>4, <2>5, <2>6, <2>7, <2>8 DEF IInv
<1> QED BY <1>1, <1>2

(* The invariant of the hub and its panels.                                *)
THEOREM Invariant == Spec => []IInv
<1>1. Init => IInv
  BY InitIInv
<1>2. IInv /\ [Next]_vars => IInv'
  BY NextIInv
<1> QED BY <1>1, <1>2, PTL DEF Spec

(* All variables of the hub and its panels have their types.               *)
THEOREM TypeCorrect == Spec => []TypeOK
<1>1. IInv => TypeOK
  BY DEF IInv
<1> QED BY <1>1, Invariant, PTL

(* The firmware signs its events with the address that read_tick answers   *)
(* to.                                                                     *)
THEOREM CopiesAgree == Spec => []AddressesAgree
<1>1. IInv => AddressesAgree
  BY DEF IInv
<1> QED BY <1>1, Invariant, PTL

(* No two panels of a session answer to one address, save the broadcast    *)
(* address that join_addresses holds once next_address has saturated.      *)
THEOREM AddressesUnique == Spec => []UniqueAddress
<1>1. IInv => UniqueAddress
  <2> SUFFICES ASSUME IInv, InSession, NEW p \in Node, NEW q \in Node,
                      node_type[p] = "Ready", node_type[q] = "Ready", address[p] = address[q],
                      address[p] # Broadcast
               PROVE  p = q
    BY DEF UniqueAddress
  <2>1. /\ join_addresses[node_id[p]] = address[p]
        /\ join_addresses[node_id[q]] = address[q]
    BY DEF IInv, OffersMatch
  <2>2. node_id[p] \in Id /\ node_id[q] \in Id
    BY DEF IInv, Identifiers, TypeOK, PanelTypeOK
  <2>3. address[p] # None
    BY Addresses DEF IInv, Panels
  <2>4. node_id[p] = node_id[q]
    BY <2>1, <2>2, <2>3 DEF IInv, Tables
  <2> QED BY <2>4 DEF IInv, Identifiers
<1> QED BY <1>1, Invariant, PTL

(* A panel that no longer repeats its hello is in known_devices.           *)
THEOREM HellosArrive == Spec => []HelloArrives
<1>1. IInv => HelloArrives
  <2> SUFFICES ASSUME IInv, InOrder, NEW p \in Node, node_type[p] = "Ready", ~HelloPending(p)
               PROVE  known_devices[address[p]] = p
    BY DEF HelloArrives
  <2>1. ~HelloFirst(p)
    BY DEF HelloFirst, HelloPending, IsHello
  <2> QED BY <2>1 DEF IInv, Greetings
<1> QED BY <1>1, Invariant, PTL

(* process_control_event finds the panel that sent the event.              *)
THEOREM EventsHaveSenders == Spec => []EventsAttributed
<1>1. IInv => EventsAttributed
  <2>1. ASSUME IInv, port # <<>>
        PROVE  Received = port[1] /\ 1 \in DOMAIN port
    BY <2>1, TailElements DEF IInv, TypeOK, Received
  <2> QED BY <2>1 DEF IInv, Greetings, EventsAttributed
<1> QED BY <1>1, Invariant, PTL

(* However often a panel repeats an event and is confirmed, it does not    *)
(* make more pushes than it has presses.                                   *)
THEOREM PushesArePresses == Spec => []PushesNeedPresses
<1>1. IInv => PushesNeedPresses
  <2> SUFFICES ASSUME IInv, InOrder, NEW p \in Node
               PROVE  pushes[p] <= presses[p]
    BY DEF PushesNeedPresses
  <2>1. TypeOK /\ Due(p) <= presses[p]
    BY DEF IInv, PushCount
  <2> QED BY <2>1, DueType
<1> QED BY <1>1, Invariant, PTL

(* Only a hub that has an address ever waits for room in its own channel.  *)
THEOREM OnlyHubsStop == Spec => []NoPanelStops
<1>1. IInv => NoPanelStops
  BY DEF IInv
<1> QED BY <1>1, Invariant, PTL
=============================================================================
