----------------------------- MODULE ImcpProofs -----------------------------
(***************************************************************************)
(* Theorems about Imcp, for every set of clients and every bound.          *)
(***************************************************************************)
EXTENDS Imcp, ImcpNodeProofs

USE NodeAssumption, ImcpAssumption

-----------------------------------------------------------------------------
(* Type correctness, one lemma for the handlers that any station has, one  *)
(* for those of a client, one for those of the master.                     *)

LEMMA NodeReadType ==
    ASSUME TypeOK, NEW n \in Node,
           Ignore(n) \/ Acknowledged(n) \/ ReceiveSet(n) \/ ReceivePing(n)
    PROVE  TypeOK'
<1> USE DEF TypeOK
<1>0. NodeTypeOK /\ Reading(n) /\ TakeFrame(n)
  BY DEF Ignore, ReadIgnored, Acknowledged, ReadAck, ReceiveSet, ReadSet,
         ReceivePing, ReadPing, Reads
<1>1. Incoming(n) \in Frame /\ rx' \in [Node -> Seq(Frame)]
  BY <1>0, ReadFrame
<1>2. address[n] \in Address /\ Incoming(n).from \in Address /\ Incoming(n).to \in Address
  BY <1>0, <1>1, FrameFields DEF NodeTypeOK
<1>3. CASE Ignore(n)
  BY <1>0, <1>1, <1>3
  DEF Ignore, ReadIgnored, NodeTypeOK, masterVars, historyVars
<1>4. CASE Acknowledged(n)
  <2>1. NodeTypeOK'
    BY <1>0, <1>1, <1>4 DEF Acknowledged, ReadAck, NodeTypeOK
  <2>2. next_address' \in FirstAddress .. Broadcast
    BY <1>4 DEF Acknowledged, FirstAddress, Broadcast, masterVars
  <2>3. pending_assignment' \in Assignment \cup {None} /\ retries' \in 0 .. MaxRetries
    <3>1. CASE n = Master /\ pending_frame[n].type = "SetAddress"
      BY <1>4, <3>1 DEF Acknowledged
    <3>2. CASE ~(n = Master /\ pending_frame[n].type = "SetAddress")
      BY <1>4, <3>2 DEF Acknowledged, masterVars
    <3> QED BY <3>1, <3>2
  <2>4. pending_frame[n] \in Frame
    BY <1>0, <1>4 DEF Acknowledged, ReadAck, AckSettles, NodeTypeOK
  <2>5. pending_frame[n].type = "Set" => pending_frame[n].body[2] \in 0 .. MaxSets
    BY <2>4, FrameFields
  <2>6. acked' \in [Node -> 0 .. MaxSets]
    BY <1>4, <2>5 DEF Acknowledged
  <2> QED
    BY <1>4, <2>1, <2>2, <2>3, <2>6 DEF Acknowledged, ReadAck
<1>5. CASE ReceiveSet(n)
  <2>1. Ack(Incoming(n).from, address[n], Incoming(n).to) \in Frame
    BY <1>2, FrameConstructors
  <2>2. tx_queue' \in [Node -> Seq(Frame)] /\ halted' \in SUBSET Node
    BY <1>0, <1>5, <2>1, EnqueueType DEF ReceiveSet, ReadSet, AckIncoming
  <2>3. Incoming(n).body \in Body
    BY <1>1, <1>5, FrameFields DEF ReceiveSet, ReadSet, Reads
  <2>4. Incoming(n).body[1] \in Node /\ Incoming(n).body[2] \in 0 .. MaxSets
    BY <2>3
  <2>5. seen' \in [Node -> [Node -> 0 .. MaxSets]] /\ repeated' \in SUBSET Node
    <3> DEFINE from == Incoming(n).body[1]
               k    == Incoming(n).body[2]
    <3>1. CASE QueueFull(n)
      BY <1>5, <3>1 DEF ReceiveSet
    <3>2. CASE ~QueueFull(n)
      <4>1. /\ seen' = [seen EXCEPT ![n] = [seen[n] EXCEPT ![from] = k]]
            /\ repeated' \in {repeated, repeated \cup {from}}
        BY <1>5, <3>2 DEF ReceiveSet
      <4>2. from \in Node /\ k \in 0 .. MaxSets
        BY <2>4
      <4>3. [seen[n] EXCEPT ![from] = k] \in [Node -> 0 .. MaxSets]
        <5> HIDE DEF from, k
        <5> QED BY <4>2
      <4> HIDE DEF from, k
      <4> QED BY <4>1, <4>2, <4>3
    <3> QED BY <3>1, <3>2
  <2>6. NodeTypeOK'
    BY <1>0, <1>1, <1>5, <2>2 DEF ReceiveSet, ReadSet, NodeTypeOK
  <2> QED
    BY <1>5, <2>5, <2>6 DEF ReceiveSet, ReadSet, masterVars
<1>6. CASE ReceivePing(n)
  <2>1. Pong(Incoming(n).from, address[n]) \in Frame
    BY <1>2, FrameConstructors
  <2>2. tx_queue' \in [Node -> Seq(Frame)] /\ halted' \in SUBSET Node
    BY <1>0, <1>6, <2>1, EnqueueType DEF ReceivePing, ReadPing
  <2> QED
    BY <1>0, <1>1, <1>6, <2>2
    DEF ReceivePing, ReadPing, NodeTypeOK, masterVars, historyVars
<1> QED BY <1>3, <1>4, <1>5, <1>6

LEMMA ClientReadType ==
    ASSUME TypeOK, NEW c \in Client,
           AdoptAddress(c) \/ Refuse(c)
    PROVE  TypeOK'
<1> USE DEF TypeOK
<1>0. NodeTypeOK /\ c \in Node /\ Reading(c) /\ TakeFrame(c)
  BY DEF AdoptAddress, ClientAdoptAddress, TakeOffer, Refuse, ClientRefuse, Reads
<1>1. Incoming(c) \in Frame /\ rx' \in [Node -> Seq(Frame)]
  BY <1>0, ReadFrame
<1>2. address[c] \in Address /\ Incoming(c).from \in Address /\ Incoming(c).to \in Address
  BY <1>0, <1>1, FrameFields DEF NodeTypeOK
<1>3. CASE AdoptAddress(c)
  <2>1. Incoming(c).address \in Address
    BY <1>1, <1>3, FrameFields DEF AdoptAddress, ClientAdoptAddress, TakeOffer, Reads
  <2>2. Ack(Incoming(c).from, Incoming(c).address, Incoming(c).to) \in Frame
    BY <1>2, <2>1, FrameConstructors
  <2>3. tx_queue' \in [Node -> Seq(Frame)] /\ halted' \in SUBSET Node
    BY <1>0, <1>3, <2>2, EnqueueType
    DEF AdoptAddress, ClientAdoptAddress, TakeOffer, AckIncoming
  <2> QED
    BY <1>0, <1>1, <1>3, <2>1, <2>3
    DEF AdoptAddress, ClientAdoptAddress, TakeOffer, NodeTypeOK, masterVars, historyVars
<1>4. CASE Refuse(c)
  BY <1>0, <1>1, <1>4
  DEF Refuse, ClientRefuse, NodeTypeOK, masterVars, historyVars
<1> QED BY <1>3, <1>4

LEMMA MasterReadType ==
    ASSUME TypeOK, OfferAddress \/ MasterRefuse
    PROVE  TypeOK'
<1> USE DEF TypeOK
<1>0. NodeTypeOK /\ Master \in Node /\ Reading(Master) /\ TakeFrame(Master)
  BY DEF OfferAddress, MasterRefuse, Reads
<1>1. Incoming(Master) \in Frame /\ rx' \in [Node -> Seq(Frame)]
  BY <1>0, ReadFrame
<1>2. CASE OfferAddress
  <2>1. Incoming(Master).id \in Id
    BY <1>1, <1>2, FrameFields DEF OfferAddress, Reads
  <2>2. next_address \in Address /\ address[Master] \in Address
    BY <1>0, Addresses DEF NodeTypeOK
  <2> DEFINE offer == [id |-> Incoming(Master).id, address |-> next_address]
             frame == SetAddress(Unassigned, address[Master], next_address,
                                 Incoming(Master).id)
  <2>3. offer \in Assignment /\ frame \in Frame
    BY <2>1, <2>2, FrameConstructors, Addresses DEF Assignment
  <2>4. tx_queue' \in [Node -> Seq(Frame)] /\ halted' \in SUBSET Node
    <3>1. Enqueue(Master, frame)
      BY <1>2 DEF OfferAddress
    <3> QED BY <1>0, <2>3, <3>1, EnqueueType
  <2>5. NodeTypeOK'
    BY <1>0, <1>1, <1>2, <2>4 DEF OfferAddress, NodeTypeOK
  <2> QED
    BY <1>2, <2>3, <2>5 DEF OfferAddress
<1>3. CASE MasterRefuse
  BY <1>0, <1>1, <1>3 DEF MasterRefuse, NodeTypeOK, masterVars, historyVars
<1> QED BY <1>2, <1>3

LEMMA WriteTickType ==
    ASSUME TypeOK, NEW c \in Client, NEW heard, WriteTick(c, heard)
    PROVE  TypeOK'
<1>1. NodeTypeOK /\ c \in Node
  BY DEF TypeOK
<1>2. Resend(c, heard) \/ SendNext(c, heard)
  BY DEF WriteTick, ClientWriteTick
<1>3. /\ pending_frame' \in [Node -> Frame \cup {None}]
      /\ tx_queue' \in [Node -> Seq(Frame)]
      /\ rx' \in [Node -> Seq(Frame)]
  BY <1>1, <1>2, WriteType
<1> QED
  BY <1>3 DEF WriteTick, ClientWriteTick, TypeOK, NodeTypeOK, masterVars, historyVars

LEMMA MasterWriteType ==
    ASSUME TypeOK, NEW heard, MasterWriteTick(heard)
    PROVE  TypeOK'
<1>1. NodeTypeOK /\ Master \in Node
  BY DEF TypeOK
<1>2. CASE MasterSend(heard)
  <2>1. /\ pending_frame' \in [Node -> Frame \cup {None}]
        /\ tx_queue' \in [Node -> Seq(Frame)]
        /\ rx' \in [Node -> Seq(Frame)]
    BY <1>1, <1>2, WriteType DEF MasterSend
  <2>2. retries' \in 0 .. MaxRetries
    <3> DEFINE f == IF pending_frame[Master] # None THEN pending_frame[Master]
                    ELSE Head(tx_queue[Master])
    <3>1. f \in Frame
      BY <1>1, <1>2, QueueParts DEF MasterSend, SendNext, Resend, NodeTypeOK
    <3>2. pending_frame'[Master] = IF f.type \in Retained THEN f ELSE None
      BY <1>1, <1>2 DEF MasterSend, SendNext, Resend, Send, NodeTypeOK
    <3>3. f.type # "SetAddress" \/ ~(retries >= MaxRetries)
      BY <1>2 DEF MasterSend, GivesUp
    <3> HIDE DEF f
    <3>4. retries \in 0 .. MaxRetries
      BY DEF TypeOK
    <3>5. CASE f.type = "SetAddress"
      BY <1>2, <3>3, <3>4, <3>5 DEF MasterSend
    <3>6. CASE f.type # "SetAddress"
      BY <1>2, <3>2, <3>4, <3>6, NoneAssumption DEF MasterSend
    <3> QED BY <3>5, <3>6
  <2> QED
    BY <1>2, <2>1, <2>2 DEF MasterSend, MasterWriteTick, TypeOK, NodeTypeOK
<1>3. CASE MasterGiveUp(heard)
  <2> DEFINE rest == IF pending_frame[Master] # None THEN tx_queue[Master]
                     ELSE Tail(tx_queue[Master])
  <2>1. rest \in Seq(Frame)
    BY <1>1, <1>3, QueueParts DEF MasterGiveUp, NodeTypeOK
  <2>2. /\ pending_frame' \in [Node -> Frame \cup {None}]
        /\ tx_queue' \in [Node -> Seq(Frame)]
        /\ rx' \in [Node -> Seq(Frame)]
    <3>1. CASE rest = <<>>
      <4>1. /\ pending_frame' = [pending_frame EXCEPT ![Master] = None]
            /\ tx_queue' = [tx_queue EXCEPT ![Master] = <<>>]
            /\ rx' = rx
        BY <1>3, <3>1 DEF MasterGiveUp
      <4> QED BY <1>1, <4>1 DEF NodeTypeOK
    <3>2. CASE rest # <<>>
      <4>1. Send(Master, Head(rest), Tail(rest), heard)
        BY <1>3, <3>2 DEF MasterGiveUp
      <4>2. Head(rest) \in Frame /\ Tail(rest) \in Seq(Frame)
        BY <2>1, <3>2
      <4> HIDE DEF rest
      <4> QED BY <1>1, <4>1, <4>2, SendType
    <3> QED BY <3>1, <3>2
  <2>3. retries' \in 0 .. MaxRetries
    <3>1. retries' \in {0, 1}
      BY <1>3 DEF MasterGiveUp
    <3> QED BY <3>1
  <2>4. forgotten' \in SUBSET Address /\ pending_assignment' = None
    BY <1>3 DEF MasterGiveUp, TypeOK, Assignment
  <2> QED
    BY <1>3, <2>2, <2>3, <2>4 DEF MasterGiveUp, MasterWriteTick, TypeOK, NodeTypeOK
<1> QED BY <1>2, <1>3 DEF MasterWriteTick

LEMMA ApplicationType ==
    ASSUME TypeOK, Application
    PROVE  TypeOK'
<1> USE DEF TypeOK
<1>1. ASSUME NEW c \in Client, Connect(c) PROVE TypeOK'
  <2>1. NodeTypeOK /\ c \in Node /\ <<c, restarts[c]>> \in Id
    OBVIOUS
  <2>2. Join(MasterAddress, address[c], <<c, restarts[c]>>) \in Frame
    BY <2>1, FrameConstructors, Addresses DEF NodeTypeOK
  <2>3. tx_queue' \in [Node -> Seq(Frame)] /\ halted' \in SUBSET Node
    BY <1>1, <2>1, <2>2, EnqueueType DEF Connect, SendJoin
  <2>4. NodeTypeOK'
    BY <1>1, <2>1, <2>3 DEF Connect, SendJoin, NodeTypeOK
  <2> QED
    BY <1>1, <2>1, <2>4 DEF Connect, SendJoin, masterVars, historyVars
<1>2. ASSUME NEW n \in Node, NEW f \in Frame, Submit(n, f) PROVE TypeOK'
  <2>1. Append(tx_queue[n], f) \in Seq(Frame)
    BY <1>2 DEF NodeTypeOK
  <2>2. tx_queue' \in [Node -> Seq(Frame)]
    BY <1>2, <2>1 DEF Submit, TrySend, NodeTypeOK
  <2>3. NodeTypeOK'
    BY <1>2, <2>2 DEF Submit, NodeTypeOK
  <2>4. sent' \in [Node -> 0 .. MaxSets]
    BY <1>2 DEF Submit
  <2> QED
    BY <1>2, <2>3, <2>4 DEF Submit, masterVars, historyVars
<1>3. ASSUME NEW n \in Node, NEW to \in Peer(n), SubmitSet(n, to) \/ SubmitPing(n, to)
      PROVE  TypeOK'
  <2>1. to \in Address /\ address[n] \in Address
    BY Addresses DEF Peer, NodeTypeOK
  <2>2. CASE SubmitSet(n, to)
    <3>1. sent[n] + 1 \in 1 .. MaxSets
      BY <2>2 DEF SubmitSet, Submit
    <3>2. Set(to, address[n], <<n, sent[n] + 1>>) \in Frame
      BY <2>1, <3>1, FrameConstructors
    <3> QED BY <1>2, <2>2, <3>2 DEF SubmitSet
  <2>3. CASE SubmitPing(n, to)
    BY <1>2, <2>1, <2>3, FrameConstructors DEF SubmitPing
  <2> QED BY <1>3, <2>2, <2>3
<1> QED BY <1>1, <1>3 DEF Application

LEMMA PowerCycleType ==
    ASSUME TypeOK, PowerCycle
    PROVE  TypeOK'
<1> USE DEF TypeOK
<1>1. ASSUME NEW c \in Client, Restart(c) PROVE TypeOK'
  <2>1. NodeTypeOK'
    BY <1>1, Addresses DEF Restart, ClientRestart, NodeTypeOK
  <2>2. restarts' \in [Node -> 0 .. MaxRestarts]
    <3>1. restarts[c] + 1 \in 0 .. MaxRestarts
      BY <1>1 DEF Restart
    <3> QED BY <1>1, <3>1 DEF Restart
  <2>3. \A n \in Node : node_type'[n] = "Master" <=> n = Master
    BY <1>1 DEF Restart, ClientRestart, NodeTypeOK
  <2> QED
    BY <1>1, <2>1, <2>2, <2>3 DEF Restart, masterVars, historyVars
<1>2. CASE RestartMaster
  <2>1. NodeTypeOK'
    BY <1>2 DEF RestartMaster, NodeTypeOK
  <2>2. restarts' \in [Node -> 0 .. MaxRestarts]
    <3>1. restarts[Master] + 1 \in 0 .. MaxRestarts
      BY <1>2 DEF RestartMaster
    <3> QED BY <1>2, <3>1 DEF RestartMaster
  <2>3. forgotten' \in SUBSET Address
    <3>1. \A g \in grants : g.address \in Address
      BY DEF Assignment
    <3> QED BY <1>2, <3>1 DEF RestartMaster
  <2>4. next_address' \in FirstAddress .. Broadcast
    BY <1>2 DEF RestartMaster, FirstAddress, Broadcast
  <2> QED
    BY <1>2, <2>1, <2>2, <2>3, <2>4 DEF RestartMaster
<1> QED BY <1>1, <1>2 DEF PowerCycle

LEMMA InitType == Init => TypeOK
BY Addresses
DEF Init, TypeOK, NodeTypeOK, FirstAddress, Broadcast, Assignment

LEMMA NextType ==
    ASSUME TypeOK, [Next]_vars
    PROVE  TypeOK'
<1>1. CASE Write
  BY <1>1, WriteTickType, MasterWriteType DEF Write
<1>2. CASE Read
  BY <1>2, NodeReadType, ClientReadType, MasterReadType DEF Read
<1>3. CASE Application
  BY <1>3, ApplicationType
<1>4. CASE PowerCycle
  BY <1>4, PowerCycleType
<1>5. CASE UNCHANGED vars
  BY <1>5 DEF vars, nodeVars, masterVars, historyVars, TypeOK, NodeTypeOK
<1> QED BY <1>1, <1>2, <1>3, <1>4, <1>5 DEF Next

(* Every reachable state is of the expected type: counters stay in their   *)
(* ranges, channels and buffers hold frames, the master is one node.       *)
THEOREM TypeCorrect == Spec => []TypeOK
BY InitType, NextType, PTL DEF Spec

-----------------------------------------------------------------------------
(* How frames move.  A node that reads replies, or does not.               *)

IsReply(n, f) ==
    \/ f.type = "Pong"
    \/ /\ f.type = "Ack" /\ f.to = Incoming(n).from
       /\ Incoming(n).type \in {"Set", "SetAddress"}
    \/ f.type = "SetAddress" /\ n = Master /\ f.from = address[n]

ReadsOne(n) ==
    /\ Reading(n) /\ TakeFrame(n)
    /\ \A m \in Node \ {n} : pending_frame'[m] = pending_frame[m] /\ tx_queue'[m] = tx_queue[m]
    /\ pending_frame'[n] \in {pending_frame[n], None}
    /\ \/ tx_queue'[n] = tx_queue[n]
       \/ \E f \in Frame : IsReply(n, f) /\ tx_queue'[n] = Append(tx_queue[n], f)
    /\ UNCHANGED <<sent, restarts>>
    /\ \/ UNCHANGED seen
       \/ /\ Incoming(n).type = "Set"
          /\ seen' = [seen EXCEPT ![n][Incoming(n).body[1]] = Incoming(n).body[2]]

(* A reply that is put into the channel, or finds no room.                 *)
LEMMA ReplyEffect ==
    ASSUME NodeTypeOK, NEW n \in Node, NEW f \in Frame, Enqueue(n, f), IsReply(n, f)
    PROVE  /\ \A m \in Node \ {n} : tx_queue'[m] = tx_queue[m]
           /\ \/ tx_queue'[n] = tx_queue[n]
              \/ \E g \in Frame : IsReply(n, g) /\ tx_queue'[n] = Append(tx_queue[n], g)
BY EnqueueEffect

LEMMA ReadEffect ==
    ASSUME TypeOK, Read
    PROVE  \E n \in Node : ReadsOne(n)
<1>0. NodeTypeOK
  BY DEF TypeOK
<1>1. ASSUME NEW n \in Node, Reading(n), TakeFrame(n),
             UNCHANGED <<pending_frame, tx_queue, sent, restarts, seen>>
      PROVE  ReadsOne(n)
  BY <1>1 DEF ReadsOne
<1>2. ASSUME NEW n \in Node, Ignore(n) PROVE ReadsOne(n)
  BY <1>1, <1>2 DEF Ignore, ReadIgnored, historyVars
<1>3. ASSUME NEW n \in Node, Acknowledged(n) PROVE ReadsOne(n)
  BY <1>0, <1>3 DEF Acknowledged, ReadAck, Reads, ReadsOne, NodeTypeOK
<1>4. ASSUME NEW n \in Node, ReceiveSet(n) PROVE ReadsOne(n)
  <2>1. /\ Reading(n) /\ TakeFrame(n) /\ Incoming(n).type = "Set"
        /\ Enqueue(n, Ack(Incoming(n).from, address[n], Incoming(n).to))
        /\ UNCHANGED <<pending_frame, sent, restarts>>
    BY <1>4 DEF ReceiveSet, ReadSet, Reads, AckIncoming
  <2>2. Ack(Incoming(n).from, address[n], Incoming(n).to) \in Frame
    BY <1>0, <2>1, ReadFrame, FrameFields, FrameConstructors DEF NodeTypeOK
  <2>3. IsReply(n, Ack(Incoming(n).from, address[n], Incoming(n).to))
    BY <2>1 DEF IsReply, Ack
  <2>4. \/ UNCHANGED seen
        \/ seen' = [seen EXCEPT ![n][Incoming(n).body[1]] = Incoming(n).body[2]]
    BY <1>4 DEF ReceiveSet
  <2> QED BY <1>0, <2>1, <2>2, <2>3, <2>4, ReplyEffect DEF ReadsOne
<1>5. ASSUME NEW n \in Node, ReceivePing(n) PROVE ReadsOne(n)
  <2>1. /\ Reading(n) /\ TakeFrame(n)
        /\ Enqueue(n, Pong(Incoming(n).from, address[n]))
        /\ UNCHANGED <<pending_frame, sent, restarts, seen>>
    BY <1>5 DEF ReceivePing, ReadPing, Reads, historyVars
  <2>2. Pong(Incoming(n).from, address[n]) \in Frame
    BY <1>0, <2>1, ReadFrame, FrameFields, FrameConstructors DEF NodeTypeOK
  <2>3. IsReply(n, Pong(Incoming(n).from, address[n]))
    BY DEF IsReply, Pong
  <2> QED BY <1>0, <2>1, <2>2, <2>3, ReplyEffect DEF ReadsOne
<1>6. ASSUME NEW c \in Client, AdoptAddress(c) PROVE ReadsOne(c)
  <2>1. /\ Reading(c) /\ TakeFrame(c) /\ Incoming(c).type = "SetAddress"
        /\ Enqueue(c, Ack(Incoming(c).from, Incoming(c).address, Incoming(c).to))
        /\ pending_frame' = [pending_frame EXCEPT ![c] = None]
        /\ UNCHANGED <<sent, restarts, seen>>
    BY <1>6 DEF AdoptAddress, ClientAdoptAddress, TakeOffer, Reads, AckIncoming, historyVars
  <2>2. c \in Node /\ Incoming(c) \in Frame
    BY <1>0, <2>1, ReadFrame
  <2>3. Ack(Incoming(c).from, Incoming(c).address, Incoming(c).to) \in Frame
    BY <2>1, <2>2, FrameFields, FrameConstructors
  <2>4. IsReply(c, Ack(Incoming(c).from, Incoming(c).address, Incoming(c).to))
    BY <2>1 DEF IsReply, Ack
  <2>5. pending_frame'[c] = None /\ \A m \in Node \ {c} : pending_frame'[m] = pending_frame[m]
    BY <1>0, <2>1, <2>2 DEF NodeTypeOK
  <2> QED BY <1>0, <2>1, <2>2, <2>3, <2>4, <2>5, ReplyEffect DEF ReadsOne
<1>7. ASSUME NEW c \in Client, Refuse(c) PROVE ReadsOne(c)
  BY <1>1, <1>7 DEF Refuse, ClientRefuse, historyVars
<1>8. CASE OfferAddress
  <2> DEFINE f == SetAddress(Unassigned, address[Master], next_address, Incoming(Master).id)
  <2>1. /\ Reading(Master) /\ TakeFrame(Master) /\ Incoming(Master).type = "Join"
        /\ Enqueue(Master, f) /\ UNCHANGED <<pending_frame, sent, restarts, seen>>
    BY <1>8 DEF OfferAddress, Reads
  <2>2. Master \in Node /\ Incoming(Master) \in Frame
    BY <1>0, <2>1, ReadFrame
  <2>3. f \in Frame
    BY <1>0, <2>1, <2>2, FrameFields, FrameConstructors, Addresses DEF TypeOK, NodeTypeOK
  <2>4. IsReply(Master, f)
    BY DEF IsReply, SetAddress
  <2> HIDE DEF f
  <2>5. ReadsOne(Master)
    BY <1>0, <2>1, <2>2, <2>3, <2>4, ReplyEffect DEF ReadsOne
  <2> QED BY <2>2, <2>5
<1>9. CASE MasterRefuse
  BY <1>1, <1>9 DEF MasterRefuse, historyVars
<1> QED BY <1>2, <1>3, <1>4, <1>5, <1>6, <1>7, <1>8, <1>9 DEF Read

(* A node that writes sends its pending frame again, or the next one of    *)
(* its channel; the master may have dropped the one before that.           *)
WritesOne(n) ==
    /\ UNCHANGED <<sent, seen, restarts>>
    /\ \E x \in {pending_frame[n], None}, q \in Seq(Frame) :
          /\ q = tx_queue[n] \/ (tx_queue[n] # <<>> /\ q = Tail(tx_queue[n]))
          /\ \/ \E f \in Frame, rest \in Seq(Frame) :
                   /\ \/ x = f /\ rest = q
                      \/ x = None /\ q # <<>> /\ f = Head(q) /\ rest = Tail(q)
                   /\ Sent(n, f, rest)
             \/ /\ pending_frame'[n] = None /\ tx_queue'[n] = <<>>
                /\ \A m \in Node \ {n} : pending_frame'[m] = pending_frame[m]
                                         /\ tx_queue'[m] = tx_queue[m]
                /\ UNCHANGED rx

LEMMA SendsOne ==
    ASSUME NodeTypeOK, NEW n \in Node, NEW heard, Resend(n, heard) \/ SendNext(n, heard),
           UNCHANGED <<sent, seen, restarts>>
    PROVE  WritesOne(n)
<1>1. CASE Resend(n, heard)
  <2>1. pending_frame[n] \in Frame /\ tx_queue[n] \in Seq(Frame)
    BY <1>1 DEF Resend, NodeTypeOK
  <2>2. Sent(n, pending_frame[n], tx_queue[n])
    BY <1>1, <2>1, SendEffect DEF Resend
  <2> QED BY <2>1, <2>2 DEF WritesOne
<1>2. CASE SendNext(n, heard)
  <2>1. /\ tx_queue[n] \in Seq(Frame) /\ tx_queue[n] # <<>> /\ pending_frame[n] = None
        /\ Head(tx_queue[n]) \in Frame /\ Tail(tx_queue[n]) \in Seq(Frame)
    BY <1>2, QueueParts DEF SendNext, NodeTypeOK
  <2>2. Sent(n, Head(tx_queue[n]), Tail(tx_queue[n]))
    BY <1>2, <2>1, SendEffect DEF SendNext
  <2> QED BY <2>1, <2>2 DEF WritesOne
<1> QED BY <1>1, <1>2

LEMMA GivesUpOne ==
    ASSUME TypeOK, NEW heard, MasterGiveUp(heard), UNCHANGED <<sent, seen, restarts>>
    PROVE  WritesOne(Master)
<1>0. NodeTypeOK /\ Master \in Node
  BY DEF TypeOK
<1> DEFINE q == IF pending_frame[Master] # None THEN tx_queue[Master]
                ELSE Tail(tx_queue[Master])
<1>1. /\ q \in Seq(Frame)
      /\ q = tx_queue[Master] \/ (tx_queue[Master] # <<>> /\ q = Tail(tx_queue[Master]))
  BY <1>0, QueueParts DEF MasterGiveUp, NodeTypeOK
<1>2. CASE q = <<>>
  <2>1. /\ pending_frame' = [pending_frame EXCEPT ![Master] = None]
        /\ tx_queue' = [tx_queue EXCEPT ![Master] = <<>>]
        /\ UNCHANGED rx
    BY <1>2 DEF MasterGiveUp
  <2>2. /\ pending_frame'[Master] = None /\ tx_queue'[Master] = <<>>
        /\ \A m \in Node \ {Master} : pending_frame'[m] = pending_frame[m]
                                      /\ tx_queue'[m] = tx_queue[m]
    BY <1>0, <2>1 DEF NodeTypeOK
  <2> HIDE DEF q
  <2> QED BY <1>1, <2>1, <2>2 DEF WritesOne
<1>3. CASE q # <<>>
  <2>1. Send(Master, Head(q), Tail(q), heard)
    BY <1>3 DEF MasterGiveUp
  <2> HIDE DEF q
  <2>2. Head(q) \in Frame /\ Tail(q) \in Seq(Frame)
    BY <1>1, <1>3
  <2>3. Sent(Master, Head(q), Tail(q))
    BY <1>0, <2>1, <2>2, SendEffect
  <2> QED BY <1>1, <1>3, <2>2, <2>3 DEF WritesOne
<1> QED BY <1>2, <1>3

LEMMA WriteEffect ==
    ASSUME TypeOK, Write
    PROVE  \E n \in Node : WritesOne(n)
<1>0. NodeTypeOK /\ Master \in Node
  BY DEF TypeOK
<1>1. ASSUME NEW heard, MasterWriteTick(heard) PROVE WritesOne(Master)
  BY <1>0, <1>1, SendsOne, GivesUpOne DEF MasterWriteTick, MasterSend
<1>2. ASSUME NEW c \in Client, NEW heard, WriteTick(c, heard) PROVE WritesOne(c)
  BY <1>0, <1>2, SendsOne DEF WriteTick, ClientWriteTick, historyVars
<1> QED BY <1>0, <1>1, <1>2 DEF Write

(* An application puts one frame into the channel, or finds no room.       *)
IsSubmitted(n, f) ==
    \/ f.type = "Join"
    \/ f.type = "Ping" /\ node_type[n] \in {"Master", "Ready"} /\ f.from = address[n]
    \/ /\ f.type = "Set" /\ node_type[n] \in {"Master", "Ready"} /\ f.from = address[n]
       /\ f.body = <<n, sent[n] + 1>> /\ sent' = [sent EXCEPT ![n] = @ + 1]
       /\ f.to \in Peer(n)

SubmitsOne(n) ==
    /\ UNCHANGED <<pending_frame, rx, seen, restarts>>
    /\ sent' \in {sent, [sent EXCEPT ![n] = @ + 1]}
    /\ \A m \in Node \ {n} : tx_queue'[m] = tx_queue[m]
    /\ \/ tx_queue'[n] = tx_queue[n]
       \/ \E f \in Frame : IsSubmitted(n, f) /\ tx_queue'[n] = Append(tx_queue[n], f)

LEMMA ApplicationEffect ==
    ASSUME TypeOK, Application
    PROVE  \E n \in Node : SubmitsOne(n)
<1>0. NodeTypeOK
  BY DEF TypeOK
<1>1. ASSUME NEW c \in Client, Connect(c) PROVE SubmitsOne(c)
  <2> DEFINE f == Join(MasterAddress, address[c], <<c, restarts[c]>>)
  <2>1. Enqueue(c, f) /\ UNCHANGED <<pending_frame, rx, seen, sent, restarts>>
    BY <1>1 DEF Connect, SendJoin, historyVars
  <2>2. f \in Frame /\ IsSubmitted(c, f)
    <3>1. <<c, restarts[c]>> \in Id /\ address[c] \in Address
      BY DEF TypeOK, NodeTypeOK
    <3> QED BY <3>1, Addresses, FrameConstructors DEF IsSubmitted, Join
  <2> HIDE DEF f
  <2> QED BY <1>0, <2>1, <2>2, EnqueueEffect DEF SubmitsOne
<1>2. ASSUME NEW n \in Node, NEW f \in Frame, Submit(n, f), IsSubmitted(n, f)
      PROVE  SubmitsOne(n)
  BY <1>0, <1>2 DEF Submit, TrySend, SubmitsOne, NodeTypeOK, historyVars
<1>3. ASSUME NEW n \in Node, NEW to \in Peer(n), SubmitSet(n, to) \/ SubmitPing(n, to)
      PROVE  SubmitsOne(n)
  <2>1. to \in Address /\ address[n] \in Address /\ sent[n] \in 0 .. MaxSets
    BY Addresses DEF Peer, TypeOK, NodeTypeOK
  <2>2. CASE SubmitSet(n, to)
    <3> DEFINE f == Set(to, address[n], <<n, sent[n] + 1>>)
    <3>1. Submit(n, f)
      BY <2>2 DEF SubmitSet
    <3>2. sent[n] < MaxSets /\ node_type[n] \in {"Master", "Ready"}
          /\ sent' = [sent EXCEPT ![n] = @ + 1]
      BY <3>1 DEF Submit
    <3>3. <<n, sent[n] + 1>> \in Body
      BY <2>1, <3>2
    <3>4. f \in Frame /\ IsSubmitted(n, f)
      BY <2>1, <3>2, <3>3, FrameConstructors DEF IsSubmitted, Set
    <3> HIDE DEF f
    <3> QED BY <1>2, <3>1, <3>4
  <2>3. CASE SubmitPing(n, to)
    <3>1. Submit(n, Ping(to, address[n])) /\ Ping(to, address[n]) \in Frame
      BY <2>1, <2>3, FrameConstructors DEF SubmitPing
    <3>2. IsSubmitted(n, Ping(to, address[n]))
      BY <3>1 DEF Submit, IsSubmitted, Ping
    <3> QED BY <1>2, <3>1, <3>2
  <2> QED BY <1>3, <2>2, <2>3
<1> QED BY <1>0, <1>1, <1>3 DEF Application

(* A power cycle empties what a node has.                                  *)
RestartsOne(n) ==
    /\ UNCHANGED <<sent, seen>>
    /\ \A m \in Node \ {n} : /\ pending_frame'[m] = pending_frame[m]
                             /\ tx_queue'[m] = tx_queue[m] /\ rx'[m] = rx[m]
    /\ pending_frame'[n] = None /\ tx_queue'[n] = <<>> /\ rx'[n] = <<>>

LEMMA PowerCycleEffect ==
    ASSUME TypeOK, PowerCycle
    PROVE  \E n \in Node : RestartsOne(n)
<1>1. ASSUME NEW c \in Client, Restart(c) PROVE RestartsOne(c)
  BY <1>1 DEF Restart, ClientRestart, RestartsOne, TypeOK, NodeTypeOK, historyVars
<1>2. RestartMaster => RestartsOne(Master)
  BY DEF RestartMaster, RestartsOne, TypeOK, NodeTypeOK
<1> QED BY <1>1, <1>2 DEF PowerCycle

(* Every frame in a channel is new or was there, every frame in a buffer   *)
(* was there or was one that a node had for the bus.                       *)
LEMMA FramesFlow ==
    ASSUME TypeOK, Next, NEW n \in Node
    PROVE  /\ \A f \in Queued(n)' : \/ f \in Queued(n)
                                    \/ Reading(n) /\ IsReply(n, f)
                                    \/ IsSubmitted(n, f)
           /\ \A i \in DOMAIN rx'[n] : \/ \E j \in DOMAIN rx[n] : rx'[n][i] = rx[n][j]
                                       \/ \E m \in Node : rx'[n][i] \in Queued(m)
<1>0. NodeTypeOK /\ rx[n] \in Seq(Frame) /\ tx_queue[n] \in Seq(Frame)
  BY DEF TypeOK, NodeTypeOK
<1>1. ASSUME NEW r \in Node, ReadsOne(r)
      PROVE  /\ \A f \in Queued(n)' : f \in Queued(n) \/ (Reading(n) /\ IsReply(n, f))
             /\ \A i \in DOMAIN rx'[n] : \E j \in DOMAIN rx[n] : rx'[n][i] = rx[n][j]
  <2>1. \A i \in DOMAIN rx'[n] : \E j \in DOMAIN rx[n] : rx'[n][i] = rx[n][j]
    <3>1. /\ \A q \in Node \ {r} : rx'[q] = rx[q]
          /\ \A i \in DOMAIN rx'[r] : i + 1 \in DOMAIN rx[r] /\ rx'[r][i] = rx[r][i + 1]
      BY <1>0, <1>1, ReadShift DEF ReadsOne
    <3>2. CASE n = r
      BY <3>1, <3>2
    <3>3. CASE n # r
      BY <3>1, <3>3
    <3> QED BY <3>2, <3>3
  <2>2. pending_frame'[n] \in {pending_frame[n], None}
    BY <1>1 DEF ReadsOne
  <2>3. \A i \in DOMAIN tx_queue'[n] : \/ \E j \in DOMAIN tx_queue[n] : tx_queue'[n][i] = tx_queue[n][j]
                                       \/ Reading(n) /\ IsReply(n, tx_queue'[n][i])
    <3>1. CASE tx_queue'[n] = tx_queue[n]
      BY <3>1
    <3>2. ASSUME n = r, NEW f \in Frame, IsReply(r, f), tx_queue'[n] = Append(tx_queue[n], f)
          PROVE  \A i \in DOMAIN tx_queue'[n] :
                    \/ \E j \in DOMAIN tx_queue[n] : tx_queue'[n][i] = tx_queue[n][j]
                    \/ Reading(n) /\ IsReply(n, tx_queue'[n][i])
      <4>1. \A i \in DOMAIN tx_queue'[n] :
               \/ i \in DOMAIN tx_queue[n] /\ tx_queue'[n][i] = tx_queue[n][i]
               \/ tx_queue'[n][i] = f
        BY <1>0, <3>2, AppendElements
      <4> QED BY <1>1, <3>2, <4>1 DEF ReadsOne
    <3> QED BY <1>1, <3>1, <3>2 DEF ReadsOne
  <2> QED BY <2>1, <2>2, <2>3 DEF Queued
<1>2. ASSUME NEW w \in Node, WritesOne(w)
      PROVE  /\ Queued(n)' \subseteq Queued(n)
             /\ \A i \in DOMAIN rx'[n] : \/ \E j \in DOMAIN rx[n] : rx'[n][i] = rx[n][j]
                                         \/ rx'[n][i] \in Queued(w)
  <2>1. tx_queue[w] \in Seq(Frame) /\ DOMAIN <<>> = {}
    BY DEF TypeOK, NodeTypeOK
  <2>2. PICK x \in {pending_frame[w], None}, q \in Seq(Frame) :
            /\ q = tx_queue[w] \/ (tx_queue[w] # <<>> /\ q = Tail(tx_queue[w]))
            /\ \/ \E f \in Frame, rest \in Seq(Frame) :
                     /\ \/ x = f /\ rest = q
                        \/ x = None /\ q # <<>> /\ f = Head(q) /\ rest = Tail(q)
                     /\ Sent(w, f, rest)
               \/ /\ pending_frame'[w] = None /\ tx_queue'[w] = <<>>
                  /\ \A l \in Node \ {w} : pending_frame'[l] = pending_frame[l]
                                           /\ tx_queue'[l] = tx_queue[l]
                  /\ UNCHANGED rx
    BY <1>2 DEF WritesOne
  <2>3. \A i \in DOMAIN q : \E j \in DOMAIN tx_queue[w] : q[i] = tx_queue[w][j]
    <3>1. CASE q = tx_queue[w]
      BY <3>1
    <3>2. CASE tx_queue[w] # <<>> /\ q = Tail(tx_queue[w])
      <4>1. \A i \in DOMAIN q : i + 1 \in DOMAIN tx_queue[w] /\ q[i] = tx_queue[w][i + 1]
        BY <2>1, <3>2, TailElements
      <4> QED BY <4>1
    <3> QED BY <2>2, <3>1, <3>2
  <2>4. CASE /\ pending_frame'[w] = None /\ tx_queue'[w] = <<>>
             /\ \A l \in Node \ {w} : pending_frame'[l] = pending_frame[l]
                                      /\ tx_queue'[l] = tx_queue[l]
             /\ UNCHANGED rx
    <3>1. CASE n = w
      BY <2>1, <2>4, <3>1 DEF Queued
    <3>2. CASE n # w
      BY <2>4, <3>2 DEF Queued
    <3> QED BY <3>1, <3>2
  <2>5. ASSUME NEW f \in Frame, NEW rest \in Seq(Frame),
               \/ x = f /\ rest = q
               \/ x = None /\ q # <<>> /\ f = Head(q) /\ rest = Tail(q),
               Sent(w, f, rest)
        PROVE  /\ Queued(n)' \subseteq Queued(n)
               /\ \A i \in DOMAIN rx'[n] : \/ \E j \in DOMAIN rx[n] : rx'[n][i] = rx[n][j]
                                           \/ rx'[n][i] \in Queued(w)
    <3>1. /\ f = x \/ \E j \in DOMAIN tx_queue[w] : f = tx_queue[w][j]
          /\ \A i \in DOMAIN rest : \E j \in DOMAIN tx_queue[w] : rest[i] = tx_queue[w][j]
      <4>1. CASE x = f /\ rest = q
        BY <2>3, <4>1
      <4>2. CASE x = None /\ q # <<>> /\ f = Head(q) /\ rest = Tail(q)
        <5>1. /\ Head(q) = q[1] /\ 1 \in DOMAIN q
              /\ \A i \in DOMAIN Tail(q) : i + 1 \in DOMAIN q /\ Tail(q)[i] = q[i + 1]
          BY <4>2, TailElements
        <5> QED BY <2>3, <4>2, <5>1
      <4> QED BY <2>5, <4>1, <4>2
    <3>2. f \in Queued(w)
      BY <3>1, NoneAssumption DEF Queued
    <3>3. rx'[n] = rx[n] \/ rx'[n] = Append(rx[n], f)
      BY <2>5 DEF Sent
    <3>4. \A i \in DOMAIN rx'[n] : \/ \E j \in DOMAIN rx[n] : rx'[n][i] = rx[n][j]
                                   \/ rx'[n][i] = f
      <4>1. CASE rx'[n] = rx[n]
        BY <4>1
      <4>2. CASE rx'[n] = Append(rx[n], f)
        BY <1>0, <4>2, AppendElements
      <4> QED BY <3>3, <4>1, <4>2
    <3>5. CASE n = w
      <4>1. pending_frame'[n] \in {f, None} /\ tx_queue'[n] = rest
        BY <2>5, <3>5 DEF Sent
      <4>2. Queued(n)' \subseteq Queued(n)
        BY <3>1, <3>2, <3>5, <4>1 DEF Queued
      <4> QED BY <3>2, <3>4, <4>2
    <3>6. CASE n # w
      <4>1. pending_frame'[n] = pending_frame[n] /\ tx_queue'[n] = tx_queue[n]
        BY <2>5, <3>6 DEF Sent
      <4> QED BY <3>2, <3>4, <4>1 DEF Queued
    <3> QED BY <3>5, <3>6
  <2> QED BY <2>2, <2>4, <2>5
<1>3. ASSUME NEW s \in Node, SubmitsOne(s)
      PROVE  /\ \A f \in Queued(n)' : f \in Queued(n) \/ IsSubmitted(n, f)
             /\ rx' = rx
  <2>1. rx' = rx /\ pending_frame' = pending_frame
    BY <1>3 DEF SubmitsOne
  <2>2. CASE tx_queue'[n] = tx_queue[n]
    BY <2>1, <2>2 DEF Queued
  <2>3. ASSUME n = s, NEW f \in Frame, IsSubmitted(s, f), tx_queue'[n] = Append(tx_queue[n], f)
        PROVE  \A g \in Queued(n)' : g \in Queued(n) \/ IsSubmitted(n, g)
    <3>1. Queued(n)' \subseteq Queued(n) \cup {f}
      BY <1>0, <2>1, <2>3, AppendQueued
    <3> QED BY <2>3, <3>1
  <2> QED BY <1>3, <2>1, <2>2, <2>3 DEF SubmitsOne
<1>4. ASSUME NEW r \in Node, RestartsOne(r)
      PROVE  /\ Queued(n)' \subseteq Queued(n)
             /\ rx'[n] \in {rx[n], <<>>}
  <2>1. DOMAIN <<>> = {}
    OBVIOUS
  <2> QED BY <1>4, <2>1 DEF RestartsOne, Queued
<1>5. CASE Read
  BY <1>1, <1>5, ReadEffect
<1>6. CASE Write
  BY <1>2, <1>6, WriteEffect
<1>7. CASE Application
  BY <1>3, <1>7, ApplicationEffect
<1>8. CASE PowerCycle
  <2>1. PICK r \in Node : RestartsOne(r)
    BY <1>8, PowerCycleEffect
  <2>2. Queued(n)' \subseteq Queued(n) /\ rx'[n] \in {rx[n], <<>>}
    BY <1>4, <2>1
  <2>3. DOMAIN <<>> = {}
    OBVIOUS
  <2> QED BY <2>2, <2>3
<1> QED BY <1>5, <1>6, <1>7, <1>8 DEF Next

-----------------------------------------------------------------------------
(* The order of Sets.  Those of n are numbered as they are submitted; on   *)
(* their way to m they are read, in rx[m], pending or queued, in order.    *)

IsSetOf(f, n) == f.type = "Set" /\ f.body[1] = n

NotBefore(f, g, n) == IsSetOf(f, n) /\ IsSetOf(g, n) => f.body[2] <= g.body[2]

InLine(n, P, x, Q) ==
    /\ \A i, j \in DOMAIN P : i < j => NotBefore(P[i], P[j], n)
    /\ \A i, j \in DOMAIN Q : i < j => NotBefore(Q[i], Q[j], n)
    /\ \A i \in DOMAIN P, j \in DOMAIN Q : NotBefore(P[i], Q[j], n)
    /\ x # None => /\ \A i \in DOMAIN P : NotBefore(P[i], x, n)
                   /\ \A j \in DOMAIN Q : NotBefore(x, Q[j], n)

Between(n, low, f, high) == IsSetOf(f, n) => low <= f.body[2] /\ f.body[2] <= high

OwnSets(n) == \A f \in Queued(n) : f.type = "Set" => f.body[1] = n

SetsAt(m, n) ==
    /\ seen[m][n] <= sent[n]
    /\ InLine(n, rx[m], pending_frame[n], tx_queue[n])
    /\ \A i \in DOMAIN rx[m] : Between(n, seen[m][n], rx[m][i], sent[n])
    /\ \A f \in Queued(n) : Between(n, seen[m][n], f, sent[n])

SetOrder ==
    /\ \A n \in Node : OwnSets(n)
    /\ \A m, n \in Node : SetsAt(m, n)

LEMMA SetFields ==
    ASSUME NEW f \in Frame, f.type = "Set"
    PROVE  f.body[1] \in Node /\ f.body[2] \in Nat
<1>1. f.body \in Body
  BY FrameFields
<1>2. f.body \in Node \X (1 .. MaxSets)
  BY <1>1
<1> QED BY <1>2

(* Frames leave a line at its ends.                                        *)
LEMMA LineRest ==
    ASSUME NEW n, NEW P, NEW x, NEW Q, InLine(n, P, x, Q),
           NEW R, NEW k \in {0, 1},
           \A i \in DOMAIN R : i \in Nat /\ i + k \in DOMAIN P /\ R[i] = P[i + k]
    PROVE  InLine(n, R, x, Q)
BY DEF InLine

LEMMA LineDrops ==
    ASSUME NEW n, NEW P, NEW x, NEW Q \in Seq(Frame), InLine(n, P, x, Q),
           NEW y \in {x, None}, NEW R,
           R = Q \/ (Q # <<>> /\ R = Tail(Q))
    PROVE  InLine(n, P, y, R)
<1>1. CASE R = Q
  BY <1>1 DEF InLine
<1>2. CASE Q # <<>> /\ R = Tail(Q)
  <2>1. \A i \in DOMAIN R : i \in Nat /\ i + 1 \in DOMAIN Q /\ R[i] = Q[i + 1]
    BY <1>2, TailElements
  <2>2. \A i, j \in DOMAIN R : i < j => i + 1 < j + 1
    BY <2>1
  <2> QED BY <2>1, <2>2 DEF InLine
<1> QED BY <1>1, <1>2

(* A frame joins the line behind all others.                               *)
LEMMA LineGrows ==
    ASSUME NEW n, NEW P, NEW x, NEW Q \in Seq(Frame), InLine(n, P, x, Q),
           NEW f \in Frame,
           \A i \in DOMAIN P : NotBefore(P[i], f, n),
           \A j \in DOMAIN Q : NotBefore(Q[j], f, n),
           x # None => NotBefore(x, f, n)
    PROVE  InLine(n, P, x, Append(Q, f))
<1> DEFINE R == Append(Q, f)
<1>1. /\ \A i \in DOMAIN R : i \in Nat
      /\ \A i \in DOMAIN R : \/ i \in DOMAIN Q /\ R[i] = Q[i]
                             \/ i = Len(Q) + 1 /\ R[i] = f
  <2>1. R \in Seq(Frame)
    OBVIOUS
  <2>2. \A i \in DOMAIN R : i \in Nat
    <3> HIDE DEF R
    <3> QED BY <2>1
  <2>3. \A i \in DOMAIN R : \/ i \in DOMAIN Q /\ R[i] = Q[i]
                            \/ i = Len(Q) + 1 /\ R[i] = f
    BY AppendElements
  <2> QED BY <2>2, <2>3
<1>2. \A i \in DOMAIN Q : i < Len(Q) + 1
  BY AppendElements
<1> HIDE DEF R
<1>3. ASSUME NEW i \in DOMAIN R, NEW j \in DOMAIN R, i < j
      PROVE  NotBefore(R[i], R[j], n)
  <2>1. i \in DOMAIN Q /\ R[i] = Q[i]
    <3>1. Len(Q) + 1 \in Nat
      OBVIOUS
    <3> QED BY <1>1, <1>2, <1>3, <3>1
  <2>2. CASE j \in DOMAIN Q /\ R[j] = Q[j]
    BY <1>3, <2>1, <2>2 DEF InLine
  <2>3. CASE R[j] = f
    BY <2>1, <2>3
  <2> QED BY <1>1, <2>2, <2>3
<1>4. InLine(n, P, x, R)
  BY <1>1, <1>3 DEF InLine
<1> QED BY <1>4 DEF R

(* A frame is sent, once more or for the first time.                       *)
LEMMA LineSends ==
    ASSUME NEW n, NEW P \in Seq(Frame), NEW Q, NEW f \in Frame,
           InLine(n, P, f, Q), NotBefore(f, f, n),
           NEW y \in {f, None}, NEW R \in {P, Append(P, f)}
    PROVE  InLine(n, R, y, Q)
<1>1. f # None
  BY NoneAssumption
<1>2. /\ \A i \in DOMAIN R : i \in Nat
      /\ \A i \in DOMAIN R : \/ i \in DOMAIN P /\ R[i] = P[i]
                             \/ i = Len(P) + 1 /\ R[i] = f
  <2>1. R \in Seq(Frame)
    OBVIOUS
  <2>2. \A i \in DOMAIN R : i \in Nat
    BY <2>1
  <2>3. \A i \in DOMAIN R : \/ i \in DOMAIN P /\ R[i] = P[i]
                            \/ i = Len(P) + 1 /\ R[i] = f
    BY AppendElements
  <2> QED BY <2>2, <2>3
<1>3. \A i \in DOMAIN P : i < Len(P) + 1
  BY AppendElements
<1>4. ASSUME NEW i \in DOMAIN R, NEW j \in DOMAIN R, i < j
      PROVE  NotBefore(R[i], R[j], n)
  <2>1. i \in DOMAIN P /\ R[i] = P[i]
    <3>1. Len(P) + 1 \in Nat
      OBVIOUS
    <3> QED BY <1>2, <1>3, <1>4, <3>1
  <2>2. CASE j \in DOMAIN P /\ R[j] = P[j]
    BY <1>4, <2>1, <2>2 DEF InLine
  <2>3. CASE R[j] = f
    BY <1>1, <2>1, <2>3 DEF InLine
  <2> QED BY <1>2, <2>2, <2>3
<1> QED BY <1>1, <1>2, <1>4 DEF InLine

LEMMA LineNext ==
    ASSUME NEW n, NEW P, NEW Q \in Seq(Frame), Q # <<>>, InLine(n, P, None, Q)
    PROVE  InLine(n, P, Head(Q), Tail(Q))
<1>1. /\ \A i \in DOMAIN Tail(Q) : i \in Nat /\ i + 1 \in DOMAIN Q /\ Tail(Q)[i] = Q[i + 1]
      /\ Head(Q) = Q[1] /\ 1 \in DOMAIN Q
  BY TailElements
<1>2. \A i \in DOMAIN Tail(Q) : 1 < i + 1
  <2>1. Tail(Q) \in Seq(Frame)
    OBVIOUS
  <2> QED BY <2>1
<1>3. InLine(n, P, None, Tail(Q))
  BY LineDrops
<1> QED BY <1>1, <1>2, <1>3 DEF InLine

(* Reading: the rest of the line keeps its order, and nothing in it comes  *)
(* before the frame that was read.                                         *)
LEMMA SetsQueued ==
    ASSUME NodeTypeOK, NEW n \in Node, pending_frame'[n] \in {pending_frame[n], None},
           NEW f \in Frame, f.type # "Set",
           tx_queue'[n] \in {tx_queue[n], Append(tx_queue[n], f)},
           NEW P, InLine(n, P, pending_frame[n], tx_queue[n])
    PROVE  /\ InLine(n, P, pending_frame'[n], tx_queue'[n])
           /\ \A g \in Queued(n)' : g \in Queued(n) \/ g.type # "Set"
<1>1. tx_queue[n] \in Seq(Frame)
  BY DEF NodeTypeOK
<1>2. InLine(n, P, pending_frame'[n], tx_queue[n])
  BY <1>1, LineDrops
<1>3. \A g : NotBefore(g, f, n)
  BY DEF NotBefore, IsSetOf
<1>4. InLine(n, P, pending_frame'[n], Append(tx_queue[n], f))
  BY <1>1, <1>2, <1>3, LineGrows
<1>5. \A i \in DOMAIN tx_queue'[n] :
         \/ i \in DOMAIN tx_queue[n] /\ tx_queue'[n][i] = tx_queue[n][i]
         \/ tx_queue'[n][i] = f
  BY <1>1, AppendElements
<1>6. \A g \in Queued(n)' : g \in Queued(n) \/ g = f
  BY <1>5 DEF Queued
<1> QED BY <1>2, <1>4, <1>6

LEMMA ReadQueued ==
    ASSUME NodeTypeOK, NEW r \in Node, ReadsOne(r), NEW n \in Node
    PROVE  /\ pending_frame'[n] \in {pending_frame[n], None}
           /\ \E f \in Frame : /\ f.type # "Set"
                               /\ tx_queue'[n] \in {tx_queue[n], Append(tx_queue[n], f)}
<1>1. CASE n = r
  <2>1. CASE tx_queue'[n] = tx_queue[n]
    <3>1. Pong(MasterAddress, MasterAddress) \in Frame
          /\ Pong(MasterAddress, MasterAddress).type # "Set"
      BY Addresses, FrameConstructors DEF Pong
    <3> QED BY <1>1, <2>1, <3>1 DEF ReadsOne
  <2>2. CASE \E f \in Frame : IsReply(r, f) /\ tx_queue'[r] = Append(tx_queue[r], f)
    BY <1>1, <2>2 DEF ReadsOne, IsReply
  <2> QED BY <1>1, <2>1, <2>2 DEF ReadsOne
<1>2. CASE n # r
  <2>1. Pong(MasterAddress, MasterAddress) \in Frame
        /\ Pong(MasterAddress, MasterAddress).type # "Set"
    BY Addresses, FrameConstructors DEF Pong
  <2> QED BY <1>2, <2>1 DEF ReadsOne
<1> QED BY <1>1, <1>2

LEMMA ReadSeen ==
    ASSUME TypeOK, NEW r \in Node, ReadsOne(r), NEW m \in Node, NEW n \in Node
    PROVE  \/ seen'[m][n] = seen[m][n]
           \/ /\ m = r /\ IsSetOf(rx[m][1], n) /\ rx[m][1] \in Frame /\ 1 \in DOMAIN rx[m]
              /\ seen'[m][n] = rx[m][1].body[2]
<1>1. CASE UNCHANGED seen
  BY <1>1
<1>2. CASE /\ Incoming(r).type = "Set"
           /\ seen' = [seen EXCEPT ![r][Incoming(r).body[1]] = Incoming(r).body[2]]
  <2>1. /\ Incoming(r) \in Frame /\ Incoming(r) = rx[r][1] /\ 1 \in DOMAIN rx[r]
    BY ReadFrame DEF ReadsOne, TypeOK
  <2>2. Incoming(r).body[1] \in Node
    BY <1>2, <2>1, SetFields
  <2> DEFINE a == Incoming(r).body[1]
             k == Incoming(r).body[2]
  <2>3. seen \in [Node -> [Node -> 0 .. MaxSets]]
    BY DEF TypeOK
  <2>4. seen'[m][n] = IF m = r /\ n = a THEN k ELSE seen[m][n]
    <3>1. seen' = [seen EXCEPT ![r] = [seen[r] EXCEPT ![a] = k]] /\ a \in Node
      BY <1>2, <2>2
    <3> HIDE DEF a, k
    <3> QED BY <2>3, <3>1
  <2> QED BY <1>2, <2>1, <2>4 DEF IsSetOf
<1> QED BY <1>1, <1>2 DEF ReadsOne

LEMMA SetsRead ==
    ASSUME TypeOK, SetOrder, NEW r \in Node, ReadsOne(r), NEW m \in Node, NEW n \in Node
    PROVE  OwnSets(n)' /\ SetsAt(m, n)' /\ seen'[m][n] >= seen[m][n]
<1>0. NodeTypeOK /\ SetsAt(m, n) /\ OwnSets(n) /\ sent' = sent
  BY DEF TypeOK, SetOrder, ReadsOne
<1>1. PICK k \in {0, 1} :
         \A i \in DOMAIN rx'[m] : i \in Nat /\ i + k \in DOMAIN rx[m] /\ rx'[m][i] = rx[m][i + k]
  <2>1. CASE m = r
    BY <1>0, <2>1, ReadShift DEF ReadsOne
  <2>2. CASE m # r
    <3>1. rx'[m] = rx[m] /\ rx[m] \in Seq(Frame)
      BY <1>0, <2>2, ReadShift DEF ReadsOne, NodeTypeOK
    <3>2. \A i \in DOMAIN rx[m] : i \in Nat /\ i + 0 = i
      BY <3>1
    <3> QED BY <3>1, <3>2
  <2> QED BY <2>1, <2>2
<1>2. m = r => \A i \in DOMAIN rx'[m] :
         i \in Nat /\ i + 1 \in DOMAIN rx[m] /\ rx'[m][i] = rx[m][i + 1]
  BY <1>0, ReadShift DEF ReadsOne
<1>3. /\ InLine(n, rx[m], pending_frame'[n], tx_queue'[n])
      /\ \A g \in Queued(n)' : g \in Queued(n) \/ g.type # "Set"
  BY <1>0, ReadQueued, SetsQueued DEF SetsAt
<1>4. InLine(n, rx'[m], pending_frame'[n], tx_queue'[n])
  BY <1>1, <1>3, LineRest
<1>5. OwnSets(n)'
  BY <1>0, <1>3 DEF OwnSets
<1>6. CASE seen'[m][n] = seen[m][n]
  <2>1. seen[m][n] \in Nat
    BY DEF TypeOK
  <2>2. \A i \in DOMAIN rx'[m] : Between(n, seen[m][n], rx'[m][i], sent[n])
    BY <1>0, <1>1 DEF SetsAt
  <2>3. \A g \in Queued(n)' : Between(n, seen[m][n], g, sent[n])
    BY <1>0, <1>3 DEF SetsAt, Between, IsSetOf
  <2> QED BY <1>0, <1>4, <1>5, <1>6, <2>1, <2>2, <2>3 DEF SetsAt
<1>7. CASE /\ m = r /\ IsSetOf(rx[m][1], n) /\ rx[m][1] \in Frame /\ 1 \in DOMAIN rx[m]
           /\ seen'[m][n] = rx[m][1].body[2]
  <2>1. rx[m][1].body[2] \in Nat /\ seen[m][n] \in Nat
    BY <1>7, SetFields DEF IsSetOf, TypeOK
  <2>2. Between(n, seen[m][n], rx[m][1], sent[n])
    BY <1>0, <1>7 DEF SetsAt
  <2>3. seen[m][n] <= rx[m][1].body[2] /\ rx[m][1].body[2] <= sent[n]
    BY <1>7, <2>2 DEF Between
  <2>4. ASSUME NEW i \in DOMAIN rx'[m]
        PROVE  Between(n, seen'[m][n], rx'[m][i], sent[n])
    <3>1. /\ i + 1 \in DOMAIN rx[m] /\ rx'[m][i] = rx[m][i + 1] /\ 1 < i + 1
      <4>1. rx'[m] \in Seq(Frame)
        BY <1>0, ReadShift DEF ReadsOne
      <4> QED BY <1>2, <1>7, <4>1
    <3>2. NotBefore(rx[m][1], rx'[m][i], n)
      BY <1>0, <1>7, <3>1 DEF SetsAt, InLine
    <3>3. Between(n, seen[m][n], rx'[m][i], sent[n])
      BY <1>0, <3>1 DEF SetsAt
    <3> QED BY <1>7, <3>2, <3>3 DEF NotBefore, Between
  <2>5. ASSUME NEW g \in Queued(n)'
        PROVE  Between(n, seen'[m][n], g, sent[n])
    <3>1. CASE g \in Queued(n)
      <4>1. NotBefore(rx[m][1], g, n)
        BY <1>0, <1>7, <3>1 DEF SetsAt, InLine, Queued
      <4>2. Between(n, seen[m][n], g, sent[n])
        BY <1>0, <3>1 DEF SetsAt
      <4> QED BY <1>7, <4>1, <4>2 DEF NotBefore, Between
    <3>2. CASE g.type # "Set"
      BY <3>2 DEF Between, IsSetOf
    <3> QED BY <1>3, <3>1, <3>2
  <2> QED BY <1>0, <1>4, <1>5, <1>7, <2>1, <2>3, <2>4, <2>5 DEF SetsAt
<1> QED BY <1>6, <1>7, ReadSeen

(* Writing: the frame that is sent was first in the line of its sender and *)
(* is last in that of each receiver.                                       *)
LEMMA SetsWrite ==
    ASSUME TypeOK, SetOrder, NEW w \in Node, WritesOne(w), NEW m \in Node, NEW n \in Node
    PROVE  OwnSets(n)' /\ SetsAt(m, n)'
<1>0. /\ NodeTypeOK /\ SetsAt(m, n) /\ OwnSets(n) /\ OwnSets(w)
      /\ sent' = sent /\ seen' = seen
      /\ rx[m] \in Seq(Frame) /\ tx_queue[w] \in Seq(Frame)
  BY DEF TypeOK, SetOrder, WritesOne, NodeTypeOK
<1>1. PICK x \in {pending_frame[w], None}, q \in Seq(Frame) :
          /\ q = tx_queue[w] \/ (tx_queue[w] # <<>> /\ q = Tail(tx_queue[w]))
          /\ \/ \E f \in Frame, rest \in Seq(Frame) :
                   /\ \/ x = f /\ rest = q
                      \/ x = None /\ q # <<>> /\ f = Head(q) /\ rest = Tail(q)
                   /\ Sent(w, f, rest)
             \/ /\ pending_frame'[w] = None /\ tx_queue'[w] = <<>>
                /\ \A l \in Node \ {w} : pending_frame'[l] = pending_frame[l]
                                         /\ tx_queue'[l] = tx_queue[l]
                /\ UNCHANGED rx
  BY DEF WritesOne
<1>2. \A i \in DOMAIN q : \E j \in DOMAIN tx_queue[w] : q[i] = tx_queue[w][j]
  <2>1. CASE q = tx_queue[w]
    BY <2>1
  <2>2. CASE tx_queue[w] # <<>> /\ q = Tail(tx_queue[w])
    <3>1. \A i \in DOMAIN q : i + 1 \in DOMAIN tx_queue[w] /\ q[i] = tx_queue[w][i + 1]
      BY <1>0, <2>2, TailElements
    <3> QED BY <3>1
  <2> QED BY <1>1, <2>1, <2>2
<1>3. CASE /\ pending_frame'[w] = None /\ tx_queue'[w] = <<>>
           /\ \A l \in Node \ {w} : pending_frame'[l] = pending_frame[l]
                                    /\ tx_queue'[l] = tx_queue[l]
           /\ UNCHANGED rx
  <2>1. CASE n = w
    <3>1. Queued(n)' = {}
      BY <1>3, <2>1 DEF Queued
    <3>2. InLine(n, rx[m], None, <<>>)
      BY <1>0 DEF SetsAt, InLine
    <3> QED BY <1>0, <1>3, <2>1, <3>1, <3>2 DEF SetsAt, OwnSets
  <2>2. CASE n # w
    <3>1. pending_frame'[n] = pending_frame[n] /\ tx_queue'[n] = tx_queue[n] /\ rx'[m] = rx[m]
      BY <1>3, <2>2
    <3> QED BY <1>0, <3>1 DEF SetsAt, OwnSets, Queued
  <2> QED BY <2>1, <2>2
<1>4. ASSUME NEW f \in Frame, NEW rest \in Seq(Frame),
             \/ x = f /\ rest = q
             \/ x = None /\ q # <<>> /\ f = Head(q) /\ rest = Tail(q),
             Sent(w, f, rest)
      PROVE  OwnSets(n)' /\ SetsAt(m, n)'
  <2>0. rx'[m] \in {rx[m], Append(rx[m], f)}
    BY <1>4 DEF Sent
  <2>1. /\ f \in Queued(w)
        /\ \A i \in DOMAIN rest : \E j \in DOMAIN tx_queue[w] : rest[i] = tx_queue[w][j]
    <3>1. CASE x = f /\ rest = q
      BY <1>1, <1>2, <3>1, NoneAssumption DEF Queued
    <3>2. CASE x = None /\ q # <<>> /\ f = Head(q) /\ rest = Tail(q)
      <4>1. /\ Head(q) = q[1] /\ 1 \in DOMAIN q
            /\ \A i \in DOMAIN Tail(q) : i + 1 \in DOMAIN q /\ Tail(q)[i] = q[i + 1]
        BY <3>2, TailElements
      <4>2. PICK j \in DOMAIN tx_queue[w] : f = tx_queue[w][j]
        BY <1>2, <3>2, <4>1
      <4>3. f \in Queued(w)
        BY <4>2, NoneAssumption DEF Queued
      <4>4. \A i \in DOMAIN rest : \E l \in DOMAIN tx_queue[w] : rest[i] = tx_queue[w][l]
        BY <1>2, <3>2, <4>1
      <4> QED BY <4>3, <4>4
    <3> QED BY <1>4, <3>1, <3>2
  <2>2. \A i \in DOMAIN rx'[m] : (i \in DOMAIN rx[m] /\ rx'[m][i] = rx[m][i]) \/ rx'[m][i] = f
    <3>1. CASE rx'[m] = rx[m]
      BY <3>1
    <3>2. CASE rx'[m] = Append(rx[m], f)
      BY <1>0, <3>2, AppendElements
    <3> QED BY <2>0, <3>1, <3>2
  <2>3. CASE n = w
    <3>1. InLine(n, rx[m], x, q)
      BY <1>0, <1>1, <2>3, LineDrops DEF SetsAt
    <3>2. InLine(n, rx[m], f, rest)
      BY <1>4, <3>1, LineNext
    <3>3. NotBefore(f, f, n)
      BY SetFields DEF NotBefore, IsSetOf
    <3>4. pending_frame'[n] \in {f, None} /\ tx_queue'[n] = rest
      BY <1>4, <2>3 DEF Sent
    <3>5. InLine(n, rx'[m], pending_frame'[n], tx_queue'[n])
      BY <1>0, <2>0, <3>2, <3>3, <3>4, LineSends
    <3>6. \A g \in Queued(n)' : g \in Queued(n)
      BY <2>1, <2>3, <3>4 DEF Queued
    <3>7. \A i \in DOMAIN rx'[m] : Between(n, seen[m][n], rx'[m][i], sent[n])
      BY <1>0, <2>1, <2>2, <2>3 DEF SetsAt
    <3>8. OwnSets(n)'
      BY <1>0, <3>6 DEF OwnSets
    <3> QED BY <1>0, <3>5, <3>6, <3>7, <3>8 DEF SetsAt
  <2>4. CASE n # w
    <3>1. pending_frame'[n] = pending_frame[n] /\ tx_queue'[n] = tx_queue[n]
      BY <1>4, <2>4 DEF Sent
    <3>2. ~IsSetOf(f, n)
      BY <1>0, <2>1, <2>4 DEF OwnSets, IsSetOf
    <3>3. \A i \in DOMAIN rx'[m] : Between(n, seen[m][n], rx'[m][i], sent[n])
      BY <1>0, <2>2, <3>2 DEF SetsAt, Between
    <3>4. InLine(n, rx'[m], pending_frame[n], tx_queue[n])
      <4>1. \A i, j \in DOMAIN rx'[m] : i < j => NotBefore(rx'[m][i], rx'[m][j], n)
        BY <1>0, <2>2, <3>2 DEF SetsAt, InLine, NotBefore
      <4> QED BY <1>0, <2>2, <3>2, <4>1 DEF SetsAt, InLine, NotBefore
    <3> QED BY <1>0, <3>1, <3>3, <3>4 DEF SetsAt, OwnSets, Queued
  <2> QED BY <2>3, <2>4
<1> QED BY <1>1, <1>3, <1>4

(* Submitting: a new Set has the highest number.                           *)
LEMMA SetsSubmit ==
    ASSUME TypeOK, SetOrder, NEW s \in Node, SubmitsOne(s), NEW m \in Node, NEW n \in Node
    PROVE  OwnSets(n)' /\ SetsAt(m, n)'
<1>0. /\ NodeTypeOK /\ SetsAt(m, n) /\ OwnSets(n)
      /\ pending_frame' = pending_frame /\ rx' = rx /\ seen' = seen
      /\ tx_queue[n] \in Seq(Frame)
      /\ sent[n] \in Nat /\ seen[m][n] \in Nat
      /\ \A f \in Queued(n) : f \in Frame
      /\ \A i \in DOMAIN rx[m] : rx[m][i] \in Frame
  <2>1. NodeTypeOK /\ tx_queue[n] \in Seq(Frame) /\ rx[m] \in Seq(Frame)
        /\ pending_frame[n] \in Frame \cup {None}
    BY DEF TypeOK, NodeTypeOK
  <2>2. sent[n] \in Nat /\ seen[m][n] \in Nat
    BY DEF TypeOK
  <2>3. \A i \in DOMAIN tx_queue[n] : tx_queue[n][i] \in Frame
    BY <2>1
  <2>4. \A f \in Queued(n) : f \in Frame
    BY <2>1, <2>3 DEF Queued
  <2>5. \A i \in DOMAIN rx[m] : rx[m][i] \in Frame
    BY <2>1
  <2> QED BY <2>1, <2>2, <2>4, <2>5 DEF SetOrder, SubmitsOne
<1>1. sent'[n] \in {sent[n], sent[n] + 1}
  BY DEF SubmitsOne, TypeOK
<1>2. ASSUME NEW low, NEW f \in Frame, Between(n, low, f, sent[n])
      PROVE  Between(n, low, f, sent'[n])
  BY <1>0, <1>1, <1>2, SetFields DEF Between, IsSetOf
<1>3. /\ \A i \in DOMAIN rx[m] : Between(n, seen[m][n], rx[m][i], sent'[n])
      /\ \A f \in Queued(n) : Between(n, seen[m][n], f, sent'[n])
  BY <1>0, <1>2 DEF SetsAt
<1>4. CASE tx_queue'[n] = tx_queue[n]
  <2>1. Queued(n)' = Queued(n)
    BY <1>0, <1>4 DEF Queued
  <2>2. seen[m][n] <= sent'[n]
    BY <1>0, <1>1 DEF SetsAt
  <2> QED BY <1>0, <1>3, <1>4, <2>1, <2>2 DEF SetsAt, OwnSets
<1>5. ASSUME n = s, NEW f \in Frame, IsSubmitted(n, f), tx_queue'[n] = Append(tx_queue[n], f)
      PROVE  OwnSets(n)' /\ SetsAt(m, n)'
  <2>1. f.type = "Set" => f.body[1] = n /\ f.body[2] = sent[n] + 1 /\ sent'[n] = sent[n] + 1
    BY <1>5 DEF IsSubmitted, TypeOK
  <2>2. ASSUME NEW g, NEW low, Between(n, low, g, sent[n]), g \in Frame
        PROVE  NotBefore(g, f, n)
    BY <1>0, <2>1, <2>2, SetFields DEF NotBefore, Between, IsSetOf
  <2>3. /\ \A i \in DOMAIN rx[m] : NotBefore(rx[m][i], f, n)
        /\ \A g \in Queued(n) : NotBefore(g, f, n)
    BY <1>0, <2>2 DEF SetsAt
  <2>4. /\ \A j \in DOMAIN tx_queue[n] : NotBefore(tx_queue[n][j], f, n)
        /\ pending_frame[n] # None => NotBefore(pending_frame[n], f, n)
    <3>1. \A j \in DOMAIN tx_queue[n] : tx_queue[n][j] \in Queued(n)
      <4>1. \A j \in DOMAIN tx_queue[n] : tx_queue[n][j] \in Frame
        BY <1>0
      <4> QED BY <4>1, NoneAssumption DEF Queued
    <3>2. pending_frame[n] # None => pending_frame[n] \in Queued(n)
      BY DEF Queued
    <3> QED BY <2>3, <3>1, <3>2
  <2>5. InLine(n, rx[m], pending_frame[n], tx_queue'[n])
    BY <1>0, <1>5, <2>3, <2>4, LineGrows DEF SetsAt
  <2>6. \A g \in Queued(n)' : g \in Queued(n) \/ g = f
    BY <1>0, <1>5, AppendQueued
  <2>7. Between(n, seen[m][n], f, sent'[n]) /\ seen[m][n] <= sent'[n]
    BY <1>0, <1>1, <2>1 DEF SetsAt, Between, IsSetOf
  <2>8. OwnSets(n)'
    BY <1>0, <2>1, <2>6 DEF OwnSets
  <2> QED BY <1>0, <1>3, <2>5, <2>6, <2>7, <2>8 DEF SetsAt
<1> QED BY <1>4, <1>5 DEF SubmitsOne

LEMMA SetsRestart ==
    ASSUME TypeOK, SetOrder, NEW r \in Node, RestartsOne(r), NEW m \in Node, NEW n \in Node
    PROVE  OwnSets(n)' /\ SetsAt(m, n)'
<1>0. SetsAt(m, n) /\ OwnSets(n) /\ sent' = sent /\ seen' = seen
  BY DEF SetOrder, RestartsOne
<1>1. rx'[m] = rx[m] \/ rx'[m] = <<>>
  BY DEF RestartsOne
<1>2. \/ pending_frame'[n] = pending_frame[n] /\ tx_queue'[n] = tx_queue[n]
      \/ pending_frame'[n] = None /\ tx_queue'[n] = <<>>
  BY DEF RestartsOne
<1>3. DOMAIN <<>> = {}
  OBVIOUS
<1>4. InLine(n, rx'[m], pending_frame'[n], tx_queue'[n])
  BY <1>0, <1>1, <1>2, <1>3 DEF SetsAt, InLine
<1>5. Queued(n)' \subseteq Queued(n)
  BY <1>2, <1>3 DEF Queued
<1>6. \A i \in DOMAIN rx'[m] : Between(n, seen[m][n], rx'[m][i], sent[n])
  BY <1>0, <1>1, <1>3 DEF SetsAt
<1>7. OwnSets(n)'
  BY <1>0, <1>5 DEF OwnSets
<1> QED BY <1>0, <1>4, <1>5, <1>6, <1>7 DEF SetsAt

LEMMA SetOrderNext ==
    ASSUME TypeOK, SetOrder, [Next]_vars
    PROVE  SetOrder' /\ \A m, n \in Node : seen'[m][n] >= seen[m][n]
<1>0. \A m, n \in Node : seen[m][n] \in Nat
  BY DEF TypeOK
<1>1. CASE Read
  <2>1. PICK r \in Node : ReadsOne(r)
    BY <1>1, ReadEffect
  <2> QED BY <2>1, SetsRead DEF SetOrder
<1>2. CASE Write
  <2>1. PICK w \in Node : WritesOne(w)
    BY <1>2, WriteEffect
  <2>2. seen' = seen
    BY <2>1 DEF WritesOne
  <2> QED BY <1>0, <2>1, <2>2, SetsWrite DEF SetOrder
<1>3. CASE Application
  <2>1. PICK s \in Node : SubmitsOne(s)
    BY <1>3, ApplicationEffect
  <2>2. seen' = seen
    BY <2>1 DEF SubmitsOne
  <2> QED BY <1>0, <2>1, <2>2, SetsSubmit DEF SetOrder
<1>4. CASE PowerCycle
  <2>1. PICK r \in Node : RestartsOne(r)
    BY <1>4, PowerCycleEffect
  <2>2. seen' = seen
    BY <2>1 DEF RestartsOne
  <2> QED BY <1>0, <2>1, <2>2, SetsRestart DEF SetOrder
<1>5. CASE UNCHANGED vars
  <2>1. UNCHANGED <<pending_frame, tx_queue, rx, seen, sent>>
    BY <1>5 DEF vars, nodeVars, historyVars
  <2> QED BY <1>0, <2>1 DEF SetOrder, OwnSets, SetsAt, Queued
<1> QED BY <1>1, <1>2, <1>3, <1>4, <1>5 DEF Next

LEMMA SetOrderInit == Init => SetOrder
<1> SUFFICES ASSUME Init PROVE SetOrder
  OBVIOUS
<1>1. \A n \in Node : Queued(n) = {} /\ rx[n] = <<>> /\ tx_queue[n] = <<>>
                      /\ pending_frame[n] = None
  BY DEF Init, Queued
<1>2. \A m, n \in Node : seen[m][n] = 0 /\ sent[n] = 0
  BY DEF Init
<1>3. DOMAIN <<>> = {}
  OBVIOUS
<1>4. \A m, n \in Node : InLine(n, rx[m], pending_frame[n], tx_queue[n])
  BY <1>1, <1>3 DEF InLine
<1>5. \A m, n \in Node : SetsAt(m, n)
  BY <1>1, <1>2, <1>3, <1>4 DEF SetsAt
<1> QED BY <1>1, <1>5 DEF SetOrder, OwnSets

(* No application sees a Set after a later one of the same sender: the     *)
(* channel, the frame that write_tick repeats and the bus keep the order,  *)
(* whatever is lost, repeated or power-cycled.                             *)
THEOREM SetsKeepOrder == Spec => SetsInOrder
<1>1. Init => TypeOK /\ SetOrder
  BY InitType, SetOrderInit
<1>2. TypeOK /\ SetOrder /\ [Next]_vars => (TypeOK /\ SetOrder)'
  BY NextType, SetOrderNext
<1>3. TypeOK /\ SetOrder /\ [Next]_vars
        => [\A m, n \in Node : seen'[m][n] >= seen[m][n]]_seen
  BY SetOrderNext
<1> QED BY <1>1, <1>2, <1>3, PTL DEF Spec, SetsInOrder

-----------------------------------------------------------------------------
(* Imcp implements AddressPool: the inductive invariant of the address     *)
(* assignment and the step simulation it makes possible; and what follows  *)
(* for a device that asks for an address and for the Acks of Sets.         *)

(* The three parts of the invariant that different steps disturb.          *)
HubInv    == AssignmentHasFrame /\ AssignmentIsNext /\ GrantsInPool
BusInv    == OffersOnBus /\ ClientsOfferNothing
DeviceInv == OwnIdentifier /\ AddressWasGranted

LEMMA ImcpInvParts == ImcpInv <=> TypeOK /\ HubInv /\ BusInv /\ DeviceInv
BY DEF ImcpInv, HubInv, BusInv, DeviceInv

-----------------------------------------------------------------------------
(* Offers in a queue.                                                      *)

LEMMA OffersAppend ==
    ASSUME NEW q \in Seq(Frame), NEW f \in Frame
    PROVE  /\ \A i \in DOMAIN q : Append(q, f)[i] = q[i]
           /\ ~IsOffer(f) => OffersIn(Append(q, f)) = OffersIn(q)
           /\ IsOffer(f) => /\ OffersIn(Append(q, f)) = OffersIn(q) \cup {Len(q) + 1}
                            /\ Append(q, f)[Len(q) + 1] = f
<1>1. /\ DOMAIN Append(q, f) = DOMAIN q \cup {Len(q) + 1}
      /\ \A i \in DOMAIN q : Append(q, f)[i] = q[i]
      /\ Append(q, f)[Len(q) + 1] = f
      /\ Len(q) + 1 \notin DOMAIN q
  OBVIOUS
<1> DEFINE aq == Append(q, f)
           k  == Len(q) + 1
<1>2. DOMAIN aq = DOMAIN q \cup {k} /\ (\A i \in DOMAIN q : aq[i] = q[i]) /\ aq[k] = f
  BY <1>1
<1> HIDE DEF aq, k
<1>3. /\ ~IsOffer(f) => OffersIn(aq) = OffersIn(q)
      /\ IsOffer(f) => OffersIn(aq) = OffersIn(q) \cup {k}
  BY <1>2 DEF OffersIn, IsOffer
<1> QED BY <1>1, <1>3 DEF aq, k

LEMMA OffersTail ==
    ASSUME NEW q \in Seq(Frame), q # <<>>
    PROVE  /\ \A i \in OffersIn(Tail(q)) :
                  i + 1 \in OffersIn(q) /\ Tail(q)[i] = q[i + 1] /\ i \in Nat \ {0}
           /\ \A i \in OffersIn(q) : i # 1 => i - 1 \in OffersIn(Tail(q))
           /\ 1 \in OffersIn(q) <=> IsOffer(Head(q))
           /\ Head(q) = q[1]
<1>1. /\ DOMAIN q = 1 .. Len(q) /\ Len(q) \in Nat \ {0} /\ Head(q) = q[1]
      /\ DOMAIN Tail(q) = 1 .. Len(q) - 1
      /\ \A i \in DOMAIN Tail(q) : Tail(q)[i] = q[i + 1]
  OBVIOUS
<1> DEFINE tq == Tail(q)
<1>2. DOMAIN tq = 1 .. Len(q) - 1 /\ \A i \in DOMAIN tq : tq[i] = q[i + 1]
  BY <1>1
<1> HIDE DEF tq
<1>3. \A i \in OffersIn(tq) : i + 1 \in OffersIn(q) /\ tq[i] = q[i + 1] /\ i \in Nat \ {0}
  BY <1>1, <1>2 DEF OffersIn
<1>4. \A i \in OffersIn(q) : i # 1 => i - 1 \in OffersIn(tq)
  <2> SUFFICES ASSUME NEW i \in DOMAIN q, IsOffer(q[i]), i # 1
               PROVE  i - 1 \in DOMAIN tq /\ IsOffer(tq[i - 1])
    BY DEF OffersIn
  <2>1. i \in 2 .. Len(q)
    BY <1>1
  <2>2. i - 1 \in DOMAIN tq /\ (i - 1) + 1 = i
    BY <2>1, <1>1, <1>2
  <2> QED BY <2>2, <1>2
<1>5. 1 \in OffersIn(q) <=> IsOffer(Head(q))
  BY <1>1 DEF OffersIn
<1> QED BY <1>1, <1>3, <1>4, <1>5 DEF tq

-----------------------------------------------------------------------------
(* Steps that leave the offer of the master alone.                         *)

LEMMA HubKept ==
    ASSUME TypeOK, HubInv,
           UNCHANGED <<pending_assignment, next_address, grants>>,
           Master \in halted => Master \in halted',
           \/ pending_frame'[Master] = pending_frame[Master]
           \/ ~PendingIsOffer /\ ~PendingIsOffer',
           OffersIn(tx_queue'[Master]) = OffersIn(tx_queue[Master]),
           \A i \in OffersIn(tx_queue[Master]) :
               tx_queue'[Master][i] = tx_queue[Master][i]
    PROVE  HubInv'
<1>1. /\ PendingIsOffer' <=> PendingIsOffer
      /\ PendingIsOffer => pending_frame'[Master] = pending_frame[Master]
      /\ QueuedOffers' = QueuedOffers
  BY DEF PendingIsOffer, QueuedOffers
<1>2. OneOffer'
  BY <1>1 DEF HubInv, AssignmentHasFrame, OneOffer
<1>3. OfferIsAssigned'
  BY <1>1 DEF HubInv, AssignmentHasFrame, OfferIsAssigned, Offered, QueuedOffers
<1>4. AssignmentIsOffered'
  BY <1>1 DEF HubInv, AssignmentHasFrame, AssignmentIsOffered
<1>5. AssignmentIsNext' /\ GrantsInPool'
  BY DEF HubInv, AssignmentIsNext, GrantsInPool
<1> QED BY <1>2, <1>3, <1>4, <1>5 DEF HubInv, AssignmentHasFrame

(* A step that takes the offer of the master away with its assignment.     *)
LEMMA HubWithoutOffer ==
    ASSUME HubInv, pending_assignment' = None, ~PendingIsOffer',
           QueuedOffers' = {}, grants' = grants
    PROVE  HubInv'
<1>1. AssignmentHasFrame'
  BY DEF AssignmentHasFrame, OneOffer, OfferIsAssigned, AssignmentIsOffered
<1> QED BY <1>1 DEF HubInv, AssignmentIsNext, GrantsInPool

(* Offers on the bus stay grants when a node reads, or when one more frame *)
(* is sent that is a grant if it is an offer.                              *)
LEMMA BusRead ==
    ASSUME NodeTypeOK, OffersOnBus, NEW n \in Node, Reading(n), TakeFrame(n),
           grants \subseteq grants'
    PROVE  OffersOnBus'
<1>1. rx[n] \in Seq(Frame) /\ rx[n] # <<>>
  BY DEF NodeTypeOK, Reading
<1>2. \A m \in Node \ {n} : rx'[m] = rx[m]
  BY DEF NodeTypeOK, TakeFrame
<1>3. rx'[n] = Tail(rx[n])
  BY DEF NodeTypeOK, TakeFrame
<1>4. \A i \in OffersIn(rx'[n]) :
          i + 1 \in OffersIn(rx[n]) /\ rx'[n][i] = rx[n][i + 1]
  BY <1>1, <1>3, OffersTail
<1> SUFFICES ASSUME NEW m \in Node, NEW i \in OffersIn(rx'[m])
             PROVE  IsGrant(rx[m][i])'
  BY DEF OffersOnBus
<1>5. \E j \in OffersIn(rx[m]) : rx'[m][i] = rx[m][j]
  BY <1>2, <1>4
<1> QED BY <1>5 DEF OffersOnBus, IsGrant

LEMMA BusTransmit ==
    ASSUME NodeTypeOK, OffersOnBus, NEW f \in Frame, NEW heard, Transmit(f, heard),
           IsOffer(f) => IsGrant(f),
           grants' = grants
    PROVE  OffersOnBus'
<1> SUFFICES ASSUME NEW m \in Node, NEW i \in OffersIn(rx'[m])
             PROVE  IsGrant(rx[m][i])'
  BY DEF OffersOnBus
<1>1. CASE m \in heard
  <2>1. rx'[m] = Append(rx[m], f) /\ rx[m] \in Seq(Frame)
    BY <1>1 DEF Transmit, NodeTypeOK
  <2>2. CASE i \in OffersIn(rx[m])
    <3>1. i \in DOMAIN rx[m]
      BY <2>2 DEF OffersIn
    <3>2. rx'[m][i] = rx[m][i]
      BY <2>1, <3>1, OffersAppend
    <3> QED BY <2>2, <3>2 DEF OffersOnBus, IsGrant
  <2>3. CASE i \notin OffersIn(rx[m])
    <3> DEFINE q == rx[m]
    <3>1. q \in Seq(Frame) /\ rx'[m] = Append(q, f)
      BY <2>1
    <3>2. i \in OffersIn(Append(q, f)) /\ i \notin OffersIn(q)
      BY <2>1, <2>3
    <3> HIDE DEF q
    <3>3. IsOffer(f)
      BY <3>1, <3>2, OffersAppend
    <3>4. OffersIn(Append(q, f)) = OffersIn(q) \cup {Len(q) + 1}
          /\ Append(q, f)[Len(q) + 1] = f
      BY <3>1, <3>3, OffersAppend
    <3>5. Append(q, f)[i] = f
      BY <3>2, <3>4, Zenon
    <3> QED BY <3>1, <3>3, <3>5 DEF IsGrant
  <2> QED BY <2>2, <2>3
<1>2. CASE m \notin heard
  BY <1>2 DEF Transmit, OffersOnBus, IsGrant
<1> QED BY <1>1, <1>2

(* A client goes on offering nothing when it answers or reports.           *)
LEMMA EnqueueOffers ==
    ASSUME NodeTypeOK, NEW n \in Node, NEW f \in Frame, ~IsOffer(f),
           Enqueue(n, f) \/ TrySend(n, f)
    PROVE  /\ OffersIn(tx_queue'[n]) = OffersIn(tx_queue[n])
           /\ \A i \in OffersIn(tx_queue[n]) : tx_queue'[n][i] = tx_queue[n][i]
           /\ \A m \in Node \ {n} : tx_queue'[m] = tx_queue[m]
<1>1. tx_queue[n] \in Seq(Frame)
  BY DEF NodeTypeOK
<1>2. \A m \in Node \ {n} : tx_queue'[m] = tx_queue[m]
  BY DEF NodeTypeOK, Enqueue, TrySend
<1>3. tx_queue'[n] \in {tx_queue[n], Append(tx_queue[n], f)}
  BY DEF NodeTypeOK, Enqueue, TrySend
<1>4. \A i \in OffersIn(tx_queue[n]) : i \in DOMAIN tx_queue[n]
  BY DEF OffersIn
<1>5. CASE tx_queue'[n] = tx_queue[n]
  BY <1>2, <1>5
<1>6. CASE tx_queue'[n] = Append(tx_queue[n], f)
  <2> DEFINE q == tx_queue[n]
  <2>1. q \in Seq(Frame) /\ \A i \in OffersIn(q) : i \in DOMAIN q
    BY <1>1, <1>4
  <2>2. tx_queue'[n] = Append(q, f)
    BY <1>6
  <2> HIDE DEF q
  <2>3. /\ OffersIn(Append(q, f)) = OffersIn(q)
        /\ \A i \in OffersIn(q) : Append(q, f)[i] = q[i]
    BY <2>1, OffersAppend
  <2> QED BY <1>2, <2>2, <2>3 DEF q
<1> QED BY <1>3, <1>5, <1>6

(* Offers on the bus are found by reading them.                            *)
LEMMA IncomingOffer ==
    ASSUME NodeTypeOK, OffersOnBus, NEW n \in Node, Reading(n),
           Incoming(n).type = "SetAddress"
    PROVE  IsGrant(Incoming(n))
<1>1. rx[n] \in Seq(Frame) /\ rx[n] # <<>>
  BY DEF NodeTypeOK, Reading
<1>2. 1 \in OffersIn(rx[n]) /\ Incoming(n) = rx[n][1]
  BY <1>1, OffersTail DEF Incoming, IsOffer
<1> QED BY <1>2 DEF OffersOnBus

LEMMA DeviceKept ==
    ASSUME DeviceInv, UNCHANGED <<node_type, node_id, address>>,
           grants \subseteq grants'
    PROVE  DeviceInv'
BY DEF DeviceInv, OwnIdentifier, AddressWasGranted

(* Steps of a node other than the master do not touch its offer.           *)
LEMMA HubApart ==
    ASSUME TypeOK, HubInv, UNCHANGED <<pending_assignment, next_address, grants>>,
           Master \in halted => Master \in halted',
           pending_frame'[Master] = pending_frame[Master],
           tx_queue'[Master] = tx_queue[Master]
    PROVE  HubInv'
BY HubKept

(* The answers of a node that are not offers: to a Set, to a Ping, to a    *)
(* SetAddress, and what an application submits.                            *)
LEMMA EnqueueInv ==
    ASSUME TypeOK, HubInv, ClientsOfferNothing, NEW n \in Node, NEW f \in Frame,
           ~IsOffer(f), Enqueue(n, f) \/ (TrySend(n, f) /\ UNCHANGED halted),
           UNCHANGED <<pending_frame, pending_assignment, next_address, grants>>
    PROVE  HubInv' /\ ClientsOfferNothing'
<1>1. NodeTypeOK /\ Master \in Node /\ Client \subseteq Node
  BY DEF TypeOK
<1>2. /\ OffersIn(tx_queue'[n]) = OffersIn(tx_queue[n])
      /\ \A i \in OffersIn(tx_queue[n]) : tx_queue'[n][i] = tx_queue[n][i]
      /\ \A m \in Node \ {n} : tx_queue'[m] = tx_queue[m]
  BY <1>1, EnqueueOffers
<1>3. Master \in halted => Master \in halted'
  BY DEF Enqueue
<1>4. HubInv'
  <2>1. /\ OffersIn(tx_queue'[Master]) = OffersIn(tx_queue[Master])
        /\ \A i \in OffersIn(tx_queue[Master]) :
               tx_queue'[Master][i] = tx_queue[Master][i]
    BY <1>1, <1>2
  <2> QED BY <1>3, <2>1, HubKept
<1>5. ClientsOfferNothing'
  <2>1. \A c \in Client : OffersIn(tx_queue'[c]) = OffersIn(tx_queue[c])
    BY <1>1, <1>2
  <2> QED BY <2>1 DEF ClientsOfferNothing
<1> QED BY <1>4, <1>5

LEMMA AnswerIsNoOffer ==
    \A to, from, x : /\ ~IsOffer(Ack(to, from, x)) /\ ~IsOffer(Join(to, from, x))
                    /\ ~IsOffer(Set(to, from, x))
                    /\ ~IsOffer(Ping(to, from)) /\ ~IsOffer(Pong(to, from))
BY DEF IsOffer, Ack, Join, Set, Ping, Pong

-----------------------------------------------------------------------------
(* The steps, one lemma for each group of handlers.                        *)

LEMMA NodeReadInv ==
    ASSUME ImcpInv, NEW n \in Node,
           Ignore(n) \/ Acknowledged(n) \/ ReceiveSet(n) \/ ReceivePing(n)
    PROVE  HubInv' /\ BusInv' /\ DeviceInv'
<1>0. /\ TypeOK /\ NodeTypeOK /\ HubInv /\ BusInv /\ DeviceInv
      /\ Master \in Node /\ Client \subseteq Node
      /\ OffersOnBus /\ ClientsOfferNothing
  BY ImcpInvParts DEF TypeOK, BusInv
<1>1. /\ Reading(n) /\ TakeFrame(n) /\ grants' = grants
      /\ UNCHANGED <<node_type, node_id, address>>
  BY DEF Ignore, ReadIgnored, Acknowledged, ReadAck, ReceiveSet, ReadSet,
         ReceivePing, ReadPing, Reads, historyVars
<1>2. DeviceInv' /\ OffersOnBus'
  <2>1. grants \subseteq grants'
    BY <1>1
  <2>2. DeviceInv'
    BY <1>0, <1>1, <2>1, DeviceKept
  <2>3. OffersOnBus'
    BY <1>0, <1>1, <2>1, BusRead
  <2> QED BY <2>2, <2>3
<1>3. Incoming(n) \in Frame /\ address[n] \in Address
      /\ Incoming(n).from \in Address /\ Incoming(n).to \in Address
  BY <1>0, <1>1, ReadFrame, FrameFields DEF NodeTypeOK
<1>4. CASE Ignore(n)
  <2>1. UNCHANGED <<pending_assignment, next_address, grants, halted,
                    pending_frame, tx_queue>>
    BY <1>4 DEF Ignore, ReadIgnored, masterVars, historyVars
  <2>2. HubInv'
    BY <1>0, <2>1, HubApart
  <2>3. ClientsOfferNothing'
    BY <1>0, <2>1 DEF ClientsOfferNothing
  <2> QED BY <1>2, <2>2, <2>3 DEF BusInv
<1>5. CASE Acknowledged(n)
  <2>1. /\ pending_frame' = [pending_frame EXCEPT ![n] = None]
        /\ UNCHANGED <<tx_queue, halted, grants>>
    BY <1>5 DEF Acknowledged, ReadAck
  <2>2. ClientsOfferNothing'
    BY <1>0, <2>1 DEF ClientsOfferNothing, NodeTypeOK
  <2>3. CASE n = Master /\ pending_frame[n].type = "SetAddress"
    <3>1. PendingIsOffer /\ ~PendingIsOffer' /\ pending_assignment' = None
      BY <1>0, <1>5, <2>1, <2>3
      DEF Acknowledged, ReadAck, AckSettles, PendingIsOffer, IsOffer, NodeTypeOK
    <3>2. QueuedOffers' = {}
      BY <1>0, <2>1, <3>1 DEF HubInv, AssignmentHasFrame, OneOffer, QueuedOffers
    <3> QED BY <1>0, <1>2, <2>1, <2>2, <3>1, <3>2, HubWithoutOffer DEF BusInv
  <2>4. CASE ~(n = Master /\ pending_frame[n].type = "SetAddress")
    <3>1. UNCHANGED <<pending_assignment, next_address, grants, halted, tx_queue>>
      BY <1>5, <2>1, <2>4 DEF Acknowledged, masterVars
    <3>2. \/ pending_frame'[Master] = pending_frame[Master]
          \/ ~PendingIsOffer /\ ~PendingIsOffer'
      BY <1>0, <2>1, <2>4 DEF PendingIsOffer, IsOffer, NodeTypeOK
    <3>3. HubInv'
      BY <1>0, <3>1, <3>2, HubKept
    <3> QED BY <1>2, <2>2, <3>3 DEF BusInv
  <2> QED BY <2>3, <2>4
<1>6. CASE ReceiveSet(n)
  <2>1. /\ Enqueue(n, Ack(Incoming(n).from, address[n], Incoming(n).to))
        /\ UNCHANGED <<pending_frame, pending_assignment, next_address, grants>>
    BY <1>6 DEF ReceiveSet, ReadSet, AckIncoming, masterVars
  <2>2. Ack(Incoming(n).from, address[n], Incoming(n).to) \in Frame
    BY <1>3, FrameConstructors
  <2>3. HubInv' /\ ClientsOfferNothing'
    BY <1>0, <2>1, <2>2, AnswerIsNoOffer, EnqueueInv
  <2> QED BY <1>2, <2>3 DEF BusInv
<1>7. CASE ReceivePing(n)
  <2>1. /\ Enqueue(n, Pong(Incoming(n).from, address[n]))
        /\ UNCHANGED <<pending_frame, pending_assignment, next_address, grants>>
    BY <1>7 DEF ReceivePing, ReadPing, masterVars, historyVars
  <2>2. Pong(Incoming(n).from, address[n]) \in Frame
    BY <1>3, FrameConstructors
  <2>3. HubInv' /\ ClientsOfferNothing'
    BY <1>0, <2>1, <2>2, AnswerIsNoOffer, EnqueueInv
  <2> QED BY <1>2, <2>3 DEF BusInv
<1> QED BY <1>4, <1>5, <1>6, <1>7

LEMMA ClientReadInv ==
    ASSUME ImcpInv, NEW c \in Client,
           AdoptAddress(c) \/ Refuse(c)
    PROVE  HubInv' /\ BusInv' /\ DeviceInv'
<1>0. /\ TypeOK /\ NodeTypeOK /\ HubInv /\ BusInv /\ DeviceInv
      /\ c \in Node /\ c # Master
      /\ OffersOnBus /\ ClientsOfferNothing
  BY ImcpInvParts DEF TypeOK, BusInv
<1>1. Reading(c) /\ TakeFrame(c) /\ UNCHANGED <<masterVars, grants>>
  BY DEF AdoptAddress, ClientAdoptAddress, TakeOffer, Refuse, ClientRefuse, Reads,
         historyVars
<1>2. OffersOnBus'
  BY <1>0, <1>1, BusRead
<1>3. Incoming(c) \in Frame /\ address[c] \in Address
      /\ Incoming(c).from \in Address /\ Incoming(c).to \in Address
  BY <1>0, <1>1, ReadFrame, FrameFields DEF NodeTypeOK
<1>4. CASE AdoptAddress(c)
  <2> DEFINE f == Ack(Incoming(c).from, Incoming(c).address, Incoming(c).to)
  <2>1. /\ node_type[c] = "Joining" /\ Incoming(c).type = "SetAddress"
        /\ Incoming(c).id = node_id[c]
        /\ node_type' = [node_type EXCEPT ![c] = "Ready"]
        /\ node_id' = node_id
        /\ address' = [address EXCEPT ![c] = Incoming(c).address]
        /\ pending_frame' = [pending_frame EXCEPT ![c] = None]
        /\ Enqueue(c, f)
    BY <1>4 DEF AdoptAddress, ClientAdoptAddress, TakeOffer, AckIncoming, Reads
  <2>2. f \in Frame /\ ~IsOffer(f)
    BY <1>3, <2>1, FrameFields, FrameConstructors, AnswerIsNoOffer
  <2> HIDE DEF f
  <2>3. /\ OffersIn(tx_queue'[c]) = OffersIn(tx_queue[c])
        /\ \A m \in Node \ {c} : tx_queue'[m] = tx_queue[m]
    BY <1>0, <2>1, <2>2, EnqueueOffers
  <2>4. HubInv'
    <3>1. Master \in halted => Master \in halted'
      BY <2>1 DEF Enqueue
    <3>2. pending_frame'[Master] = pending_frame[Master]
      BY <1>0, <2>1 DEF NodeTypeOK
    <3> QED BY <1>0, <1>1, <2>3, <3>1, <3>2, HubApart DEF masterVars
  <2>5. ClientsOfferNothing'
    <3>1. \A d \in Client : /\ pending_frame'[d] \in {pending_frame[d], None}
                            /\ OffersIn(tx_queue'[d]) = OffersIn(tx_queue[d])
      BY <1>0, <2>1, <2>3 DEF NodeTypeOK
    <3> QED BY <1>0, <3>1 DEF ClientsOfferNothing
  <2>6. OwnIdentifier'
    BY <1>0, <2>1 DEF DeviceInv, OwnIdentifier, NodeTypeOK
  <2>7. [id |-> Incoming(c).id, address |-> Incoming(c).address] \in grants
    BY <1>0, <1>1, <2>1, IncomingOffer DEF IsGrant
  <2>8. Incoming(c).address \in FirstAddress .. LastAddress
    BY <1>0, <2>7 DEF HubInv, GrantsInPool
  <2>9. AddressWasGranted'
    BY <1>0, <1>1, <2>1, <2>7, <2>8 DEF DeviceInv, AddressWasGranted, NodeTypeOK
  <2> QED BY <1>2, <2>4, <2>5, <2>6, <2>9 DEF BusInv, DeviceInv
<1>5. CASE Refuse(c)
  <2>1. UNCHANGED <<node_type, node_id, address, pending_frame, tx_queue, halted>>
    BY <1>5 DEF Refuse, ClientRefuse
  <2>2. HubInv'
    BY <1>0, <1>1, <2>1, HubApart DEF masterVars
  <2>3. ClientsOfferNothing'
    BY <1>0, <2>1 DEF ClientsOfferNothing
  <2> QED BY <1>0, <1>1, <1>2, <2>1, <2>2, <2>3, DeviceKept DEF BusInv
<1> QED BY <1>4, <1>5

(* An offer that is pending or queued could be the pending assignment.     *)
LEMMA OffersAreAssignments ==
    ASSUME NodeTypeOK
    PROVE  /\ PendingIsOffer =>
                 [id |-> pending_frame[Master].id,
                  address |-> pending_frame[Master].address] # None
           /\ \A i \in QueuedOffers :
                 [id |-> tx_queue[Master][i].id,
                  address |-> tx_queue[Master][i].address] # None
<1>1. ASSUME NEW f \in Frame, IsOffer(f)
      PROVE  [id |-> f.id, address |-> f.address] # None
  BY <1>1, FrameFields, NoAssignmentAssumption DEF IsOffer, Assignment
<1>2. PendingIsOffer => pending_frame[Master] \in Frame /\ IsOffer(pending_frame[Master])
  BY DEF PendingIsOffer, NodeTypeOK
<1>3. \A i \in QueuedOffers :
         tx_queue[Master][i] \in Frame /\ IsOffer(tx_queue[Master][i])
  BY DEF QueuedOffers, OffersIn, NodeTypeOK
<1> QED BY <1>1, <1>2, <1>3

LEMMA MasterReadInv ==
    ASSUME ImcpInv, OfferAddress \/ MasterRefuse
    PROVE  HubInv' /\ BusInv' /\ DeviceInv'
<1>0. /\ TypeOK /\ NodeTypeOK /\ HubInv /\ BusInv /\ DeviceInv
      /\ Master \in Node /\ OffersOnBus /\ ClientsOfferNothing
  BY ImcpInvParts DEF TypeOK, BusInv
<1>1. /\ Reading(Master) /\ TakeFrame(Master)
      /\ UNCHANGED <<node_type, node_id, address, pending_frame>>
  BY DEF OfferAddress, MasterRefuse, Reads
<1>2. grants \subseteq grants'
  BY DEF OfferAddress, MasterRefuse, historyVars
<1>3. OffersOnBus' /\ DeviceInv'
  BY <1>0, <1>1, <1>2, BusRead, DeviceKept
<1>4. CASE OfferAddress
  <2> DEFINE id    == Incoming(Master).id
             offer == [id |-> id, address |-> next_address]
             f     == SetAddress(Unassigned, address[Master], next_address, id)
             q     == tx_queue[Master]
  <2>1. /\ pending_assignment = None /\ pending_assignment' = offer
        /\ grants' = grants \cup {offer} /\ next_address' = next_address
        /\ next_address # Broadcast
        /\ Enqueue(Master, f)
        /\ Incoming(Master).type = "SetAddress" \/ Incoming(Master).type = "Join"
    BY <1>4 DEF OfferAddress, Reads
  <2>2. id \in Id /\ next_address \in FirstAddress .. LastAddress
    <3>1. Incoming(Master) \in Frame
      BY <1>0, <1>1, ReadFrame
    <3> QED BY <1>0, <2>1, <3>1, FrameFields DEF TypeOK, FirstAddress, Broadcast
  <2>3. f \in Frame /\ IsOffer(f) /\ f.id = id /\ f.address = next_address
      /\ f.to = Unassigned
    <3>1. next_address \in Address /\ address[Master] \in Address
      BY <1>0, Addresses DEF NodeTypeOK, TypeOK
    <3> QED BY <2>2, <3>1, Addresses, FrameConstructors DEF SetAddress, IsOffer
  <2>4. offer \in Assignment /\ offer # None
    <3>1. next_address \in Address
      BY <1>0, Addresses DEF TypeOK
    <3> QED BY <2>2, <3>1, NoAssignmentAssumption DEF Assignment
  <2>5. offer.id = id /\ offer.address = next_address
    OBVIOUS
  <2>6. q \in Seq(Frame)
    BY <1>0 DEF NodeTypeOK
  <2>7. \/ tx_queue'[Master] = Append(q, f) /\ halted' = halted
        \/ tx_queue'[Master] = q /\ Master \in halted'
    BY <1>0, <2>1 DEF Enqueue, NodeTypeOK
  <2>8. \A m \in Node \ {Master} : tx_queue'[m] = tx_queue[m]
    BY <1>0, <2>1 DEF Enqueue, NodeTypeOK
  <2>9. ClientsOfferNothing'
    BY <1>0, <1>1, <2>8 DEF ClientsOfferNothing
  <2> HIDE DEF id, offer, f
  <2>10. ~PendingIsOffer /\ QueuedOffers = {}
    BY <1>0, <2>1, OffersAreAssignments
    DEF HubInv, AssignmentHasFrame, OfferIsAssigned, Offered
  <2> HIDE DEF q
  <2>11. ~PendingIsOffer' /\ OffersIn(q) = {}
    BY <1>1, <2>10 DEF PendingIsOffer, QueuedOffers, q
  <2>12. AssignmentIsNext' /\ GrantsInPool'
    BY <1>0, <2>1, <2>2, <2>4, <2>5 DEF AssignmentIsNext, GrantsInPool, HubInv, FirstAddress
  <2>13. CASE tx_queue'[Master] = Append(q, f) /\ halted' = halted
    <3>1. /\ OffersIn(Append(q, f)) = {Len(q) + 1}
          /\ Append(q, f)[Len(q) + 1] = f
      BY <2>3, <2>6, <2>11, OffersAppend
    <3>2. QueuedOffers' = {Len(q) + 1} /\ tx_queue'[Master][Len(q) + 1] = f
      BY <2>13, <3>1 DEF QueuedOffers
    <3>3. f.to = Unassigned /\ pending_assignment' = [id |-> f.id, address |-> f.address]
      BY <2>1, <2>3 DEF offer
    <3>4. AssignmentHasFrame'
      BY <2>11, <3>2, <3>3
      DEF AssignmentHasFrame, OneOffer, OfferIsAssigned, AssignmentIsOffered, Offered
    <3> QED BY <1>3, <2>9, <2>12, <3>4 DEF HubInv, BusInv
  <2>14. CASE tx_queue'[Master] = q /\ Master \in halted'
    <3>1. QueuedOffers' = {}
      BY <2>11, <2>14 DEF QueuedOffers
    <3>2. AssignmentHasFrame'
      BY <2>11, <2>14, <3>1
      DEF AssignmentHasFrame, OneOffer, OfferIsAssigned, AssignmentIsOffered
    <3> QED BY <1>3, <2>9, <2>12, <3>2 DEF HubInv, BusInv
  <2> QED BY <2>7, <2>13, <2>14
<1>5. CASE MasterRefuse
  <2>1. UNCHANGED <<pending_frame, tx_queue, halted, masterVars, grants>>
    BY <1>5 DEF MasterRefuse, historyVars
  <2>2. HubInv'
    BY <1>0, <2>1, HubApart DEF masterVars
  <2>3. ClientsOfferNothing'
    BY <1>0, <2>1 DEF ClientsOfferNothing
  <2> QED BY <1>3, <2>2, <2>3 DEF BusInv
<1> QED BY <1>4, <1>5

(* The tail of a queue without offers has none either.                     *)
LEMMA TailOffersNothing ==
    ASSUME NEW q \in Seq(Frame), q # <<>>, OffersIn(q) = {}
    PROVE  OffersIn(Tail(q)) = {} /\ ~IsOffer(Head(q))
BY OffersTail

LEMMA ClientWriteInv ==
    ASSUME ImcpInv, NEW c \in Client, NEW heard, WriteTick(c, heard)
    PROVE  HubInv' /\ BusInv' /\ DeviceInv'
<1>0. /\ TypeOK /\ NodeTypeOK /\ HubInv /\ BusInv /\ DeviceInv
      /\ c \in Node /\ c # Master
      /\ OffersOnBus /\ ClientsOfferNothing
  BY ImcpInvParts DEF TypeOK, BusInv
<1>1. UNCHANGED <<node_type, node_id, address, halted, masterVars, grants>>
  BY DEF WriteTick, ClientWriteTick, historyVars
<1>2. PICK f \in Frame, rest \in Seq(Frame) :
         Send(c, f, rest, heard) /\ ~IsOffer(f) /\ OffersIn(rest) = {}
  <2>1. CASE Resend(c, heard)
    BY <1>0, <2>1 DEF Resend, NodeTypeOK, ClientsOfferNothing
  <2>2. CASE SendNext(c, heard)
    <3> DEFINE q == tx_queue[c]
    <3>1. /\ q \in Seq(Frame) /\ q # <<>> /\ OffersIn(q) = {}
          /\ Send(c, Head(q), Tail(q), heard)
      BY <1>0, <2>2 DEF SendNext, NodeTypeOK, ClientsOfferNothing
    <3> HIDE DEF q
    <3>2. Head(q) \in Frame /\ Tail(q) \in Seq(Frame)
      BY <3>1
    <3> QED BY <3>1, <3>2, TailOffersNothing
  <2> QED BY <2>1, <2>2 DEF WriteTick, ClientWriteTick
<1>3. OffersOnBus'
  BY <1>0, <1>1, <1>2, BusTransmit DEF Send
<1>4. HubInv'
  <2>1. pending_frame'[Master] = pending_frame[Master] /\ tx_queue'[Master] = tx_queue[Master]
    BY <1>0, <1>2 DEF Send, NodeTypeOK
  <2> QED BY <1>0, <1>1, <2>1, HubApart DEF masterVars
<1>5. ClientsOfferNothing'
  <2>1. \A d \in Client :
           /\ pending_frame'[d] \in {pending_frame[d], f, None}
           /\ tx_queue'[d] \in {tx_queue[d], rest}
    BY <1>0, <1>2 DEF Send, NodeTypeOK
  <2> QED BY <1>0, <1>2, <2>1 DEF ClientsOfferNothing
<1> QED BY <1>0, <1>1, <1>3, <1>4, <1>5, DeviceKept DEF BusInv

(* The frame that leaves the master, and the offers left behind it.        *)
LEMMA MasterWriteInv ==
    ASSUME ImcpInv, NEW heard, MasterWriteTick(heard)
    PROVE  HubInv' /\ BusInv' /\ DeviceInv'
<1>0. /\ TypeOK /\ NodeTypeOK /\ HubInv /\ BusInv /\ DeviceInv
      /\ Master \in Node /\ Master \notin Client /\ Client \subseteq Node
      /\ OffersOnBus /\ ClientsOfferNothing
  BY ImcpInvParts DEF TypeOK, BusInv
<1>1. /\ UNCHANGED <<node_type, node_id, address, halted, grants, next_address>>
      /\ Master \notin halted
  BY DEF MasterWriteTick, MasterSend, MasterGiveUp
<1>2. DeviceInv'
  BY <1>0, <1>1, DeviceKept
<1>3. ASSUME \A c \in Client : /\ pending_frame'[c] = pending_frame[c]
                              /\ tx_queue'[c] = tx_queue[c]
      PROVE  ClientsOfferNothing'
  BY <1>0, <1>3 DEF ClientsOfferNothing
<1>4. \A f, rest : Send(Master, f, rest, heard) =>
         /\ pending_frame'[Master] = IF f.type \in Retained THEN f ELSE None
         /\ tx_queue'[Master] = rest
         /\ ClientsOfferNothing'
         /\ Transmit(f, heard)
  <2> SUFFICES ASSUME NEW f, NEW rest, Send(Master, f, rest, heard)
               PROVE  /\ pending_frame'[Master] = IF f.type \in Retained THEN f ELSE None
                      /\ tx_queue'[Master] = rest
                      /\ ClientsOfferNothing'
                      /\ Transmit(f, heard)
    OBVIOUS
  <2>1. /\ pending_frame' = [pending_frame EXCEPT ![Master] =
                               IF f.type \in Retained THEN f ELSE None]
        /\ tx_queue' = [tx_queue EXCEPT ![Master] = rest]
        /\ Transmit(f, heard)
    BY DEF Send
  <2> QED BY <1>0, <1>3, <2>1 DEF NodeTypeOK
<1>5. CASE MasterSend(heard) /\ Resend(Master, heard)
  <2> DEFINE f == pending_frame[Master]
  <2>1. /\ f \in Frame /\ Send(Master, f, tx_queue[Master], heard)
        /\ pending_assignment' = pending_assignment
    BY <1>0, <1>5 DEF Resend, MasterSend, NodeTypeOK
  <2>2. IsOffer(f) => IsGrant(f)
    BY <1>0, <2>1, NoneAssumption, OffersAreAssignments
    DEF HubInv, AssignmentHasFrame, OfferIsAssigned, AssignmentIsNext, Offered,
        PendingIsOffer, IsGrant
  <2>3. OffersOnBus' /\ ClientsOfferNothing'
    BY <1>0, <1>1, <1>4, <2>1, <2>2, BusTransmit
  <2>4. \/ pending_frame'[Master] = pending_frame[Master]
        \/ ~PendingIsOffer /\ ~PendingIsOffer'
    BY <1>4, <2>1 DEF PendingIsOffer, IsOffer, Retained
  <2>5. HubInv'
    BY <1>0, <1>1, <1>4, <2>1, <2>4, HubKept
  <2> QED BY <1>2, <2>3, <2>5 DEF BusInv
<1>6. CASE MasterSend(heard) /\ SendNext(Master, heard)
  <2> DEFINE q == tx_queue[Master]
             f == Head(q)
  <2>1. /\ Send(Master, f, Tail(q), heard) /\ q \in Seq(Frame) /\ q # <<>>
        /\ pending_assignment' = pending_assignment
        /\ pending_frame[Master] = None
    BY <1>0, <1>6 DEF SendNext, MasterSend, NodeTypeOK
  <2>2. f \in Frame
    BY <2>1
  <2>3. ~PendingIsOffer /\ QueuedOffers = OffersIn(q)
    BY <2>1 DEF PendingIsOffer, QueuedOffers
  <2>4. QueuedOffers' = OffersIn(Tail(q)) /\ tx_queue'[Master] = Tail(q)
    BY <1>4, <2>1 DEF QueuedOffers
  <2>5. ClientsOfferNothing'
    BY <1>4, <2>1
  <2>6. IsOffer(f) => 1 \in OffersIn(q) /\ f = q[1]
    BY <2>1, OffersTail
  <2>7. \A i \in OffersIn(q) : /\ Offered(q[i]) /\ pending_assignment # None
                               /\ \A j \in OffersIn(q) : i = j
    BY <1>0, <2>3, OffersAreAssignments
    DEF HubInv, AssignmentHasFrame, OneOffer, OfferIsAssigned, Offered
  <2>8. IsOffer(f) => IsGrant(f)
    BY <1>0, <2>6, <2>7 DEF HubInv, AssignmentIsNext, Offered, IsGrant
  <2>9. OffersOnBus'
    BY <1>0, <1>1, <1>4, <2>1, <2>2, <2>8, BusTransmit
  <2>10. \A i \in OffersIn(Tail(q)) :
            i + 1 \in OffersIn(q) /\ Tail(q)[i] = q[i + 1] /\ i \in Nat \ {0}
    BY <2>1, OffersTail
  <2>11. AssignmentIsNext' /\ GrantsInPool'
    BY <1>0, <1>1, <2>1 DEF HubInv, AssignmentIsNext, GrantsInPool
  <2>12. pending_frame'[Master] = IF f.type \in Retained THEN f ELSE None
    BY <1>4, <2>1
  <2>13. \A i \in OffersIn(q) : i # 1 => i - 1 \in OffersIn(Tail(q))
    BY <2>1, OffersTail
  <2>14. 1 \in OffersIn(q) => IsOffer(f)
    BY <2>1, OffersTail
  <2> HIDE DEF q, f
  <2>15. CASE IsOffer(f)
    <3>1. PendingIsOffer' /\ pending_frame'[Master] = f
      BY <2>2, <2>12, <2>15, NoneAssumption DEF PendingIsOffer, IsOffer, Retained
    <3>2. QueuedOffers' = {}
      <4> SUFFICES ASSUME NEW i \in OffersIn(Tail(q)) PROVE FALSE
        BY <2>4
      <4>1. i + 1 = 1 /\ i \in Nat \ {0}
        BY <2>6, <2>7, <2>10, <2>15
      <4> QED BY <4>1
    <3>3. f.to = Unassigned /\ pending_assignment' = [id |-> f.id, address |-> f.address]
      BY <2>1, <2>6, <2>7, <2>15 DEF Offered
    <3>4. AssignmentHasFrame'
      BY <3>1, <3>2, <3>3
      DEF AssignmentHasFrame, OneOffer, OfferIsAssigned, AssignmentIsOffered, Offered
    <3> QED BY <1>2, <2>5, <2>9, <2>11, <3>4 DEF HubInv, BusInv
  <2>16. CASE ~IsOffer(f)
    <3>1. ~PendingIsOffer'
      BY <2>12, <2>16 DEF PendingIsOffer
    <3>2. OneOffer'
      <4> SUFFICES ASSUME NEW i \in OffersIn(Tail(q)), NEW j \in OffersIn(Tail(q))
                   PROVE  i = j
        BY <2>4, <3>1 DEF OneOffer
      <4>1. i + 1 = j + 1 /\ i \in Nat /\ j \in Nat
        BY <2>7, <2>10
      <4> QED BY <4>1
    <3>3. OfferIsAssigned'
      BY <2>1, <2>4, <2>7, <2>10, <3>1 DEF OfferIsAssigned, Offered
    <3>4. AssignmentIsOffered'
      <4>1. pending_assignment # None => OffersIn(q) # {}
        BY <1>0, <1>1, <2>3 DEF HubInv, AssignmentHasFrame, AssignmentIsOffered
      <4>2. OffersIn(q) # {} => OffersIn(Tail(q)) # {}
        BY <2>13, <2>14, <2>16
      <4> QED BY <2>1, <2>4, <4>1, <4>2 DEF AssignmentIsOffered
    <3> QED
      BY <1>2, <2>5, <2>9, <2>11, <3>2, <3>3, <3>4
      DEF HubInv, BusInv, AssignmentHasFrame
  <2> QED BY <2>15, <2>16
<1>7. CASE MasterGiveUp(heard)
  <2> DEFINE q    == tx_queue[Master]
             rest == IF pending_frame[Master] # None THEN q ELSE Tail(q)
  <2>1. q \in Seq(Frame) /\ (pending_frame[Master] # None \/ q # <<>>)
    BY <1>0, <1>7 DEF MasterGiveUp, NodeTypeOK
  <2>2. rest \in Seq(Frame)
    BY <2>1
  <2>3. OffersIn(rest) = {}
    <3>1. CASE pending_frame[Master] # None
      BY <1>0, <1>7, <3>1
      DEF MasterGiveUp, GivesUp, HubInv, AssignmentHasFrame, OneOffer,
          PendingIsOffer, IsOffer, QueuedOffers
    <3>2. CASE pending_frame[Master] = None
      <4>1. IsOffer(Head(q)) /\ q # <<>>
        BY <1>7, <2>1, <3>2 DEF MasterGiveUp, GivesUp, IsOffer
      <4>2. 1 \in OffersIn(q)
        BY <2>1, <4>1, OffersTail
      <4>3. \A i, j \in OffersIn(q) : i = j
        BY <1>0 DEF HubInv, AssignmentHasFrame, OneOffer, QueuedOffers
      <4>4. \A i \in OffersIn(Tail(q)) : i + 1 \in OffersIn(q) /\ i \in Nat \ {0}
        BY <2>1, <4>1, OffersTail
      <4>5. OffersIn(Tail(q)) = {}
        <5> SUFFICES ASSUME NEW i \in OffersIn(Tail(q)) PROVE FALSE
          OBVIOUS
        <5>1. i + 1 = 1 /\ i \in Nat \ {0}
          BY <4>2, <4>3, <4>4
        <5> QED BY <5>1
      <4> QED BY <3>2, <4>5
    <3> QED BY <3>1, <3>2
  <2>4. pending_assignment' = None
    BY <1>7 DEF MasterGiveUp
  <2>5. CASE rest = <<>>
    <3>1. /\ pending_frame' = [pending_frame EXCEPT ![Master] = None]
          /\ tx_queue' = [tx_queue EXCEPT ![Master] = <<>>]
          /\ rx' = rx
      BY <1>7, <2>5 DEF MasterGiveUp
    <3>2. ~PendingIsOffer' /\ QueuedOffers' = {} /\ ClientsOfferNothing'
      BY <1>0, <1>3, <3>1 DEF PendingIsOffer, QueuedOffers, OffersIn, NodeTypeOK
    <3>3. OffersOnBus'
      BY <1>0, <1>1, <3>1 DEF OffersOnBus, IsGrant
    <3> QED BY <1>0, <1>1, <1>2, <2>4, <3>2, <3>3, HubWithoutOffer DEF BusInv
  <2>6. CASE rest # <<>>
    <3>1. Send(Master, Head(rest), Tail(rest), heard)
      BY <1>7, <2>6 DEF MasterGiveUp
    <3> HIDE DEF rest
    <3>2. Head(rest) \in Frame
      BY <2>2, <2>6
    <3>3. OffersIn(Tail(rest)) = {} /\ ~IsOffer(Head(rest))
      BY <2>2, <2>3, <2>6, TailOffersNothing
    <3>4. ~PendingIsOffer' /\ QueuedOffers' = {} /\ ClientsOfferNothing'
      BY <1>4, <3>1, <3>3 DEF PendingIsOffer, QueuedOffers
    <3>5. OffersOnBus'
      BY <1>0, <1>1, <1>4, <3>1, <3>2, <3>3, BusTransmit
    <3> QED BY <1>0, <1>1, <1>2, <2>4, <3>4, <3>5, HubWithoutOffer DEF BusInv
  <2> QED BY <2>5, <2>6
<1> QED BY <1>5, <1>6, <1>7 DEF MasterWriteTick, MasterSend

LEMMA ApplicationInv ==
    ASSUME ImcpInv, Application
    PROVE  HubInv' /\ BusInv' /\ DeviceInv'
<1>0. /\ TypeOK /\ NodeTypeOK /\ HubInv /\ BusInv /\ DeviceInv
      /\ Master \in Node /\ Master \notin Client /\ Client \subseteq Node
      /\ OffersOnBus /\ ClientsOfferNothing
  BY ImcpInvParts DEF TypeOK, BusInv
<1>1. ASSUME rx' = rx, grants' = grants PROVE OffersOnBus'
  BY <1>0, <1>1 DEF OffersOnBus, IsGrant
<1>2. ASSUME NEW c \in Client, Connect(c) PROVE HubInv' /\ BusInv' /\ DeviceInv'
  <2> DEFINE id == <<c, restarts[c]>>
             f  == Join(MasterAddress, address[c], id)
  <2>1. /\ Enqueue(c, f)
        /\ UNCHANGED <<pending_frame, pending_assignment, next_address, grants, rx>>
        /\ node_type' = [node_type EXCEPT ![c] = "Joining"]
        /\ node_id' = [node_id EXCEPT ![c] = id]
        /\ address' = address
    BY <1>2 DEF Connect, SendJoin, masterVars, historyVars
  <2>2. id \in Id /\ id[1] = c
    BY <1>0 DEF TypeOK
  <2>3. f \in Frame
    BY <1>0, <2>2, Addresses, FrameConstructors DEF NodeTypeOK
  <2>4. ~IsOffer(f)
    BY AnswerIsNoOffer
  <2> HIDE DEF id, f
  <2>5. HubInv' /\ ClientsOfferNothing'
    BY <1>0, <2>1, <2>3, <2>4, EnqueueInv
  <2>6. DeviceInv'
    BY <1>0, <2>1, <2>2 DEF DeviceInv, OwnIdentifier, AddressWasGranted, NodeTypeOK
  <2> QED BY <1>1, <2>1, <2>5, <2>6 DEF BusInv
<1>3. ASSUME NEW n \in Node, NEW f \in Frame, ~IsOffer(f), Submit(n, f)
      PROVE  HubInv' /\ BusInv' /\ DeviceInv'
  <2>1. /\ TrySend(n, f) /\ UNCHANGED halted
        /\ UNCHANGED <<pending_frame, pending_assignment, next_address, grants>>
        /\ UNCHANGED <<node_type, node_id, address, rx>>
    BY <1>3 DEF Submit, masterVars, historyVars
  <2>2. HubInv' /\ ClientsOfferNothing'
    BY <1>0, <1>3, <2>1, EnqueueInv
  <2> QED BY <1>0, <1>1, <2>1, <2>2, DeviceKept DEF BusInv
<1>4. ASSUME NEW n \in Node, NEW to \in Peer(n), SubmitSet(n, to) \/ SubmitPing(n, to)
      PROVE  HubInv' /\ BusInv' /\ DeviceInv'
  <2>1. to \in Address /\ address[n] \in Address
    BY <1>0, Addresses DEF Peer, NodeTypeOK
  <2>2. CASE SubmitSet(n, to)
    <3>1. sent[n] + 1 \in 1 .. MaxSets
      BY <1>0, <2>2 DEF SubmitSet, Submit, TypeOK
    <3>2. Set(to, address[n], <<n, sent[n] + 1>>) \in Frame
      BY <2>1, <3>1, FrameConstructors
    <3> QED BY <1>3, <2>2, <3>2, AnswerIsNoOffer DEF SubmitSet
  <2>3. CASE SubmitPing(n, to)
    <3>1. Ping(to, address[n]) \in Frame
      BY <2>1, FrameConstructors
    <3> QED BY <1>3, <2>3, <3>1, AnswerIsNoOffer DEF SubmitPing
  <2> QED BY <1>4, <2>2, <2>3
<1> QED BY <1>2, <1>4 DEF Application

LEMMA PowerCycleInv ==
    ASSUME ImcpInv, PowerCycle
    PROVE  HubInv' /\ BusInv' /\ DeviceInv'
<1>0. /\ TypeOK /\ NodeTypeOK /\ HubInv /\ BusInv /\ DeviceInv
      /\ Master \in Node /\ Master \notin Client /\ Client \subseteq Node
      /\ OffersOnBus /\ ClientsOfferNothing
  BY ImcpInvParts DEF TypeOK, BusInv
<1>1. OffersIn(<<>>) = {}
  BY DEF OffersIn
<1>2. ASSUME NEW n \in Node, rx' = [rx EXCEPT ![n] = <<>>], grants' = grants
      PROVE  OffersOnBus'
  BY <1>0, <1>1, <1>2 DEF OffersOnBus, IsGrant, NodeTypeOK
<1>3. ASSUME NEW c \in Client, Restart(c) PROVE HubInv' /\ BusInv' /\ DeviceInv'
  <2>1. /\ node_type' = [node_type EXCEPT ![c] = "NotReady"]
        /\ node_id' = [node_id EXCEPT ![c] = None]
        /\ address' = [address EXCEPT ![c] = Unassigned]
        /\ pending_frame' = [pending_frame EXCEPT ![c] = None]
        /\ tx_queue' = [tx_queue EXCEPT ![c] = <<>>]
        /\ rx' = [rx EXCEPT ![c] = <<>>]
        /\ halted' = halted \ {c}
        /\ UNCHANGED <<pending_assignment, next_address, grants>>
    BY <1>3 DEF Restart, ClientRestart, masterVars, historyVars
  <2>2. OffersOnBus'
    BY <1>0, <1>2, <2>1
  <2>3. HubInv'
    <3>1. /\ Master \in halted => Master \in halted'
          /\ pending_frame'[Master] = pending_frame[Master]
          /\ tx_queue'[Master] = tx_queue[Master]
      BY <1>0, <2>1 DEF NodeTypeOK
    <3> QED BY <1>0, <2>1, <3>1, HubApart
  <2>4. ClientsOfferNothing'
    BY <1>0, <1>1, <2>1 DEF ClientsOfferNothing, NodeTypeOK
  <2>5. DeviceInv'
    BY <1>0, <2>1 DEF DeviceInv, OwnIdentifier, AddressWasGranted, NodeTypeOK
  <2> QED BY <2>2, <2>3, <2>4, <2>5 DEF BusInv
<1>4. CASE RestartMaster
  <2>1. /\ pending_frame' = [pending_frame EXCEPT ![Master] = None]
        /\ tx_queue' = [tx_queue EXCEPT ![Master] = <<>>]
        /\ rx' = [rx EXCEPT ![Master] = <<>>]
        /\ pending_assignment' = None
        /\ UNCHANGED <<node_type, node_id, address, grants>>
    BY <1>4 DEF RestartMaster
  <2>2. OffersOnBus' /\ DeviceInv'
    BY <1>0, <1>2, <2>1, DeviceKept
  <2>3. ~PendingIsOffer' /\ QueuedOffers' = {}
    BY <1>0, <1>1, <2>1 DEF PendingIsOffer, QueuedOffers, NodeTypeOK
  <2>4. HubInv'
    BY <1>0, <2>1, <2>3, HubWithoutOffer
  <2>5. ClientsOfferNothing'
    BY <1>0, <2>1 DEF ClientsOfferNothing, NodeTypeOK
  <2> QED BY <2>2, <2>4, <2>5 DEF BusInv
<1> QED BY <1>3, <1>4 DEF PowerCycle

-----------------------------------------------------------------------------
LEMMA InitInv == Init => ImcpInv
<1> SUFFICES ASSUME Init PROVE ImcpInv
  OBVIOUS
<1>1. OffersIn(<<>>) = {}
  BY DEF OffersIn
<1>2. /\ \A n \in Node : pending_frame[n] = None /\ tx_queue[n] = <<>> /\ rx[n] = <<>>
      /\ \A c \in Client : node_type[c] = "NotReady"
      /\ pending_assignment = None /\ grants = {} /\ Master \in Node
  BY DEF Init
<1>3. HubInv
  BY <1>1, <1>2
  DEF HubInv, AssignmentHasFrame, OneOffer, OfferIsAssigned, AssignmentIsOffered,
      AssignmentIsNext, GrantsInPool, PendingIsOffer, QueuedOffers
<1>4. BusInv
  BY <1>1, <1>2 DEF BusInv, OffersOnBus, IsGrant, ClientsOfferNothing
<1>5. DeviceInv
  BY <1>2 DEF DeviceInv, OwnIdentifier, AddressWasGranted
<1> QED BY <1>3, <1>4, <1>5, InitType, ImcpInvParts

LEMMA NextInv ==
    ASSUME ImcpInv, [Next]_vars
    PROVE  ImcpInv'
<1>1. TypeOK'
  BY NextType DEF ImcpInv
<1>2. HubInv' /\ BusInv' /\ DeviceInv'
  <2>1. CASE Write
    BY <2>1, ClientWriteInv, MasterWriteInv DEF Write
  <2>2. CASE Read
    BY <2>2, NodeReadInv, ClientReadInv, MasterReadInv DEF Read
  <2>3. CASE Application
    BY <2>3, ApplicationInv
  <2>4. CASE PowerCycle
    BY <2>4, PowerCycleInv
  <2>5. CASE UNCHANGED vars
    <3>1. UNCHANGED <<node_type, node_id, address, pending_frame, tx_queue, rx,
                      halted, next_address, pending_assignment, grants>>
      BY <2>5 DEF vars, nodeVars, masterVars, historyVars
    <3>2. HubInv /\ BusInv /\ DeviceInv /\ TypeOK
      BY ImcpInvParts
    <3> QED BY <3>1, <3>2, HubApart, DeviceKept
            DEF BusInv, OffersOnBus, IsGrant, ClientsOfferNothing
  <2> QED BY <2>1, <2>2, <2>3, <2>4, <2>5 DEF Next
<1> QED BY <1>1, <1>2 DEF ImcpInv, HubInv, BusInv, DeviceInv

(* The inductive invariant of the address assignment.                      *)
THEOREM Invariant == Spec => []ImcpInv
BY InitInv, NextInv, PTL DEF Spec

(* One SetAddress stands for the pending assignment, however Joins, Acks,  *)
(* retransmissions and the give-up are interleaved.                        *)
THEOREM AssignmentFrame == Spec => []AssignmentHasFrame
<1>1. ImcpInv => AssignmentHasFrame
  BY DEF ImcpInv
<1> QED BY <1>1, Invariant, PTL

(* A ready device has an address that was offered to its own identifier.   *)
THEOREM Granted == Spec => []AddressWasGranted
<1>1. ImcpInv => AddressWasGranted
  BY DEF ImcpInv
<1> QED BY <1>1, Invariant, PTL

(* No SetAddress on the bus reaches a device that has its address: the     *)
(* branch that acknowledges one again is never taken.                      *)
THEOREM Unheard == Spec => []DuplicateUnheard
<1>1. ImcpInv => DuplicateUnheard
  <2> SUFFICES ASSUME ImcpInv, NEW c \in Client, node_type[c] = "Ready",
                      rx[c] # <<>>, IsOffer(Incoming(c)), Addressed(c)
               PROVE  FALSE
    BY DEF DuplicateUnheard
  <2>1. rx[c] \in Seq(Frame) /\ c \in Node
    BY DEF ImcpInv, TypeOK, NodeTypeOK
  <2>2. 1 \in OffersIn(rx[c]) /\ Incoming(c) = rx[c][1]
    BY <2>1, OffersTail DEF Incoming
  <2>3. Incoming(c).to = Unassigned
    BY <2>1, <2>2 DEF ImcpInv, OffersOnBus, IsGrant
  <2>4. address[c] \in FirstAddress .. LastAddress
    BY DEF ImcpInv, AddressWasGranted
  <2> QED BY <2>3, <2>4 DEF Addressed, FirstAddress, Unassigned, Broadcast
<1> QED BY <1>1, Invariant, PTL

-----------------------------------------------------------------------------
(* Imcp implements AddressPool, and so keeps the addresses apart.          *)

(* What the pool assumes of its parameters holds of those of Imcp.         *)
LEMMA PoolParameters == Pool!PoolParameters
<1>1. [id : Client \X (0 .. MaxRestarts), address : FirstAddress .. LastAddress]
        \subseteq Assignment
  BY Addresses DEF Assignment, Address, FirstAddress, Unassigned, Broadcast
<1>2. FirstAddress \in Nat /\ LastAddress \in Nat /\ FirstAddress <= LastAddress
  BY Addresses DEF FirstAddress
<1> QED BY <1>1, <1>2, NoAssignmentAssumption
        DEF Pool!PoolParameters, Pool!Assignment, Pool!Identity

(* The pool by itself.                                                     *)

(* The next offer is for an address that no standing offer names: every    *)
(* earlier offer of it was given up, so the offers stay apart.             *)
LEMMA OfferKeepsInv ==
    ASSUME Pool!PoolInv, NEW id \in Pool!Identity, Pool!Offer(id)
    PROVE  Pool!PoolInv'
<1> DEFINE g == [id |-> id, address |-> next_address]
<1>1. g \in Pool!Assignment /\ g # None
      /\ pending_assignment' = g /\ grants' = grants \cup {g}
  BY PoolParameters
  DEF Pool!PoolParameters, Pool!Offer, Pool!PoolInv, Pool!TypeOK, Pool!Assignment
<1>2. Pool!TypeOK'
  BY <1>1 DEF Pool!Offer, Pool!PoolInv, Pool!TypeOK
<1>3. \A h \in grants : h.address < next_address \/ h.address \in forgotten
  BY PoolParameters
  DEF Pool!PoolParameters, Pool!Offer, Pool!PoolInv, Pool!TypeOK, Pool!OfferedBelow
<1>4. \A h \in grants : h.address = next_address => h.address \in forgotten
  BY <1>3, PoolParameters DEF Pool!PoolParameters, Pool!PoolInv, Pool!TypeOK
<1>5. Pool!OfferedOnce'
  BY <1>1, <1>4 DEF Pool!Offer, Pool!PoolInv, Pool!OfferedOnce
<1>6. Pool!OfferedBelow'
  BY <1>1, <1>3 DEF Pool!Offer, Pool!OfferedBelow
<1>7. Pool!HeldWasOffered' /\ Pool!OfferIsNext'
  BY <1>1 DEF Pool!Offer, Pool!PoolInv, Pool!HeldWasOffered, Pool!OfferIsNext
<1> QED BY <1>2, <1>5, <1>6, <1>7 DEF Pool!PoolInv

(* The end of an offer leaves its address below next, or forgotten.        *)
LEMMA EndOfOfferKeepsInv ==
    ASSUME Pool!PoolInv, Pool!Confirm \/ Pool!GiveUp
    PROVE  Pool!PoolInv'
<1>1. /\ pending_assignment \in Pool!Assignment /\ pending_assignment \in grants
      /\ pending_assignment.address = next_address
  BY DEF Pool!Confirm, Pool!GiveUp, Pool!PoolInv, Pool!TypeOK, Pool!OfferIsNext
<1>2. next_address \in FirstAddress .. LastAddress
  BY <1>1 DEF Pool!Assignment
<1>3. CASE Pool!Confirm
  <2>1. Pool!TypeOK'
    BY <1>2, <1>3, PoolParameters
    DEF Pool!PoolParameters, Pool!Confirm, Pool!PoolInv, Pool!TypeOK
  <2>2. \A g \in grants : g.address \in Int
    BY PoolParameters DEF Pool!PoolParameters, Pool!PoolInv, Pool!TypeOK, Pool!Assignment
  <2>3. Pool!OfferedBelow'
    BY <1>1, <1>2, <1>3, <2>2 DEF Pool!Confirm, Pool!PoolInv, Pool!OfferedBelow
  <2> QED
    BY <1>3, <2>1, <2>3
    DEF Pool!Confirm, Pool!PoolInv, Pool!OfferedOnce, Pool!HeldWasOffered,
        Pool!OfferIsNext
<1>4. CASE Pool!GiveUp
  <2>1. Pool!TypeOK'
    BY <1>1, <1>2, <1>4 DEF Pool!GiveUp, Pool!PoolInv, Pool!TypeOK
  <2>2. Pool!OfferedBelow'
    BY <1>1, <1>4 DEF Pool!GiveUp, Pool!PoolInv, Pool!OfferedBelow
  <2> QED
    BY <1>4, <2>1, <2>2
    DEF Pool!GiveUp, Pool!PoolInv, Pool!OfferedOnce, Pool!HeldWasOffered,
        Pool!OfferIsNext
<1> QED BY <1>3, <1>4

(* The offers stay apart in every reachable state of the pool, whatever is *)
(* given up, taken late or forgotten.                                      *)
THEOREM PoolInvariant == PoolSpec => []Pool!PoolInv
<1>1. Pool!Init => Pool!PoolInv
  BY PoolParameters
  DEF Pool!PoolParameters, Pool!Init, Pool!PoolInv, Pool!TypeOK, Pool!OfferedOnce,
      Pool!OfferedBelow, Pool!HeldWasOffered, Pool!OfferIsNext
<1>2. Pool!PoolInv /\ [Pool!Next]_Pool!vars => Pool!PoolInv'
  <2> SUFFICES ASSUME Pool!PoolInv, [Pool!Next]_Pool!vars PROVE Pool!PoolInv'
    OBVIOUS
  <2> USE DEF Pool!PoolInv, Pool!TypeOK, Pool!OfferedOnce, Pool!OfferedBelow,
              Pool!HeldWasOffered, Pool!OfferIsNext
  <2>1. ASSUME NEW id \in Pool!Identity, Pool!Offer(id) PROVE Pool!PoolInv'
    BY <2>1, OfferKeepsInv
  <2>2. CASE Pool!Confirm \/ Pool!GiveUp
    BY <2>2, EndOfOfferKeepsInv
  <2>3. ASSUME NEW d \in Client, NEW g \in grants, Pool!Take(d, g) PROVE Pool!PoolInv'
    BY <2>3, PoolParameters DEF Pool!PoolParameters, Pool!Take
  <2>4. ASSUME NEW d \in Client, Pool!Leave(d) PROVE Pool!PoolInv'
    BY <2>4 DEF Pool!Leave
  <2>5. CASE Pool!Forget
    BY <2>5, PoolParameters DEF Pool!PoolParameters, Pool!Forget, Pool!Assignment
  <2>6. CASE UNCHANGED Pool!vars
    BY <2>6 DEF Pool!vars
  <2> QED
    BY <2>1, <2>2, <2>3, <2>4, <2>5, <2>6 DEF Pool!Next
<1> QED BY <1>1, <1>2, PTL DEF PoolSpec, Pool!Spec

(* Devices with different identifiers share an address only when an offer  *)
(* of it was given up: what the hub owes to every device.                  *)
THEOREM PoolUnique == PoolSpec => []Pool!Unique
<1>1. Pool!PoolInv => Pool!Unique
  BY DEF Pool!PoolInv, Pool!OfferedOnce, Pool!HeldWasOffered, Pool!Unique
<1> QED BY <1>1, PoolInvariant, PTL

(* The step simulation: the steps of the assignment are those of the pool, *)
(* every other step leaves the pool as it is.                              *)
LEMMA Stutter ==
    ASSUME UNCHANGED <<masterVars, grants, forgotten, node_type, node_id, address>>
    PROVE  UNCHANGED Pool!vars
BY DEF Pool!vars, Holding, masterVars

LEMMA NodeReadPool ==
    ASSUME ImcpInv, NEW n \in Node,
           Ignore(n) \/ Acknowledged(n) \/ ReceiveSet(n) \/ ReceivePing(n)
    PROVE  [Pool!Next]_Pool!vars
<1>1. UNCHANGED <<node_type, node_id, address, grants, forgotten>>
  BY DEF Ignore, ReadIgnored, Acknowledged, ReadAck, ReceiveSet, ReadSet,
         ReceivePing, ReadPing, historyVars
<1>2. CASE Acknowledged(n) /\ n = Master /\ pending_frame[n].type = "SetAddress"
  <2>1. /\ PendingIsOffer /\ pending_assignment' = None
        /\ next_address' = IF next_address >= LastAddress THEN Broadcast
                           ELSE next_address + 1
    BY <1>2 DEF Acknowledged, ReadAck, AckSettles, PendingIsOffer, IsOffer
  <2>2. NodeTypeOK
    BY DEF ImcpInv, TypeOK
  <2>3. pending_assignment # None
    BY <2>1, <2>2, OffersAreAssignments
    DEF ImcpInv, AssignmentHasFrame, OfferIsAssigned, Offered
  <2>4. next_address' = next_address + 1
    BY <2>1, <2>3 DEF ImcpInv, AssignmentIsNext, Broadcast, TypeOK, FirstAddress
  <2>5. Holding' = Holding
    BY <1>1 DEF Holding
  <2> QED BY <1>1, <2>1, <2>3, <2>4, <2>5 DEF Pool!Next, Pool!Confirm
<1>3. CASE ~(Acknowledged(n) /\ n = Master /\ pending_frame[n].type = "SetAddress")
  <2>1. UNCHANGED masterVars
    BY <1>3 DEF Ignore, Acknowledged, ReceiveSet, ReceivePing
  <2> QED BY <1>1, <2>1, Stutter
<1> QED BY <1>2, <1>3

LEMMA ClientReadPool ==
    ASSUME ImcpInv, NEW c \in Client,
           AdoptAddress(c) \/ Refuse(c)
    PROVE  [Pool!Next]_Pool!vars
<1>1. UNCHANGED <<masterVars, grants, forgotten>>
  BY DEF AdoptAddress, Refuse, historyVars
<1>2. CASE AdoptAddress(c)
  <2> DEFINE g == [id |-> node_id[c], address |-> Incoming(c).address]
  <2>1. /\ node_type[c] = "Joining" /\ Incoming(c).type = "SetAddress"
        /\ Incoming(c).id = node_id[c] /\ Reading(c)
        /\ node_type' = [node_type EXCEPT ![c] = "Ready"]
        /\ node_id' = node_id
        /\ address' = [address EXCEPT ![c] = Incoming(c).address]
    BY <1>2 DEF AdoptAddress, ClientAdoptAddress, TakeOffer, Reads
  <2>2. NodeTypeOK /\ c \in Node /\ OffersOnBus /\ OwnIdentifier
    BY DEF ImcpInv, TypeOK
  <2>3. g \in grants
    BY <2>1, <2>2, IncomingOffer DEF IsGrant
  <2>4. g.id[1] = c
    BY <2>1, <2>2 DEF OwnIdentifier
  <2>5. Holding[c] = None
    BY <2>1 DEF Holding
  <2>6. Holding' = [Holding EXCEPT ![c] = g]
    BY <2>1, <2>2 DEF Holding, NodeTypeOK
  <2>7. Pool!Take(c, g)
    BY <1>1, <2>4, <2>5, <2>6 DEF Pool!Take, masterVars
  <2> QED BY <2>3, <2>7 DEF Pool!Next
<1>3. CASE Refuse(c)
  <2>1. UNCHANGED <<node_type, node_id, address>>
    BY <1>3 DEF Refuse, ClientRefuse
  <2> QED BY <1>1, <2>1, Stutter
<1> QED BY <1>2, <1>3

LEMMA MasterReadPool ==
    ASSUME ImcpInv, OfferAddress \/ MasterRefuse
    PROVE  [Pool!Next]_Pool!vars
<1>1. UNCHANGED <<node_type, node_id, address, forgotten>>
  BY DEF OfferAddress, MasterRefuse, historyVars
<1>2. CASE OfferAddress
  <2> DEFINE id == Incoming(Master).id
  <2>1. /\ Reading(Master) /\ TakeFrame(Master) /\ Incoming(Master).type = "Join"
        /\ pending_assignment = None /\ next_address # Broadcast
        /\ pending_assignment' = [id |-> id, address |-> next_address]
        /\ grants' = grants \cup {[id |-> id, address |-> next_address]}
        /\ next_address' = next_address
    BY <1>2 DEF OfferAddress, Reads
  <2>2. NodeTypeOK /\ Master \in Node
    BY DEF ImcpInv, TypeOK
  <2>3. Incoming(Master) \in Frame
    BY <2>1, <2>2, ReadFrame
  <2>4. id \in Id
    BY <2>1, <2>3, FrameFields
  <2>5. next_address <= LastAddress
    BY <2>1 DEF ImcpInv, TypeOK, FirstAddress, Broadcast
  <2>6. Holding' = Holding
    BY <1>1 DEF Holding
  <2>7. Pool!Offer(id)
    BY <1>1, <2>1, <2>5, <2>6 DEF Pool!Offer
  <2> QED BY <2>4, <2>7 DEF Pool!Next, Pool!Identity
<1>3. CASE MasterRefuse
  <2>1. UNCHANGED <<masterVars, grants>>
    BY <1>3 DEF MasterRefuse, historyVars
  <2> QED BY <1>1, <2>1, Stutter
<1> QED BY <1>2, <1>3

LEMMA WritePool ==
    ASSUME ImcpInv, Write
    PROVE  [Pool!Next]_Pool!vars
<1>1. ASSUME NEW c \in Client, NEW heard, WriteTick(c, heard)
      PROVE  [Pool!Next]_Pool!vars
  BY <1>1, Stutter DEF WriteTick, ClientWriteTick, historyVars
<1>2. ASSUME NEW heard, MasterWriteTick(heard)
      PROVE  [Pool!Next]_Pool!vars
  <2>1. UNCHANGED <<node_type, node_id, address, grants, next_address>>
    BY <1>2 DEF MasterWriteTick, MasterSend, MasterGiveUp
  <2>2. Holding' = Holding
    BY <2>1 DEF Holding
  <2>3. CASE MasterSend(heard)
    BY <2>1, <2>2, <2>3 DEF MasterSend, Pool!vars
  <2>4. CASE MasterGiveUp(heard)
    <3>1. CASE pending_assignment = None
      BY <2>1, <2>2, <2>4, <3>1 DEF MasterGiveUp, Pool!vars
    <3>2. CASE pending_assignment # None
      BY <2>1, <2>2, <2>4, <3>2 DEF MasterGiveUp, Pool!GiveUp, Pool!Next
    <3> QED BY <3>1, <3>2
  <2> QED BY <1>2, <2>3, <2>4 DEF MasterWriteTick
<1> QED BY <1>1, <1>2 DEF Write

LEMMA RestPool ==
    ASSUME ImcpInv, Application \/ PowerCycle \/ UNCHANGED vars
    PROVE  [Pool!Next]_Pool!vars
<1>0. NodeTypeOK
  BY DEF ImcpInv, TypeOK
<1>1. ASSUME NEW c \in Client, Connect(c) PROVE [Pool!Next]_Pool!vars
  <2>1. /\ node_type[c] = "NotReady"
        /\ node_type' = [node_type EXCEPT ![c] = "Joining"]
        /\ node_id' = [node_id EXCEPT ![c] = <<c, restarts[c]>>]
        /\ UNCHANGED <<address, masterVars, grants, forgotten>>
    BY <1>1 DEF Connect, SendJoin, historyVars
  <2>2. Holding' = Holding
    BY <1>0, <2>1 DEF Holding, NodeTypeOK
  <2> QED BY <2>1, <2>2 DEF Pool!vars, masterVars
<1>2. ASSUME NEW n \in Node, NEW f, Submit(n, f) PROVE [Pool!Next]_Pool!vars
  BY <1>2, Stutter DEF Submit, historyVars
<1>3. ASSUME NEW c \in Client, Restart(c) PROVE [Pool!Next]_Pool!vars
  <2>1. /\ node_type' = [node_type EXCEPT ![c] = "NotReady"]
        /\ node_id' = [node_id EXCEPT ![c] = None]
        /\ address' = [address EXCEPT ![c] = Unassigned]
        /\ UNCHANGED <<masterVars, grants, forgotten>>
    BY <1>3 DEF Restart, ClientRestart, historyVars
  <2>2. Holding' = [Holding EXCEPT ![c] = None]
    BY <1>0, <2>1 DEF Holding, NodeTypeOK
  <2>3. Pool!Leave(c)
    BY <2>1, <2>2 DEF Pool!Leave, masterVars
  <2> QED BY <2>3 DEF Pool!Next
<1>4. CASE RestartMaster
  <2>1. Holding' = Holding
    BY <1>4 DEF RestartMaster, Holding
  <2> QED BY <1>4, <2>1 DEF RestartMaster, Pool!Forget, Pool!Next
<1>5. CASE UNCHANGED vars
  BY <1>5, Stutter DEF vars, nodeVars, historyVars
<1> QED
  BY <1>1, <1>2, <1>3, <1>4, <1>5
  DEF Application, PowerCycle, SubmitSet, SubmitPing

-----------------------------------------------------------------------------
(* The protocol implements the address pool: every run of Imcp, seen       *)
(* through the refinement mapping, is a run of AddressPool.                *)
THEOREM Refinement == Spec => PoolSpec
<1>1. Init => Pool!Init
  BY DEF Init, Pool!Init, Holding
<1>2. ImcpInv /\ [Next]_vars => [Pool!Next]_Pool!vars
  BY NodeReadPool, ClientReadPool, MasterReadPool, WritePool, RestPool
  DEF Next, Read
<1> QED BY <1>1, <1>2, Invariant, PTL DEF Spec, PoolSpec, Pool!Spec

(* Two ready devices answer to one address only if the hub gave an offer   *)
(* of that address up or restarted.                                        *)
THEOREM UniqueAddresses == Spec => []UniqueUnlessForgotten
<1>1. ImcpInv /\ Pool!Unique => UniqueUnlessForgotten
  <2> SUFFICES ASSUME ImcpInv, Pool!Unique, NEW c \in Client, NEW d \in Client,
                      node_type[c] = "Ready", node_type[d] = "Ready", c # d,
                      address[c] = address[d]
               PROVE  address[c] \in forgotten
    BY DEF UniqueUnlessForgotten
  <2>1. /\ Holding[c] = [id |-> node_id[c], address |-> address[c]]
        /\ Holding[d] = [id |-> node_id[d], address |-> address[d]]
    BY DEF Holding
  <2>2. Holding[c] # None /\ Holding[d] # None
    <3>1. Holding[c] \in Assignment /\ Holding[d] \in Assignment
      BY <2>1 DEF ImcpInv, AddressWasGranted, TypeOK
    <3> QED BY <3>1, NoAssignmentAssumption
  <2> QED BY <2>1, <2>2 DEF Pool!Unique
<1> QED BY <1>1, PoolUnique, Refinement, Invariant, PTL

-----------------------------------------------------------------------------
(* A joining device asks until it is answered.  What could end its asking  *)
(* is an Ack it takes for its own; but Acks go to those that sent a Set or *)
(* a SetAddress, and those have an address while a joining device has not. *)

Proper(f) ==
    /\ f.type \in {"Set", "SetAddress"} => f.from \notin {Unassigned, Broadcast}
    /\ f.type = "Ack" => f.to \notin {Unassigned, Broadcast}

ProperFrames ==
    \A n \in Node : /\ \A f \in Queued(n) : Proper(f)
                    /\ \A i \in DOMAIN rx[n] : Proper(rx[n][i])

Unjoined ==
    /\ address[Master] = MasterAddress
    /\ \A c \in Client :
          node_type[c] \in {"NotReady", "Joining"} => address[c] = Unassigned

JoinInv == ImcpInv /\ ProperFrames /\ Unjoined /\ JoiningAsks

LEMMA UnjoinedNext ==
    ASSUME TypeOK, Unjoined, Next
    PROVE  Unjoined'
<1>0. /\ address \in [Node -> Address] /\ Master \in Node /\ Client \subseteq Node
      /\ node_type \in [Node -> {"Master", "NotReady", "Joining", "Ready"}]
      /\ Master \notin Client
  BY DEF TypeOK, NodeTypeOK
<1>1. ASSUME UNCHANGED <<node_type, address>> PROVE Unjoined'
  BY <1>1 DEF Unjoined
<1>2. CASE Write
  BY <1>1, <1>2 DEF Write, MasterWriteTick, WriteTick, ClientWriteTick
<1>3. ASSUME NEW c \in Client, AdoptAddress(c) PROVE Unjoined'
  <2>1. /\ address' = [address EXCEPT ![c] = Incoming(c).address]
        /\ node_type' = [node_type EXCEPT ![c] = "Ready"]
    BY <1>3 DEF AdoptAddress, ClientAdoptAddress, TakeOffer
  <2>2. address'[Master] = address[Master] /\ node_type'[c] = "Ready"
        /\ \A d \in Client \ {c} : address'[d] = address[d] /\ node_type'[d] = node_type[d]
    BY <1>0, <2>1
  <2> QED BY <2>2 DEF Unjoined
<1>4. ASSUME NEW n \in Node, Ignore(n) \/ Acknowledged(n) \/ ReceiveSet(n) \/ ReceivePing(n)
      PROVE  Unjoined'
  BY <1>1, <1>4 DEF Ignore, ReadIgnored, Acknowledged, ReadAck, ReceiveSet, ReadSet,
                    ReceivePing, ReadPing
<1>5. ASSUME NEW c \in Client, Refuse(c) PROVE Unjoined'
  BY <1>1, <1>5 DEF Refuse, ClientRefuse
<1>6. CASE OfferAddress \/ MasterRefuse
  BY <1>1, <1>6 DEF OfferAddress, MasterRefuse
<1>7. ASSUME NEW c \in Client, Connect(c) PROVE Unjoined'
  <2>1. /\ node_type[c] = "NotReady" /\ UNCHANGED address
        /\ node_type' = [node_type EXCEPT ![c] = "Joining"]
    BY <1>7 DEF Connect, SendJoin
  <2>2. \A d \in Client : d # c => node_type'[d] = node_type[d]
    BY <1>0, <2>1
  <2> QED BY <2>1, <2>2 DEF Unjoined
<1>8. ASSUME NEW n \in Node, NEW to, SubmitSet(n, to) \/ SubmitPing(n, to) PROVE Unjoined'
  BY <1>1, <1>8 DEF SubmitSet, SubmitPing, Submit
<1>9. ASSUME NEW c \in Client, Restart(c) PROVE Unjoined'
  <2>1. /\ address' = [address EXCEPT ![c] = Unassigned]
        /\ node_type' = [node_type EXCEPT ![c] = "NotReady"]
    BY <1>9 DEF Restart, ClientRestart
  <2>2. address'[Master] = address[Master] /\ address'[c] = Unassigned
        /\ \A d \in Client \ {c} : address'[d] = address[d] /\ node_type'[d] = node_type[d]
    BY <1>0, <2>1
  <2> QED BY <2>2 DEF Unjoined
<1>10. CASE RestartMaster
  BY <1>1, <1>10 DEF RestartMaster
<1> QED
  BY <1>2, <1>3, <1>4, <1>5, <1>6, <1>7, <1>8, <1>9, <1>10
  DEF Next, Read, Application, PowerCycle

(* Who sends a Set or an offer has an address, so its Ack has a receiver.  *)
LEMMA ProperNext ==
    ASSUME ImcpInv, ProperFrames, Unjoined, Next
    PROVE  ProperFrames'
<1>0. TypeOK /\ NodeTypeOK
  BY DEF ImcpInv, TypeOK
<1>1. ASSUME NEW n \in Node, node_type[n] \in {"Master", "Ready"}
      PROVE  address[n] \notin {Unassigned, Broadcast}
  <2>1. CASE n = Master
    BY <2>1 DEF Unjoined, MasterAddress, Unassigned, Broadcast
  <2>2. CASE n # Master
    <3>1. n \in Client /\ node_type[n] = "Ready"
      BY <1>0, <1>1, <2>2 DEF TypeOK
    <3>2. address[n] \in FirstAddress .. LastAddress
      BY <3>1 DEF ImcpInv, AddressWasGranted
    <3> QED BY <3>2 DEF FirstAddress, Unassigned, Broadcast
  <2> QED BY <2>1, <2>2
<1>2. ASSUME NEW n \in Node, NEW f, IsSubmitted(n, f) PROVE Proper(f)
  BY <1>1, <1>2 DEF IsSubmitted, Proper
<1>3. ASSUME NEW n \in Node, Reading(n) PROVE Proper(Incoming(n))
  <2>1. rx[n] \in Seq(Frame) /\ rx[n] # <<>>
    BY <1>0, <1>3 DEF NodeTypeOK, Reading
  <2>2. Incoming(n) = rx[n][1] /\ 1 \in DOMAIN rx[n]
    BY <2>1, TailElements DEF Incoming
  <2> QED BY <2>2 DEF ProperFrames
<1>4. ASSUME NEW n \in Node, NEW f, Reading(n), IsReply(n, f) PROVE Proper(f)
  <2>1. CASE f.type = "SetAddress"
    BY <1>4, <2>1 DEF IsReply, Proper, Unjoined, MasterAddress, Unassigned, Broadcast
  <2>2. CASE f.type # "SetAddress"
    BY <1>3, <1>4, <2>2 DEF IsReply, Proper
  <2> QED BY <2>1, <2>2
<1> SUFFICES ASSUME NEW n \in Node
             PROVE  /\ \A f \in Queued(n)' : Proper(f)
                    /\ \A i \in DOMAIN rx'[n] : Proper(rx'[n][i])
  BY DEF ProperFrames, Queued
<1>5. /\ \A f \in Queued(n)' : \/ f \in Queued(n)
                               \/ Reading(n) /\ IsReply(n, f)
                               \/ IsSubmitted(n, f)
      /\ \A i \in DOMAIN rx'[n] : \/ \E j \in DOMAIN rx[n] : rx'[n][i] = rx[n][j]
                                  \/ \E m \in Node : rx'[n][i] \in Queued(m)
  BY <1>0, FramesFlow
<1>6. ASSUME NEW f \in Queued(n)' PROVE Proper(f)
  BY <1>2, <1>4, <1>5, <1>6 DEF ProperFrames
<1>7. ASSUME NEW i \in DOMAIN rx'[n] PROVE Proper(rx'[n][i])
  BY <1>5, <1>7 DEF ProperFrames
<1> QED BY <1>6, <1>7

IsJoin(f) == f # None /\ f.type = "Join"

Asks(c) ==
    \/ IsJoin(pending_frame[c])
    \/ \E i \in DOMAIN tx_queue[c] : tx_queue[c][i].type = "Join"

LEMMA AsksKept ==
    ASSUME NodeTypeOK, NEW c \in Node, Asks(c), pending_frame'[c] = pending_frame[c],
           \/ tx_queue'[c] = tx_queue[c]
           \/ \E f \in Frame : tx_queue'[c] = Append(tx_queue[c], f)
    PROVE  Asks(c)'
<1>1. CASE tx_queue'[c] = tx_queue[c]
  BY <1>1 DEF Asks
<1>2. ASSUME NEW f \in Frame, tx_queue'[c] = Append(tx_queue[c], f) PROVE Asks(c)'
  <2>1. tx_queue[c] \in Seq(Frame)
    BY DEF NodeTypeOK
  <2>2. \A i \in DOMAIN tx_queue[c] : i \in DOMAIN tx_queue'[c] /\ tx_queue'[c][i] = tx_queue[c][i]
    BY <1>2, <2>1, AppendElements
  <2> QED BY <2>2 DEF Asks
<1> QED BY <1>1, <1>2

(* A Join that is written stays pending, and what goes before leaves it.   *)
LEMMA AsksWrite ==
    ASSUME NodeTypeOK, NEW c \in Node, NEW heard, Asks(c),
           Resend(c, heard) \/ SendNext(c, heard)
    PROVE  Asks(c)'
<1>1. CASE Resend(c, heard)
  <2>1. /\ pending_frame'[c] = IF pending_frame[c].type \in Retained
                               THEN pending_frame[c] ELSE None
        /\ tx_queue'[c] = tx_queue[c] /\ pending_frame[c] # None
    BY <1>1 DEF Resend, Send, NodeTypeOK
  <2>2. IsJoin(pending_frame[c]) => IsJoin(pending_frame'[c])
    BY <2>1 DEF IsJoin, Retained
  <2> QED BY <2>1, <2>2 DEF Asks
<1>2. CASE SendNext(c, heard)
  <2>1. /\ pending_frame'[c] = IF Head(tx_queue[c]).type \in Retained
                               THEN Head(tx_queue[c]) ELSE None
        /\ tx_queue'[c] = Tail(tx_queue[c])
        /\ pending_frame[c] = None /\ tx_queue[c] # <<>> /\ tx_queue[c] \in Seq(Frame)
    BY <1>2 DEF SendNext, Send, NodeTypeOK
  <2>2. PICK i \in DOMAIN tx_queue[c] : tx_queue[c][i].type = "Join"
    BY <2>1 DEF Asks, IsJoin
  <2>3. CASE i = 1
    <3>1. Head(tx_queue[c]) = tx_queue[c][1] /\ Head(tx_queue[c]) \in Frame
      BY <2>1, TailElements
    <3> QED BY <2>1, <2>2, <2>3, <3>1, NoneAssumption DEF Asks, IsJoin, Retained
  <2>4. CASE i # 1
    <3>1. i - 1 \in DOMAIN Tail(tx_queue[c]) /\ Tail(tx_queue[c])[i - 1] = tx_queue[c][i]
      BY <2>1, <2>4
    <3> QED BY <2>1, <2>2, <3>1 DEF Asks
  <2> QED BY <2>3, <2>4
<1> QED BY <1>1, <1>2

LEMMA AsksNext ==
    ASSUME JoinInv, Next, NEW c \in Client, c \notin halted', node_type'[c] = "Joining"
    PROVE  Asks(c)'
<1>0. /\ TypeOK /\ NodeTypeOK /\ c \in Node /\ Master \in Node /\ c # Master
      /\ node_type[c] = "Joining" /\ c \notin halted => Asks(c)
      /\ node_type[c] = "Joining" => address[c] = Unassigned
  BY DEF JoinInv, ImcpInv, TypeOK, JoiningAsks, Asks, IsJoin, Unjoined
<1>1. ASSUME UNCHANGED <<node_type, halted>>, pending_frame'[c] = pending_frame[c],
             tx_queue'[c] = tx_queue[c]
      PROVE  Asks(c)'
  BY <1>0, <1>1, AsksKept
<1>2. ASSUME NEW n \in Node, NEW f \in Frame, Enqueue(n, f), UNCHANGED <<node_type, pending_frame>>
      PROVE  Asks(c)'
  <2>1. node_type[c] = "Joining" /\ c \notin halted
    BY <1>2 DEF Enqueue
  <2>2. tx_queue'[c] = tx_queue[c] \/ \E g \in Frame : tx_queue'[c] = Append(tx_queue[c], g)
    BY <1>0, <1>2, EnqueueEffect
  <2> QED BY <1>0, <1>2, <2>1, <2>2, AsksKept
<1>3. CASE Write
  <2>1. ASSUME NEW heard, MasterWriteTick(heard) PROVE Asks(c)'
    <3>1. pending_frame'[c] = pending_frame[c] /\ tx_queue'[c] = tx_queue[c]
      BY <1>0, <2>1
      DEF MasterWriteTick, MasterSend, MasterGiveUp, Resend, SendNext, Send, NodeTypeOK
    <3> QED BY <1>1, <2>1, <3>1 DEF MasterWriteTick
  <2>2. ASSUME NEW d \in Client, NEW heard, WriteTick(d, heard) PROVE Asks(c)'
    <3>1. UNCHANGED <<node_type, halted>> /\ (Resend(d, heard) \/ SendNext(d, heard))
      BY <2>2 DEF WriteTick, ClientWriteTick
    <3>2. CASE c = d
      BY <1>0, <3>1, <3>2, AsksWrite
    <3>3. CASE c # d
      <4>1. pending_frame'[c] = pending_frame[c] /\ tx_queue'[c] = tx_queue[c]
        BY <1>0, <3>1, <3>3 DEF Resend, SendNext, Send, NodeTypeOK
      <4> QED BY <1>1, <3>1, <4>1
    <3> QED BY <3>2, <3>3
  <2> QED BY <1>3, <2>1, <2>2 DEF Write
<1>4. CASE Read
  <2>1. ASSUME NEW n \in Node, Ignore(n) PROVE Asks(c)'
    BY <1>1, <2>1 DEF Ignore, ReadIgnored
  <2>2. ASSUME NEW n \in Node, Acknowledged(n) PROVE Asks(c)'
    <3>1. /\ Reading(n) /\ Incoming(n).type = "Ack" /\ Addressed(n)
          /\ pending_frame' = [pending_frame EXCEPT ![n] = None]
          /\ UNCHANGED <<node_type, tx_queue, halted>>
      BY <2>2 DEF Acknowledged, ReadAck, Reads
    <3>2. n # c
      <4> SUFFICES ASSUME n = c PROVE FALSE
        OBVIOUS
      <4>1. rx[c] \in Seq(Frame) /\ rx[c] # <<>>
        BY <1>0, <3>1 DEF NodeTypeOK, Reading
      <4>2. Incoming(c) = rx[c][1] /\ 1 \in DOMAIN rx[c]
        BY <4>1, TailElements DEF Incoming
      <4>3. Incoming(c).to \notin {Unassigned, Broadcast}
        BY <1>0, <3>1, <4>2 DEF JoinInv, ProperFrames, Proper
      <4>4. address[c] = Unassigned
        BY <1>0, <3>1
      <4> QED BY <3>1, <4>3, <4>4 DEF Addressed
    <3>3. pending_frame'[c] = pending_frame[c]
      BY <1>0, <3>1, <3>2 DEF NodeTypeOK
    <3> QED BY <1>1, <3>1, <3>3
  <2>3. ASSUME NEW n \in Node, ReceiveSet(n) PROVE Asks(c)'
    <3>1. /\ Reading(n) /\ TakeFrame(n)
          /\ Enqueue(n, Ack(Incoming(n).from, address[n], Incoming(n).to))
          /\ UNCHANGED <<node_type, pending_frame>>
      BY <2>3 DEF ReceiveSet, ReadSet, Reads, AckIncoming
    <3>2. Ack(Incoming(n).from, address[n], Incoming(n).to) \in Frame
      BY <1>0, <3>1, ReadFrame, FrameFields, FrameConstructors DEF NodeTypeOK
    <3> QED BY <1>2, <3>1, <3>2
  <2>4. ASSUME NEW n \in Node, ReceivePing(n) PROVE Asks(c)'
    <3>1. /\ Reading(n) /\ TakeFrame(n) /\ Enqueue(n, Pong(Incoming(n).from, address[n]))
          /\ UNCHANGED <<node_type, pending_frame>>
      BY <2>4 DEF ReceivePing, ReadPing, Reads
    <3>2. Pong(Incoming(n).from, address[n]) \in Frame
      BY <1>0, <3>1, ReadFrame, FrameFields, FrameConstructors DEF NodeTypeOK
    <3> QED BY <1>2, <3>1, <3>2
  <2>5. ASSUME NEW d \in Client, AdoptAddress(d) PROVE Asks(c)'
    <3>1. /\ Reading(d) /\ TakeFrame(d) /\ Incoming(d).type = "SetAddress"
          /\ Enqueue(d, Ack(Incoming(d).from, Incoming(d).address, Incoming(d).to))
          /\ pending_frame' = [pending_frame EXCEPT ![d] = None]
          /\ node_type' = [node_type EXCEPT ![d] = "Ready"]
      BY <2>5 DEF AdoptAddress, ClientAdoptAddress, TakeOffer, Reads, AckIncoming
    <3>2. c # d /\ node_type'[c] = node_type[c] /\ pending_frame'[c] = pending_frame[c]
      BY <1>0, <3>1 DEF NodeTypeOK
    <3>3. Ack(Incoming(d).from, Incoming(d).address, Incoming(d).to) \in Frame
      BY <1>0, <3>1, ReadFrame, FrameFields, FrameConstructors
    <3>4. tx_queue'[c] = tx_queue[c] /\ c \notin halted
      BY <1>0, <3>1, <3>2, <3>3, EnqueueEffect
    <3> QED BY <1>0, <3>2, <3>4, AsksKept
  <2>6. ASSUME NEW d \in Client, Refuse(d) PROVE Asks(c)'
    BY <1>1, <2>6 DEF Refuse, ClientRefuse
  <2>7. CASE OfferAddress
    <3>1. /\ Reading(Master) /\ TakeFrame(Master) /\ Incoming(Master).type = "Join"
          /\ Enqueue(Master, SetAddress(Unassigned, address[Master], next_address,
                                        Incoming(Master).id))
          /\ UNCHANGED <<node_type, pending_frame>>
      BY <2>7 DEF OfferAddress, Reads
    <3>2. SetAddress(Unassigned, address[Master], next_address, Incoming(Master).id) \in Frame
      BY <1>0, <3>1, ReadFrame, FrameFields, FrameConstructors, Addresses DEF TypeOK, NodeTypeOK
    <3> QED BY <1>0, <1>2, <3>1, <3>2
  <2>8. CASE MasterRefuse
    BY <1>1, <2>8 DEF MasterRefuse
  <2> QED BY <1>4, <2>1, <2>2, <2>3, <2>4, <2>5, <2>6, <2>7, <2>8 DEF Read
<1>5. CASE Application
  <2>1. ASSUME NEW d \in Client, Connect(d) PROVE Asks(c)'
    <3> DEFINE f == Join(MasterAddress, address[d], <<d, restarts[d]>>)
    <3>1. /\ Enqueue(d, f) /\ UNCHANGED pending_frame
          /\ node_type' = [node_type EXCEPT ![d] = "Joining"]
      BY <2>1 DEF Connect, SendJoin
    <3>2. f \in Frame /\ f.type = "Join"
      <4>1. <<d, restarts[d]>> \in Id /\ address[d] \in Address
        BY <1>0 DEF TypeOK, NodeTypeOK
      <4> QED BY <4>1, Addresses, FrameConstructors DEF Join
    <3> HIDE DEF f
    <3>3. CASE c = d
      <4>1. tx_queue'[c] = Append(tx_queue[c], f) /\ tx_queue[c] \in Seq(Frame)
        BY <1>0, <3>1, <3>2, <3>3, EnqueueEffect DEF NodeTypeOK
      <4>2. Len(tx_queue[c]) + 1 \in DOMAIN tx_queue'[c]
            /\ tx_queue'[c][Len(tx_queue[c]) + 1] = f
        BY <3>2, <4>1
      <4> QED BY <3>2, <4>2 DEF Asks
    <3>4. CASE c # d
      <4>1. node_type'[c] = node_type[c] /\ tx_queue'[c] = tx_queue[c] /\ c \notin halted
        BY <1>0, <3>1, <3>2, <3>4, EnqueueEffect DEF NodeTypeOK
      <4> QED BY <1>0, <3>1, <4>1, AsksKept
    <3> QED BY <3>3, <3>4
  <2>2. ASSUME NEW n \in Node, NEW to, SubmitSet(n, to) \/ SubmitPing(n, to) PROVE Asks(c)'
    <3>1. PICK f : Submit(n, f)
      BY <2>2 DEF SubmitSet, SubmitPing
    <3>2. n # c /\ UNCHANGED <<node_type, pending_frame, halted>>
      BY <3>1 DEF Submit
    <3>3. tx_queue'[c] = tx_queue[c]
      BY <1>0, <3>1, <3>2 DEF Submit, TrySend, NodeTypeOK
    <3> QED BY <1>1, <3>2, <3>3
  <2> QED BY <1>5, <2>1, <2>2 DEF Application
<1>6. CASE PowerCycle
  <2>1. ASSUME NEW d \in Client, Restart(d) PROVE Asks(c)'
    <3>1. /\ node_type' = [node_type EXCEPT ![d] = "NotReady"]
          /\ pending_frame' = [pending_frame EXCEPT ![d] = None]
          /\ tx_queue' = [tx_queue EXCEPT ![d] = <<>>] /\ halted' = halted \ {d}
      BY <2>1 DEF Restart, ClientRestart
    <3>2. c # d /\ node_type'[c] = node_type[c] /\ pending_frame'[c] = pending_frame[c]
          /\ tx_queue'[c] = tx_queue[c] /\ c \notin halted
      BY <1>0, <3>1 DEF NodeTypeOK
    <3> QED BY <1>0, <3>2, AsksKept
  <2>2. CASE RestartMaster
    <3>1. /\ UNCHANGED node_type
          /\ pending_frame' = [pending_frame EXCEPT ![Master] = None]
          /\ tx_queue' = [tx_queue EXCEPT ![Master] = <<>>] /\ halted' = halted \ {Master}
      BY <2>2 DEF RestartMaster
    <3>2. pending_frame'[c] = pending_frame[c] /\ tx_queue'[c] = tx_queue[c] /\ c \notin halted
      BY <1>0, <3>1 DEF NodeTypeOK
    <3> QED BY <1>0, <3>1, <3>2, AsksKept
  <2> QED BY <1>6, <2>1, <2>2 DEF PowerCycle
<1> QED BY <1>3, <1>4, <1>5, <1>6 DEF Next

LEMMA JoinInit == Init => JoinInv
<1> SUFFICES ASSUME Init PROVE JoinInv
  OBVIOUS
<1>1. DOMAIN <<>> = {}
  OBVIOUS
<1>2. /\ \A n \in Node : pending_frame[n] = None /\ tx_queue[n] = <<>> /\ rx[n] = <<>>
      /\ \A c \in Client : node_type[c] = "NotReady" /\ address[c] = Unassigned
      /\ address[Master] = MasterAddress
  BY DEF Init
<1>3. ProperFrames
  BY <1>1, <1>2 DEF ProperFrames, Queued
<1>4. Unjoined /\ JoiningAsks
  BY <1>2 DEF Unjoined, JoiningAsks
<1> QED BY <1>3, <1>4, InitInv DEF JoinInv

LEMMA JoinNext ==
    ASSUME JoinInv, [Next]_vars
    PROVE  JoinInv'
<1>1. ImcpInv'
  BY NextInv DEF JoinInv
<1>2. CASE Next
  <2>1. JoiningAsks'
    BY <1>2, AsksNext DEF JoiningAsks, Asks, IsJoin
  <2>2. TypeOK
    BY DEF JoinInv, ImcpInv
  <2> QED BY <1>1, <1>2, <2>1, <2>2, UnjoinedNext, ProperNext DEF JoinInv
<1>3. CASE UNCHANGED vars
  <2>1. UNCHANGED <<node_type, address, pending_frame, tx_queue, rx, halted>>
    BY <1>3 DEF vars, nodeVars
  <2>2. ProperFrames' /\ Unjoined' /\ JoiningAsks'
    BY <2>1 DEF JoinInv, ProperFrames, Queued, Unjoined, JoiningAsks
  <2> QED BY <1>1, <2>2 DEF JoinInv
<1> QED BY <1>2, <1>3

(* A device that joins asks until it is answered, with every pool, bound   *)
(* and interleaving: no Ack on the bus can end the asking.                 *)
THEOREM KeepsAsking == Spec => []JoiningAsks
<1>1. JoinInv => JoiningAsks
  BY DEF JoinInv
<1> QED BY <1>1, JoinInit, JoinNext, PTL DEF Spec

-----------------------------------------------------------------------------
(* A Set whose Ack was accepted got through, unless an earlier one was     *)
(* handed over twice or an address was given up.  Without these, there is  *)
(* at most one Ack on its way to a node that repeats a Set, from the node  *)
(* the Set is for, and that one has seen the Set; and of the Sets that     *)
(* wait to be read where they are addressed to, those not seen are the one *)
(* that is pending.                                                        *)

(* Who has, or had, the address a: until one is given up, one node.        *)
Holds(m, a) ==
    \/ m = Master /\ a = MasterAddress
    \/ m \in Client /\ \E g \in grants : g.id[1] = m /\ g.address = a

OneOwner ==
    \A g, h \in grants : g.address = h.address /\ g.id # h.id => g.address \in forgotten

(* It had it in this life, then it is ready, or in an earlier one.         *)
SpokenBy(n, a) ==
    \/ n = Master /\ a = MasterAddress
    \/ n \in Client /\ \E b \in 0 .. restarts[n] :
          /\ [id |-> <<n, b>>, address |-> a] \in grants
          /\ b = restarts[n] => node_type[n] = "Ready"

OwnBoot ==
    \A c \in Client : node_type[c] # "NotReady" => node_id[c] = <<c, restarts[c]>>

Signed(f) ==
    /\ f.type = "Set" => /\ f.body[1] \in Node /\ SpokenBy(f.body[1], f.from)
                         /\ f.to # Unassigned
                         /\ f.body[1] = Master => f.to # MasterAddress
    /\ f.type = "Ack" => \E n \in Node : SpokenBy(n, f.to)
    /\ f.type = "SetAddress" => f.from = MasterAddress

SignedFrames ==
    \A n \in Node : /\ \A f \in Queued(n) : Signed(f)
                    /\ \A i \in DOMAIN rx[n] : Signed(rx[n][i])

PendingRetained ==
    \A n \in Node : pending_frame[n] # None => pending_frame[n].type \in Retained

LEMMA HeldAddress ==
    ASSUME ImcpInv, NEW m, NEW a, Holds(m, a)
    PROVE  a # Unassigned /\ a # Broadcast /\ (m \in Client => a # MasterAddress)
BY DEF ImcpInv, GrantsInPool, Holds, Unassigned, Broadcast, MasterAddress, FirstAddress

LEMMA OneHolder ==
    ASSUME ImcpInv, OneOwner, forgotten = {}, NEW m, NEW k, NEW a, Holds(m, a), Holds(k, a)
    PROVE  m = k
<1>1. a = MasterAddress => m = Master /\ k = Master
  BY HeldAddress DEF Holds
<1>2. CASE a # MasterAddress
  <2>1. PICK g \in grants : g.id[1] = m /\ g.address = a
    BY <1>2 DEF Holds
  <2>2. PICK h \in grants : h.id[1] = k /\ h.address = a
    BY <1>2 DEF Holds
  <2>3. g.id = h.id
    BY <2>1, <2>2 DEF OneOwner
  <2> QED BY <2>1, <2>2, <2>3
<1> QED BY <1>1, <1>2

LEMMA HoldsOwn ==
    ASSUME ImcpInv, Unjoined, NEW m \in Node, address[m] # Unassigned
    PROVE  Holds(m, address[m])
<1>1. CASE m = Master
  BY <1>1 DEF Unjoined, Holds
<1>2. CASE m # Master
  <2>1. m \in Client /\ node_type[m] = "Ready"
    BY <1>2 DEF Unjoined, ImcpInv, TypeOK, NodeTypeOK
  <2>2. [id |-> node_id[m], address |-> address[m]] \in grants /\ node_id[m][1] = m
    BY <2>1 DEF ImcpInv, AddressWasGranted, OwnIdentifier
  <2> QED BY <2>1, <2>2 DEF Holds
<1> QED BY <1>1, <1>2

LEMMA SpokenHolds ==
    ASSUME NEW n, NEW a, SpokenBy(n, a)
    PROVE  Holds(n, a)
<1>1. CASE n = Master /\ a = MasterAddress
  BY <1>1 DEF Holds
<1>2. ASSUME n \in Client, NEW b, [id |-> <<n, b>>, address |-> a] \in grants
      PROVE  Holds(n, a)
  BY <1>2 DEF Holds
<1> QED BY <1>1, <1>2 DEF SpokenBy

(* What a step does to the lives of the devices.                           *)
LEMMA BootsNext ==
    ASSUME TypeOK, OwnBoot, Next
    PROVE  /\ grants \subseteq grants' /\ OwnBoot'
           /\ \A c \in Client :
                \/ restarts'[c] = restarts[c] /\ (node_type[c] = "Ready" => node_type'[c] = "Ready")
                \/ restarts'[c] = restarts[c] + 1
<1> DEFINE Goal == /\ grants \subseteq grants' /\ OwnBoot'
                   /\ \A c \in Client :
                        \/ /\ restarts'[c] = restarts[c]
                           /\ node_type[c] = "Ready" => node_type'[c] = "Ready"
                        \/ restarts'[c] = restarts[c] + 1
<1>0. /\ node_type \in [Node -> {"Master", "NotReady", "Joining", "Ready"}]
      /\ node_id \in [Node -> Id \cup {None}] /\ restarts \in [Node -> 0 .. MaxRestarts]
      /\ Client \subseteq Node /\ Master \in Node /\ Master \notin Client
  BY DEF TypeOK, NodeTypeOK
<1>1. ASSUME UNCHANGED <<node_type, node_id, restarts>>, grants \subseteq grants' PROVE Goal
  BY <1>1 DEF OwnBoot
<1>2. CASE Write
  BY <1>1, <1>2 DEF Write, MasterWriteTick, WriteTick, ClientWriteTick, historyVars
<1>3. ASSUME NEW c \in Client, AdoptAddress(c) PROVE Goal
  <2>1. /\ node_type[c] = "Joining" /\ node_type' = [node_type EXCEPT ![c] = "Ready"]
        /\ UNCHANGED <<node_id, restarts, grants>>
    BY <1>3 DEF AdoptAddress, ClientAdoptAddress, TakeOffer, historyVars
  <2>2. node_type'[c] = "Ready" /\ \A d \in Client \ {c} : node_type'[d] = node_type[d]
    BY <1>0, <2>1
  <2> QED BY <2>1, <2>2 DEF OwnBoot
<1>4. ASSUME NEW n \in Node, Ignore(n) \/ Acknowledged(n) \/ ReceiveSet(n) \/ ReceivePing(n)
      PROVE  Goal
  BY <1>1, <1>4 DEF Ignore, ReadIgnored, Acknowledged, ReadAck, ReceiveSet, ReadSet,
                    ReceivePing, ReadPing, historyVars
<1>5. ASSUME NEW c \in Client, Refuse(c) PROVE Goal
  BY <1>1, <1>5 DEF Refuse, ClientRefuse, historyVars
<1>6. CASE OfferAddress \/ MasterRefuse
  BY <1>1, <1>6 DEF OfferAddress, MasterRefuse, historyVars
<1>7. ASSUME NEW c \in Client, Connect(c) PROVE Goal
  <2>1. /\ node_type[c] = "NotReady" /\ UNCHANGED <<restarts, grants>>
        /\ node_type' = [node_type EXCEPT ![c] = "Joining"]
        /\ node_id' = [node_id EXCEPT ![c] = <<c, restarts[c]>>]
    BY <1>7 DEF Connect, SendJoin, historyVars
  <2>2. /\ node_id'[c] = <<c, restarts[c]>>
        /\ \A d \in Client : d # c => node_type'[d] = node_type[d] /\ node_id'[d] = node_id[d]
    BY <1>0, <2>1
  <2> QED BY <2>1, <2>2 DEF OwnBoot
<1>8. ASSUME NEW n \in Node, NEW to, SubmitSet(n, to) \/ SubmitPing(n, to) PROVE Goal
  BY <1>1, <1>8 DEF SubmitSet, SubmitPing, Submit, historyVars
<1>9. ASSUME NEW c \in Client, Restart(c) PROVE Goal
  <2>1. /\ restarts' = [restarts EXCEPT ![c] = @ + 1] /\ UNCHANGED grants
        /\ node_type' = [node_type EXCEPT ![c] = "NotReady"]
        /\ node_id' = [node_id EXCEPT ![c] = None]
    BY <1>9 DEF Restart, ClientRestart, historyVars
  <2>2. /\ restarts'[c] = restarts[c] + 1 /\ node_type'[c] = "NotReady"
        /\ \A d \in Client \ {c} : /\ node_type'[d] = node_type[d] /\ node_id'[d] = node_id[d]
                                   /\ restarts'[d] = restarts[d]
    BY <1>0, <2>1
  <2> QED BY <2>1, <2>2 DEF OwnBoot
<1>10. CASE RestartMaster
  <2>1. /\ restarts' = [restarts EXCEPT ![Master] = @ + 1]
        /\ UNCHANGED <<node_type, node_id, grants>>
    BY <1>10 DEF RestartMaster
  <2>2. \A d \in Client : restarts'[d] = restarts[d]
    BY <1>0, <2>1
  <2> QED BY <2>1, <2>2 DEF OwnBoot
<1> QED
  BY <1>2, <1>3, <1>4, <1>5, <1>6, <1>7, <1>8, <1>9, <1>10
  DEF Next, Read, Application, PowerCycle

LEMMA SpokenNext ==
    ASSUME TypeOK, OwnBoot, Next, NEW n, NEW a, SpokenBy(n, a)
    PROVE  SpokenBy(n, a)'
<1>1. CASE n = Master /\ a = MasterAddress
  BY <1>1 DEF SpokenBy
<1>2. ASSUME n \in Client, NEW b \in 0 .. restarts[n],
             [id |-> <<n, b>>, address |-> a] \in grants,
             b = restarts[n] => node_type[n] = "Ready"
      PROVE  SpokenBy(n, a)'
  <2>0. grants \subseteq grants'
    BY BootsNext
  <2>1. restarts[n] \in Nat /\ [id |-> <<n, b>>, address |-> a] \in grants'
    BY <1>2, <2>0 DEF TypeOK
  <2>2. CASE restarts'[n] = restarts[n] /\ (node_type[n] = "Ready" => node_type'[n] = "Ready")
    BY <1>2, <2>1, <2>2 DEF SpokenBy
  <2>3. CASE restarts'[n] = restarts[n] + 1
    <3>1. b \in 0 .. restarts'[n] /\ b # restarts'[n]
      BY <1>2, <2>1, <2>3
    <3>2. /\ [id |-> <<n, b>>, address |-> a] \in grants'
          /\ b = restarts'[n] => node_type'[n] = "Ready"
      BY <2>1, <3>1
    <3> QED BY <1>2, <3>1, <3>2 DEF SpokenBy
  <2> QED BY <1>2, <2>2, <2>3, BootsNext
<1> QED BY <1>1, <1>2 DEF SpokenBy

LEMMA SignedStays ==
    ASSUME TypeOK, OwnBoot, Next, NEW f, Signed(f)
    PROVE  \A g : g = f => Signed(g)'
<1> SUFFICES ASSUME NEW g, g = f PROVE Signed(g)'
  OBVIOUS
<1>1. Signed(g)
  OBVIOUS
<1>2. g.type = "Set" => SpokenBy(g.body[1], g.from)'
  BY <1>1, SpokenNext DEF Signed
<1>3. g.type = "Ack" => \E n \in Node : SpokenBy(n, g.to)'
  BY <1>1, SpokenNext DEF Signed
<1> QED BY <1>1, <1>2, <1>3 DEF Signed

LEMMA OwnSpeech ==
    ASSUME ImcpInv, Unjoined, OwnBoot, NEW n \in Node, node_type[n] \in {"Master", "Ready"}
    PROVE  SpokenBy(n, address[n])
<1>1. CASE n = Master
  BY <1>1 DEF SpokenBy, Unjoined
<1>2. CASE n # Master
  <2>1. n \in Client /\ node_type[n] = "Ready" /\ restarts[n] \in Nat
    BY <1>2 DEF ImcpInv, TypeOK
  <2>2. [id |-> <<n, restarts[n]>>, address |-> address[n]] \in grants
    BY <2>1 DEF ImcpInv, AddressWasGranted, OwnBoot
  <2> QED BY <2>1, <2>2 DEF SpokenBy
<1> QED BY <1>1, <1>2

LEMMA SignedNext ==
    ASSUME ImcpInv, Unjoined, OwnBoot, SignedFrames, Next
    PROVE  SignedFrames'
<1>0. TypeOK /\ NodeTypeOK
  BY DEF ImcpInv, TypeOK
<1>1. ASSUME NEW f, Signed(f) PROVE \A g : g = f => Signed(g)'
  BY <1>0, <1>1, SignedStays
<1>2. ASSUME NEW n \in Node, Reading(n) PROVE Signed(Incoming(n))
  <2>1. rx[n] \in Seq(Frame) /\ rx[n] # <<>>
    BY <1>0, <1>2 DEF NodeTypeOK, Reading
  <2>2. Incoming(n) = rx[n][1] /\ 1 \in DOMAIN rx[n]
    BY <2>1, TailElements DEF Incoming
  <2> QED BY <2>2 DEF SignedFrames
<1>3. ASSUME NEW n \in Node, NEW f, IsSubmitted(n, f) PROVE Signed(f)
  <2>1. CASE f.type = "Set"
    <3>1. /\ node_type[n] \in {"Master", "Ready"} /\ f.from = address[n]
          /\ f.body[1] = n /\ f.to \in Peer(n)
      BY <1>3, <2>1 DEF IsSubmitted
    <3>2. f.to # Unassigned /\ (n = Master => f.to # MasterAddress)
      <4>1. CASE n = Master
        <5>1. f.to \in 2 .. Broadcast
          BY <3>1, <4>1 DEF Peer, FirstAddress
        <5>2. f.to >= 2
          BY <5>1 DEF Broadcast
        <5> QED BY <5>2 DEF Unassigned, MasterAddress
      <4>2. CASE n # Master
        BY <3>1, <4>2 DEF Peer, Unassigned, MasterAddress
      <4> QED BY <4>1, <4>2
    <3> QED BY <2>1, <3>1, <3>2, OwnSpeech DEF Signed
  <2>2. CASE f.type # "Set"
    BY <1>3, <2>2 DEF Signed, IsSubmitted
  <2> QED BY <2>1, <2>2
<1>4. ASSUME NEW n \in Node, NEW f, Reading(n), IsReply(n, f) PROVE Signed(f)
  <2>1. CASE f.type = "SetAddress"
    BY <1>4, <2>1 DEF IsReply, Signed, Unjoined
  <2>2. CASE f.type = "Ack"
    <3>1. f.to = Incoming(n).from /\ Incoming(n).type \in {"Set", "SetAddress"}
      BY <1>4, <2>2 DEF IsReply
    <3>2. Signed(Incoming(n))
      BY <1>2, <1>4
    <3>3. \E p \in Node : SpokenBy(p, Incoming(n).from)
      <4>1. CASE Incoming(n).type = "Set"
        BY <3>2, <4>1 DEF Signed
      <4>2. CASE Incoming(n).type = "SetAddress"
        BY <3>2, <4>2 DEF Signed, SpokenBy
      <4> QED BY <3>1, <4>1, <4>2
    <3> QED BY <2>2, <3>1, <3>3 DEF Signed
  <2>3. CASE f.type = "Pong"
    BY <2>3 DEF Signed
  <2> QED BY <1>4, <2>1, <2>2, <2>3 DEF IsReply
<1> SUFFICES ASSUME NEW n \in Node
             PROVE  /\ \A f \in Queued(n)' : \A g : g = f => Signed(g)'
                    /\ \A i \in DOMAIN rx'[n] : \A g : g = rx'[n][i] => Signed(g)'
  <2>1. SUFFICES ASSUME NEW n \in Node
                 PROVE  /\ \A f \in Queued(n)' : Signed(f)'
                        /\ \A i \in DOMAIN rx'[n] : Signed(rx[n][i])'
    BY DEF SignedFrames
  <2> QED OBVIOUS
<1>5. /\ \A f \in Queued(n)' : \/ f \in Queued(n)
                               \/ Reading(n) /\ IsReply(n, f)
                               \/ IsSubmitted(n, f)
      /\ \A i \in DOMAIN rx'[n] : \/ \E j \in DOMAIN rx[n] : rx'[n][i] = rx[n][j]
                                  \/ \E m \in Node : rx'[n][i] \in Queued(m)
  BY <1>0, FramesFlow
<1>6. ASSUME NEW f \in Queued(n)' PROVE Signed(f)
  BY <1>3, <1>4, <1>5, <1>6 DEF SignedFrames
<1>7. ASSUME NEW i \in DOMAIN rx'[n] PROVE Signed(rx'[n][i])
  BY <1>5, <1>7 DEF SignedFrames
<1> QED BY <1>1, <1>6, <1>7

LEMMA RetainedNext ==
    ASSUME TypeOK, PendingRetained, Next
    PROVE  PendingRetained'
<1>1. CASE Read
  <2>1. PICK r \in Node : ReadsOne(r)
    BY <1>1, ReadEffect
  <2> QED BY <2>1 DEF ReadsOne, PendingRetained
<1>2. CASE Write
  <2>1. PICK w \in Node : WritesOne(w)
    BY <1>2, WriteEffect
  <2>2. PICK f :
           \/ Sent(w, f, tx_queue'[w])
           \/ /\ pending_frame'[w] = None
              /\ \A m \in Node \ {w} : pending_frame'[m] = pending_frame[m]
    BY <2>1 DEF WritesOne, Sent
  <2> QED BY <2>2 DEF Sent, PendingRetained
<1>3. CASE Application
  <2>1. PICK s \in Node : SubmitsOne(s)
    BY <1>3, ApplicationEffect
  <2> QED BY <2>1 DEF SubmitsOne, PendingRetained
<1>4. CASE PowerCycle
  <2>1. PICK r \in Node : RestartsOne(r)
    BY <1>4, PowerCycleEffect
  <2> QED BY <2>1 DEF RestartsOne, PendingRetained
<1> QED BY <1>1, <1>2, <1>3, <1>4 DEF Next

(* Forgotten addresses were offered; so as long as a hub that restarts     *)
(* forgets none, there were no offers.                                     *)
ForgottenGranted == forgotten \subseteq {g.address : g \in grants}

LEMMA ForgottenNext ==
    ASSUME ImcpInv, ForgottenGranted, Next
    PROVE  ForgottenGranted' /\ (forgotten' = {} => forgotten = {})
<1> DEFINE Goal == ForgottenGranted' /\ (forgotten' = {} => forgotten = {})
<1>1. ASSUME forgotten' = forgotten, grants \subseteq grants' PROVE Goal
  BY <1>1 DEF ForgottenGranted
<1>2. CASE Write
  <2>1. ASSUME NEW heard, MasterSend(heard), UNCHANGED grants PROVE Goal
    BY <1>1, <2>1 DEF MasterSend
  <2>2. ASSUME NEW heard, MasterGiveUp(heard), UNCHANGED grants PROVE Goal
    <3>1. CASE pending_assignment = None
      BY <1>1, <2>2, <3>1 DEF MasterGiveUp
    <3>2. CASE pending_assignment # None
      <4>1. forgotten' = forgotten \cup {pending_assignment.address}
        BY <2>2, <3>2 DEF MasterGiveUp
      <4>2. pending_assignment \in grants
        BY <3>2 DEF ImcpInv, AssignmentIsNext
      <4> QED BY <2>2, <4>1, <4>2 DEF ForgottenGranted
    <3> QED BY <3>1, <3>2
  <2>3. ASSUME NEW c \in Client, NEW heard, WriteTick(c, heard) PROVE Goal
    BY <1>1, <2>3 DEF WriteTick, historyVars
  <2> QED BY <1>2, <2>1, <2>2, <2>3 DEF Write, MasterWriteTick
<1>3. CASE Read
  <2>1. forgotten' = forgotten /\ grants \subseteq grants'
    BY <1>3 DEF Read, Ignore, Acknowledged, ReceiveSet, ReceivePing, AdoptAddress, Refuse,
                OfferAddress, MasterRefuse, historyVars
  <2> QED BY <1>1, <2>1
<1>4. CASE Application
  <2>1. forgotten' = forgotten /\ grants \subseteq grants'
    BY <1>4 DEF Application, Connect, SubmitSet, SubmitPing, Submit, historyVars
  <2> QED BY <1>1, <2>1
<1>5. ASSUME NEW c \in Client, Restart(c) PROVE Goal
  BY <1>1, <1>5 DEF Restart, historyVars
<1>6. CASE RestartMaster
  <2>1. forgotten' = {g.address : g \in grants} /\ grants' = grants
    BY <1>6 DEF RestartMaster
  <2> QED BY <2>1 DEF ForgottenGranted
<1> QED BY <1>2, <1>3, <1>4, <1>5, <1>6 DEF Next, PowerCycle

(* Of the Sets of n that wait at m, those that m will take: it has their   *)
(* address, or is about to.                                                *)
Listens(m, i, a) ==
    \/ address[m] = a
    \/ \E j \in DOMAIN rx[m] : /\ j < i /\ rx[m][j].type = "SetAddress"
                               /\ rx[m][j].address = a /\ rx[m][j].id[1] = m

Copies(n) ==
    \A m \in Node : \A i \in DOMAIN rx[m] :
        /\ IsSetOf(rx[m][i], n) /\ rx[m][i].from = address[n]
        /\ rx[m][i].to # Broadcast /\ Listens(m, i, rx[m][i].to)
        => pending_frame[n] = rx[m][i] \/ seen[m][n] >= rx[m][i].body[2]

(* The Acks on their way to n that could settle a Set, wherever they wait. *)
Answers(n, f) == f.type = "Ack" /\ f.to = address[n] /\ f.data = f.from

Answered(n, a) ==
    /\ pending_frame[n] # None /\ pending_frame[n].type = "Set"
    /\ pending_frame[n].to = a
    /\ \E m \in Node : Holds(m, a) /\ seen[m][n] >= pending_frame[n].body[2]

Way(n) == ({"tx"} \X Node) \cup {<<"rx", n>>}

Waiting(p) == IF p[1] = "tx" THEN tx_queue[p[2]] ELSE rx[p[2]]

OneAnswer(n) ==
    \A p, q \in Way(n) : \A i \in DOMAIN Waiting(p), j \in DOMAIN Waiting(q) :
        Answers(n, Waiting(p)[i]) /\ Answers(n, Waiting(q)[j])
        => Answered(n, Waiting(p)[i].from) /\ p = q /\ i = j

Clean(n) == forgotten = {} /\ n \notin repeated

Explained(n) == Clean(n) => Copies(n) /\ OneAnswer(n) /\ ~Lost(n)

LossBase ==
    /\ JoinInv /\ SetOrder /\ OneOwner /\ OwnBoot /\ SignedFrames
    /\ PendingRetained /\ ForgottenGranted

LossInv == LossBase /\ \A n \in Node : Explained(n)

LEMMA LossFacts ==
    ASSUME LossBase
    PROVE  /\ ImcpInv /\ TypeOK /\ NodeTypeOK /\ Unjoined /\ ProperFrames
           /\ \A n \in Node : /\ tx_queue[n] \in Seq(Frame) /\ rx[n] \in Seq(Frame)
                              /\ pending_frame[n] \in Frame \cup {None}
           /\ \A m, n \in Node : seen[m][n] \in Nat
<1>1. ImcpInv /\ TypeOK /\ NodeTypeOK /\ Unjoined /\ ProperFrames
  BY DEF LossBase, JoinInv, ImcpInv, TypeOK
<1>2. \A n \in Node : /\ tx_queue[n] \in Seq(Frame) /\ rx[n] \in Seq(Frame)
                      /\ pending_frame[n] \in Frame \cup {None}
  BY <1>1 DEF NodeTypeOK
<1>3. \A m, n \in Node : seen[m][n] \in Nat
  BY <1>1 DEF TypeOK
<1> QED BY <1>1, <1>2, <1>3

(* Who listens to an address has it, or was offered it.                    *)
LEMMA ListensHolds ==
    ASSUME LossBase, NEW m \in Node, NEW i, NEW a, a # Unassigned, Listens(m, i, a)
    PROVE  Holds(m, a)
<1>1. CASE address[m] = a
  BY <1>1, LossFacts, HoldsOwn
<1>2. ASSUME NEW j \in DOMAIN rx[m], rx[m][j].type = "SetAddress",
             rx[m][j].address = a, rx[m][j].id[1] = m
      PROVE  Holds(m, a)
  <2>1. [id |-> rx[m][j].id, address |-> a] \in grants
    BY <1>2, LossFacts DEF ImcpInv, OffersOnBus, OffersIn, IsOffer, IsGrant
  <2>2. m \in Client
    <3>1. [id |-> rx[m][j].id, address |-> a] \in Assignment
      BY <2>1, LossFacts DEF TypeOK
    <3>2. rx[m][j].id \in Id
      BY <3>1 DEF Assignment
    <3>3. rx[m][j].id \in Client \X (0 .. MaxRestarts)
      BY <3>2
    <3> QED BY <1>2, <3>3
  <2> QED BY <1>2, <2>1, <2>2 DEF Holds
<1> QED BY <1>1, <1>2 DEF Listens

LEMMA HoldsNext ==
    ASSUME LossBase, Next, NEW m, NEW a, Holds(m, a)
    PROVE  Holds(m, a)'
<1>1. grants \subseteq grants'
  BY BootsNext, LossFacts DEF LossBase
<1> QED BY <1>1 DEF Holds

LEMMA AnsweredNext ==
    ASSUME LossBase, Next, NEW n \in Node, pending_frame'[n] = pending_frame[n],
           NEW a, Answered(n, a)
    PROVE  Answered(n, a)'
<1>1. PICK m \in Node : Holds(m, a) /\ seen[m][n] >= pending_frame[n].body[2]
  BY DEF Answered
<1>2. Holds(m, a)'
  BY <1>1, HoldsNext
<1>3. pending_frame[n].body[2] \in Nat
  <2>1. pending_frame[n] \in Frame /\ pending_frame[n].type = "Set"
    BY LossFacts DEF Answered
  <2> QED BY <2>1, SetFields
<1>4. seen'[m][n] >= seen[m][n] /\ seen'[m][n] \in Nat /\ seen[m][n] \in Nat
  <2>1. TypeOK' /\ TypeOK
    BY NextType, LossFacts
  <2>2. seen'[m][n] >= seen[m][n]
    BY LossFacts, SetOrderNext DEF LossBase
  <2> QED BY <2>1, <2>2 DEF TypeOK
<1>5. seen'[m][n] >= pending_frame'[n].body[2]
  BY <1>1, <1>3, <1>4
<1> QED BY <1>2, <1>5 DEF Answered

(* A step that leaves the address and the pending frame of n as they are,  *)
(* and only takes frames from the front of channels and buffers and puts   *)
(* others than answers to n behind them.                                   *)
Shorter(m) ==
    \E k \in {0, 1} : \A i \in DOMAIN rx'[m] :
        /\ i \in Nat /\ i + k \in DOMAIN rx[m] /\ rx'[m][i] = rx[m][i + k]
        /\ \A a : Listens(m, i, a)' => Listens(m, i + k, a)

NoNewAnswer(n, m) ==
    \E k \in {0, 1} : \A i \in DOMAIN tx_queue'[m] :
        \/ i \in Nat /\ i + k \in DOMAIN tx_queue[m] /\ tx_queue'[m][i] = tx_queue[m][i + k]
        \/ tx_queue'[m][i].type # "Ack" \/ tx_queue'[m][i].to # address'[n]
        \/ tx_queue'[m][i].data # tx_queue'[m][i].from

NothingHeard(n) ==
    \E k \in {0, 1} : \A i \in DOMAIN rx'[n] :
        \/ i \in Nat /\ i + k \in DOMAIN rx[n] /\ rx'[n][i] = rx[n][i + k]
        \/ rx'[n][i].type # "Ack" \/ rx'[n][i].to # address'[n]
        \/ rx'[n][i].data # rx'[n][i].from

Quiet(n) ==
    /\ address'[n] = address[n] /\ pending_frame'[n] = pending_frame[n]
    /\ acked'[n] = acked[n]
    /\ \A m \in Node : Shorter(m) /\ NoNewAnswer(n, m)

LEMMA SeenNext ==
    ASSUME LossBase, Next, NEW m \in Node, NEW n \in Node
    PROVE  seen'[m][n] >= seen[m][n] /\ seen'[m][n] \in Nat /\ seen[m][n] \in Nat
<1>1. TypeOK' /\ TypeOK
  BY NextType, LossFacts
<1>2. seen'[m][n] >= seen[m][n]
  BY LossFacts, SetOrderNext DEF LossBase
<1> QED BY <1>1, <1>2 DEF TypeOK

LEMMA NotLostNext ==
    ASSUME LossBase, Next, NEW n \in Node, acked'[n] = acked[n], ~Lost(n)
    PROVE  ~Lost(n)'
<1>1. TypeOK
  BY LossFacts
<1>2. acked[n] \in Nat
  BY <1>1 DEF TypeOK
<1>3. \A m \in Node : /\ seen'[m][n] >= seen[m][n] /\ seen'[m][n] \in Nat
                      /\ seen[m][n] \in Nat
  BY SeenNext
<1> QED BY <1>2, <1>3 DEF Lost

LEMMA CopiesQuiet ==
    ASSUME LossBase, Next, NEW n \in Node, Copies(n), address'[n] = address[n],
           pending_frame'[n] = pending_frame[n], \A m \in Node : Shorter(m)
    PROVE  Copies(n)'
<1> SUFFICES ASSUME NEW m \in Node, NEW i \in DOMAIN rx'[m],
                    IsSetOf(rx'[m][i], n), rx'[m][i].from = address[n],
                    rx'[m][i].to # Broadcast, Listens(m, i, rx[m][i].to)'
             PROVE  pending_frame[n] = rx'[m][i] \/ seen'[m][n] >= rx'[m][i].body[2]
  BY DEF Copies, IsSetOf
<1>1. PICK k \in {0, 1} :
         /\ i + k \in DOMAIN rx[m] /\ rx'[m][i] = rx[m][i + k]
         /\ \A a : Listens(m, i, a)' => Listens(m, i + k, a)
  BY DEF Shorter
<1>2. Listens(m, i, rx[m][i].to)' => Listens(m, i + k, rx'[m][i].to)
  BY <1>1
<1>3. pending_frame[n] = rx[m][i + k] \/ seen[m][n] >= rx[m][i + k].body[2]
  BY <1>1, <1>2 DEF Copies
<1>4. rx[m][i + k].body[2] \in Nat
  <2>1. rx[m][i + k] \in Frame /\ rx[m][i + k].type = "Set"
    BY <1>1, LossFacts DEF IsSetOf
  <2> QED BY <2>1, SetFields
<1>5. seen'[m][n] >= seen[m][n] /\ seen'[m][n] \in Nat /\ seen[m][n] \in Nat
  BY SeenNext
<1> QED BY <1>1, <1>3, <1>4, <1>5

(* Where answers wait, seen from the step before.                          *)
LEMMA WaitingQuiet ==
    ASSUME NEW n \in Node, address'[n] = address[n],
           \A m \in Node : NoNewAnswer(n, m), NothingHeard(n),
           NEW p \in Way(n)
    PROVE  \E k \in {0, 1} : \A i \in DOMAIN Waiting(p)' :
               Answers(n, Waiting(p)[i])' =>
                  /\ i \in Nat /\ i + k \in DOMAIN Waiting(p)
                  /\ Waiting(p)'[i] = Waiting(p)[i + k]
                  /\ Answers(n, Waiting(p)[i + k])
<1>1. ASSUME NEW m \in Node, p = <<"tx", m>>
      PROVE  \E k \in {0, 1} : \A i \in DOMAIN Waiting(p)' :
               Answers(n, Waiting(p)[i])' =>
                  /\ i \in Nat /\ i + k \in DOMAIN Waiting(p)
                  /\ Waiting(p)'[i] = Waiting(p)[i + k]
                  /\ Answers(n, Waiting(p)[i + k])
  <2>1. Waiting(p) = tx_queue[m] /\ Waiting(p)' = tx_queue'[m]
    BY <1>1 DEF Waiting
  <2>2. PICK k \in {0, 1} : \A i \in DOMAIN tx_queue'[m] :
           \/ i \in Nat /\ i + k \in DOMAIN tx_queue[m] /\ tx_queue'[m][i] = tx_queue[m][i + k]
           \/ tx_queue'[m][i].type # "Ack" \/ tx_queue'[m][i].to # address'[n]
           \/ tx_queue'[m][i].data # tx_queue'[m][i].from
    BY DEF NoNewAnswer
  <2> QED BY <2>1, <2>2 DEF Answers
<1>2. ASSUME p = <<"rx", n>>
      PROVE  \E k \in {0, 1} : \A i \in DOMAIN Waiting(p)' :
               Answers(n, Waiting(p)[i])' =>
                  /\ i \in Nat /\ i + k \in DOMAIN Waiting(p)
                  /\ Waiting(p)'[i] = Waiting(p)[i + k]
                  /\ Answers(n, Waiting(p)[i + k])
  <2>1. Waiting(p) = rx[n] /\ Waiting(p)' = rx'[n]
    BY <1>2 DEF Waiting
  <2>2. PICK k \in {0, 1} : \A i \in DOMAIN rx'[n] :
           \/ i \in Nat /\ i + k \in DOMAIN rx[n] /\ rx'[n][i] = rx[n][i + k]
           \/ rx'[n][i].type # "Ack" \/ rx'[n][i].to # address'[n]
           \/ rx'[n][i].data # rx'[n][i].from
    BY DEF NothingHeard
  <2> QED BY <2>1, <2>2 DEF Answers
<1> QED BY <1>1, <1>2 DEF Way

LEMMA AnswersQuiet ==
    ASSUME LossBase, Next, NEW n \in Node, OneAnswer(n), address'[n] = address[n],
           pending_frame'[n] = pending_frame[n],
           \A m \in Node : NoNewAnswer(n, m), NothingHeard(n)
    PROVE  OneAnswer(n)'
<1> SUFFICES ASSUME NEW p \in Way(n), NEW q \in Way(n),
                    NEW i \in DOMAIN Waiting(p)', NEW j \in DOMAIN Waiting(q)',
                    Answers(n, Waiting(p)[i])', Answers(n, Waiting(q)[j])'
             PROVE  Answered(n, Waiting(p)[i].from)' /\ p = q /\ i = j
  BY DEF OneAnswer, Way
<1>1. PICK k \in {0, 1} : \A l \in DOMAIN Waiting(p)' :
               Answers(n, Waiting(p)[l])' =>
                  /\ l \in Nat /\ l + k \in DOMAIN Waiting(p)
                  /\ Waiting(p)'[l] = Waiting(p)[l + k]
                  /\ Answers(n, Waiting(p)[l + k])
  BY WaitingQuiet
<1>2. PICK h \in {0, 1} : \A l \in DOMAIN Waiting(q)' :
               Answers(n, Waiting(q)[l])' =>
                  /\ l \in Nat /\ l + h \in DOMAIN Waiting(q)
                  /\ Waiting(q)'[l] = Waiting(q)[l + h]
                  /\ Answers(n, Waiting(q)[l + h])
  BY WaitingQuiet
<1>3. /\ i \in Nat /\ i + k \in DOMAIN Waiting(p) /\ Waiting(p)'[i] = Waiting(p)[i + k]
      /\ Answers(n, Waiting(p)[i + k])
  BY <1>1
<1>4. /\ j \in Nat /\ j + h \in DOMAIN Waiting(q)
      /\ Answers(n, Waiting(q)[j + h])
  BY <1>2
<1>5. Answered(n, Waiting(p)[i + k].from) /\ p = q
  BY <1>3, <1>4 DEF OneAnswer
<1>6. i = j
  <2>1. j + k \in DOMAIN Waiting(p) /\ Answers(n, Waiting(p)[j + k])
    BY <1>1, <1>5
  <2>2. i + k = j + k
    BY <1>3, <2>1 DEF OneAnswer
  <2> QED BY <1>3, <1>4, <2>2
<1>7. Answered(n, Waiting(p)[i].from)'
  <2>1. \A a : Answered(n, a) => Answered(n, a)'
    BY AnsweredNext
  <2>2. PICK a : a = Waiting(p)[i + k].from
    OBVIOUS
  <2>3. Answered(n, a)'
    BY <1>5, <2>1, <2>2
  <2>4. Waiting(p)'[i].from = a
    BY <1>3, <2>2
  <2> QED BY <2>3, <2>4 DEF Answered
<1> QED BY <1>5, <1>6, <1>7

LEMMA ShorterHears ==
    ASSUME NEW n, Shorter(n)
    PROVE  NothingHeard(n)
BY DEF Shorter, NothingHeard

LEMMA ExplainedQuiet ==
    ASSUME LossBase, Next, NEW n \in Node, Quiet(n), Copies(n), OneAnswer(n), ~Lost(n)
    PROVE  Copies(n)' /\ OneAnswer(n)' /\ ~Lost(n)'
<1>1. Copies(n)'
  BY CopiesQuiet DEF Quiet
<1>2. OneAnswer(n)'
  BY AnswersQuiet, ShorterHears DEF Quiet
<1>3. ~Lost(n)'
  BY NotLostNext DEF Quiet
<1> QED BY <1>1, <1>2, <1>3

(* What each kind of step does to a buffer.                                *)
LEMMA ShorterKept ==
    ASSUME NodeTypeOK, NEW m \in Node, rx'[m] = rx[m], address'[m] = address[m]
    PROVE  Shorter(m)
<1>1. \A i \in DOMAIN rx'[m] : i \in Nat /\ i + 0 = i
  <2>1. rx'[m] \in Seq(Frame)
    BY DEF NodeTypeOK
  <2> QED BY <2>1
<1>2. \A i, a : Listens(m, i, a)' => Listens(m, i, a)
  BY DEF Listens
<1>3. \A i \in DOMAIN rx'[m] :
          /\ i \in Nat /\ i + 0 \in DOMAIN rx[m] /\ rx'[m][i] = rx[m][i + 0]
          /\ \A a : Listens(m, i, a)' => Listens(m, i + 0, a)
  BY <1>1, <1>2
<1> QED BY <1>3 DEF Shorter

LEMMA ShorterEmpty ==
    ASSUME NEW m \in Node, rx'[m] = <<>>
    PROVE  Shorter(m)
<1>1. DOMAIN <<>> = {}
  OBVIOUS
<1> QED BY <1>1 DEF Shorter

LEMMA ShorterRead ==
    ASSUME NodeTypeOK, NEW r \in Node, Reading(r), TakeFrame(r),
           \/ address'[r] = address[r]
           \/ /\ Incoming(r).type = "SetAddress" /\ Incoming(r).address = address'[r]
              /\ Incoming(r).id[1] = r
    PROVE  Shorter(r)
<1>1. /\ \A i \in DOMAIN rx'[r] : i \in Nat /\ i + 1 \in DOMAIN rx[r] /\ rx'[r][i] = rx[r][i + 1]
      /\ Incoming(r) = rx[r][1] /\ 1 \in DOMAIN rx[r]
  BY ReadShift
<1>2. ASSUME NEW i \in DOMAIN rx'[r], NEW a, Listens(r, i, a)'
      PROVE  Listens(r, i + 1, a)
  <2>0. i \in Nat /\ i >= 1
    <3>1. rx'[r] \in Seq(Frame)
      BY ReadShift
    <3> QED BY <3>1
  <2>1. CASE address'[r] = a
    <3>1. CASE address'[r] = address[r]
      BY <2>1, <3>1 DEF Listens
    <3>2. CASE /\ Incoming(r).type = "SetAddress" /\ Incoming(r).address = address'[r]
               /\ Incoming(r).id[1] = r
      <4>1. 1 < i + 1
        BY <2>0
      <4> QED BY <1>1, <2>1, <3>2, <4>1 DEF Listens
    <3> QED BY <3>1, <3>2
  <2>2. ASSUME NEW j \in DOMAIN rx'[r], j < i, rx'[r][j].type = "SetAddress",
               rx'[r][j].address = a, rx'[r][j].id[1] = r
        PROVE  Listens(r, i + 1, a)
    <3>1. j + 1 \in DOMAIN rx[r] /\ rx'[r][j] = rx[r][j + 1] /\ j \in Nat
      BY <1>1
    <3>2. j + 1 < i + 1
      BY <2>0, <2>2, <3>1
    <3> QED BY <2>2, <3>1, <3>2 DEF Listens
  <2>3. address'[r] = a \/ \E j \in DOMAIN rx'[r] :
            /\ j < i /\ rx'[r][j].type = "SetAddress"
            /\ rx'[r][j].address = a /\ rx'[r][j].id[1] = r
    BY <1>2 DEF Listens
  <2> QED BY <2>1, <2>2, <2>3
<1> QED BY <1>1, <1>2 DEF Shorter

LEMMA ReadShorter ==
    ASSUME NodeTypeOK, NEW r \in Node, Reading(r), TakeFrame(r),
           \A m \in Node \ {r} : address'[m] = address[m],
           \/ address'[r] = address[r]
           \/ /\ Incoming(r).type = "SetAddress" /\ Incoming(r).address = address'[r]
              /\ Incoming(r).id[1] = r
    PROVE  \A m \in Node : Shorter(m)
<1>1. Shorter(r)
  BY ShorterRead
<1>2. ASSUME NEW m \in Node \ {r} PROVE Shorter(m)
  <2>1. rx'[m] = rx[m]
    BY ReadShift
  <2> QED BY <2>1, ShorterKept
<1> QED BY <1>1, <1>2

(* What each kind of step does to a channel.                               *)
LEMMA NoNewKept ==
    ASSUME NodeTypeOK, NEW n, NEW m \in Node, tx_queue'[m] = tx_queue[m]
    PROVE  NoNewAnswer(n, m)
<1>1. \A i \in DOMAIN tx_queue'[m] : i \in Nat /\ i + 0 = i
  <2>1. tx_queue'[m] \in Seq(Frame)
    BY DEF NodeTypeOK
  <2> QED BY <2>1
<1> QED BY <1>1 DEF NoNewAnswer

LEMMA NoNewEmpty ==
    ASSUME NEW n, NEW m \in Node, tx_queue'[m] = <<>>
    PROVE  NoNewAnswer(n, m)
<1>1. DOMAIN <<>> = {}
  OBVIOUS
<1> QED BY <1>1 DEF NoNewAnswer

LEMMA NoNewAppend ==
    ASSUME NodeTypeOK, NEW n, NEW m \in Node, NEW f \in Frame,
           tx_queue'[m] = Append(tx_queue[m], f),
           f.type # "Ack" \/ f.to # address'[n] \/ f.data # f.from
    PROVE  NoNewAnswer(n, m)
<1>1. tx_queue[m] \in Seq(Frame)
  BY DEF NodeTypeOK
<1>2. \A i \in DOMAIN tx_queue'[m] : \/ i \in DOMAIN tx_queue[m] /\ tx_queue'[m][i] = tx_queue[m][i]
                                     \/ tx_queue'[m][i] = f
  BY <1>1, AppendElements
<1>3. \A i \in DOMAIN tx_queue[m] : i \in Nat /\ i + 0 = i
  BY <1>1
<1>4. \A i \in DOMAIN tx_queue'[m] :
         \/ i \in Nat /\ i + 0 \in DOMAIN tx_queue[m] /\ tx_queue'[m][i] = tx_queue[m][i + 0]
         \/ tx_queue'[m][i].type # "Ack" \/ tx_queue'[m][i].to # address'[n]
         \/ tx_queue'[m][i].data # tx_queue'[m][i].from
  BY <1>2, <1>3
<1> QED BY <1>4 DEF NoNewAnswer

LEMMA NoNewEnqueue ==
    ASSUME NodeTypeOK, NEW n, NEW r \in Node, NEW f \in Frame,
           Enqueue(r, f) \/ TrySend(r, f),
           f.type # "Ack" \/ f.to # address'[n] \/ f.data # f.from
    PROVE  \A m \in Node : NoNewAnswer(n, m)
<1>1. /\ \A m \in Node \ {r} : tx_queue'[m] = tx_queue[m]
      /\ tx_queue'[r] = tx_queue[r] \/ tx_queue'[r] = Append(tx_queue[r], f)
  BY DEF Enqueue, TrySend, NodeTypeOK
<1>2. ASSUME NEW m \in Node \ {r} PROVE NoNewAnswer(n, m)
  BY <1>1, NoNewKept
<1>3. NoNewAnswer(n, r)
  BY <1>1, NoNewKept, NoNewAppend
<1> QED BY <1>2, <1>3

(* The steps that are quiet for n: nearly all.                             *)
LEMMA QuietNodeRead ==
    ASSUME LossBase, NEW n \in Node, NEW r \in Node,
           Ignore(r) \/ ReceivePing(r) \/ (Acknowledged(r) /\ r # n)
    PROVE  Quiet(n)
<1>0. NodeTypeOK /\ TypeOK
  BY LossFacts
<1>1. /\ Reading(r) /\ TakeFrame(r) /\ UNCHANGED address
      /\ pending_frame'[n] = pending_frame[n] /\ acked'[n] = acked[n]
  <2>1. CASE Ignore(r) \/ ReceivePing(r)
    BY <2>1 DEF Ignore, ReadIgnored, ReceivePing, ReadPing, Reads, historyVars
  <2>2. CASE Acknowledged(r) /\ r # n
    <3>1. acked'[n] = acked[n]
      BY <1>0, <2>2 DEF Acknowledged, TypeOK
    <3>2. pending_frame'[n] = pending_frame[n]
      BY <1>0, <2>2 DEF Acknowledged, ReadAck, NodeTypeOK
    <3> QED BY <2>2, <3>1, <3>2 DEF Acknowledged, ReadAck, Reads
  <2> QED BY <2>1, <2>2
<1>2. \A m \in Node : Shorter(m)
  BY <1>0, <1>1, ReadShorter
<1>3. \A m \in Node : NoNewAnswer(n, m)
  <2>1. CASE Ignore(r) \/ Acknowledged(r)
    <3>1. tx_queue' = tx_queue
      BY <2>1 DEF Ignore, ReadIgnored, Acknowledged, ReadAck
    <3> QED BY <1>0, <3>1, NoNewKept
  <2>2. CASE ReceivePing(r)
    <3>1. Incoming(r) \in Frame
      BY <1>0, <1>1, ReadFrame
    <3>2. Pong(Incoming(r).from, address[r]) \in Frame
      BY <1>0, <3>1, FrameFields, FrameConstructors DEF NodeTypeOK
    <3>3. Enqueue(r, Pong(Incoming(r).from, address[r]))
      BY <2>2 DEF ReceivePing, ReadPing
    <3>4. Pong(Incoming(r).from, address[r]).type # "Ack"
      BY DEF Pong
    <3> QED BY <1>0, <3>2, <3>3, <3>4, NoNewEnqueue
  <2> QED BY <2>1, <2>2
<1> QED BY <1>1, <1>2, <1>3 DEF Quiet

LEMMA QuietHubRead ==
    ASSUME LossBase, NEW n \in Node, OfferAddress \/ MasterRefuse
    PROVE  Quiet(n)
<1>0. NodeTypeOK /\ TypeOK /\ Master \in Node
  BY LossFacts
<1>1. /\ Reading(Master) /\ TakeFrame(Master)
      /\ UNCHANGED <<address, pending_frame, acked>>
  BY DEF OfferAddress, MasterRefuse, Reads, historyVars
<1>2. \A m \in Node : Shorter(m)
  BY <1>0, <1>1, ReadShorter
<1>3. \A m \in Node : NoNewAnswer(n, m)
  <2>1. CASE MasterRefuse
    <3>1. tx_queue' = tx_queue
      BY <2>1 DEF MasterRefuse
    <3> QED BY <1>0, <3>1, NoNewKept
  <2>2. CASE OfferAddress
    <3> DEFINE f == SetAddress(Unassigned, address[Master], next_address, Incoming(Master).id)
    <3>1. Incoming(Master) \in Frame /\ Incoming(Master).type = "Join"
      BY <1>0, <1>1, <2>2, ReadFrame DEF OfferAddress, Reads
    <3>2. f \in Frame
      BY <1>0, <3>1, FrameFields, FrameConstructors, Addresses DEF TypeOK, NodeTypeOK
    <3>3. Enqueue(Master, f)
      BY <2>2 DEF OfferAddress
    <3>4. f.type # "Ack"
      BY DEF SetAddress
    <3> HIDE DEF f
    <3> QED BY <1>0, <3>2, <3>3, <3>4, NoNewEnqueue
  <2> QED BY <2>1, <2>2
<1> QED BY <1>1, <1>2, <1>3 DEF Quiet

LEMMA QuietClientRead ==
    ASSUME LossBase, NEW n \in Node, NEW c \in Client,
           Refuse(c) \/ (AdoptAddress(c) /\ c # n)
    PROVE  Quiet(n)
<1>0. NodeTypeOK /\ TypeOK /\ c \in Node
  BY LossFacts
<1>1. Reading(c) /\ TakeFrame(c) /\ UNCHANGED acked
  BY DEF Refuse, ClientRefuse, AdoptAddress, ClientAdoptAddress, TakeOffer, Reads, historyVars
<1>2. CASE Refuse(c)
  <2>1. UNCHANGED <<address, pending_frame, tx_queue>>
    BY <1>2 DEF Refuse, ClientRefuse
  <2>2. \A m \in Node : Shorter(m)
    BY <1>0, <1>1, <2>1, ReadShorter
  <2>3. \A m \in Node : NoNewAnswer(n, m)
    BY <1>0, <2>1, NoNewKept
  <2> QED BY <1>1, <2>1, <2>2, <2>3 DEF Quiet
<1>3. CASE AdoptAddress(c) /\ c # n
  <2> DEFINE f == Ack(Incoming(c).from, Incoming(c).address, Incoming(c).to)
  <2>1. /\ Incoming(c).type = "SetAddress" /\ Incoming(c).id = node_id[c]
        /\ address' = [address EXCEPT ![c] = Incoming(c).address]
        /\ pending_frame' = [pending_frame EXCEPT ![c] = None]
        /\ node_type[c] = "Joining" /\ Enqueue(c, f)
    BY <1>3 DEF AdoptAddress, ClientAdoptAddress, TakeOffer, Reads, AckIncoming
  <2>2. /\ address'[c] = Incoming(c).address
        /\ \A m \in Node \ {c} : address'[m] = address[m] /\ pending_frame'[m] = pending_frame[m]
    BY <1>0, <2>1 DEF NodeTypeOK
  <2>3. Incoming(c).id[1] = c
    BY <2>1, LossFacts DEF ImcpInv, OwnIdentifier
  <2>4. \A m \in Node : Shorter(m)
    BY <1>0, <1>1, <2>1, <2>2, <2>3, ReadShorter
  <2>5. Incoming(c) \in Frame
    BY <1>0, <1>1, ReadFrame
  <2>6. f \in Frame
    BY <2>1, <2>5, FrameFields, FrameConstructors
  <2>7. f.data # f.from
    <3>1. IsGrant(Incoming(c))
      BY <1>0, <1>1, <2>1, IncomingOffer, LossFacts DEF ImcpInv
    <3>2. Incoming(c).to = Unassigned /\ Incoming(c).address \in FirstAddress .. LastAddress
      BY <3>1, LossFacts DEF IsGrant, ImcpInv, GrantsInPool
    <3> QED BY <3>2 DEF Ack, Unassigned, FirstAddress
  <2>8. \A m \in Node : NoNewAnswer(n, m)
    <3> HIDE DEF f
    <3> QED BY <1>0, <2>1, <2>6, <2>7, NoNewEnqueue
  <2> QED BY <1>1, <1>3, <2>2, <2>4, <2>8 DEF Quiet
<1> QED BY <1>2, <1>3

LEMMA QuietApplication ==
    ASSUME LossBase, NEW n \in Node, Application
    PROVE  Quiet(n)
<1>0. NodeTypeOK /\ TypeOK
  BY LossFacts
<1>1. ASSUME UNCHANGED <<address, pending_frame, acked, rx>>,
             \A m \in Node : NoNewAnswer(n, m)
      PROVE  Quiet(n)
  <2>1. \A m \in Node : Shorter(m)
    BY <1>0, <1>1, ShorterKept
  <2> QED BY <1>1, <2>1 DEF Quiet
<1>2. ASSUME NEW c \in Client, Connect(c) PROVE Quiet(n)
  <2> DEFINE f == Join(MasterAddress, address[c], <<c, restarts[c]>>)
  <2>1. Enqueue(c, f) /\ UNCHANGED <<address, pending_frame, acked, rx>>
    BY <1>2 DEF Connect, SendJoin, historyVars
  <2>2. f \in Frame /\ f.type # "Ack"
    <3>1. <<c, restarts[c]>> \in Id /\ address[c] \in Address
      BY <1>0 DEF TypeOK, NodeTypeOK
    <3> QED BY <3>1, Addresses, FrameConstructors DEF Join
  <2> HIDE DEF f
  <2>3. c \in Node
    OBVIOUS
  <2>4. \A m \in Node : NoNewAnswer(n, m)
    BY <1>0, <2>1, <2>2, <2>3, NoNewEnqueue
  <2> QED BY <1>1, <2>1, <2>4
<1>3. ASSUME NEW s \in Node, NEW f \in Frame, Submit(s, f), f.type # "Ack" PROVE Quiet(n)
  <2>1. TrySend(s, f) /\ UNCHANGED <<address, pending_frame, acked, rx>>
    BY <1>3 DEF Submit, historyVars
  <2>2. \A m \in Node : NoNewAnswer(n, m)
    BY <1>0, <1>3, <2>1, NoNewEnqueue
  <2> QED BY <1>1, <2>1, <2>2
<1>4. ASSUME NEW s \in Node, NEW to \in Peer(s), SubmitSet(s, to) \/ SubmitPing(s, to)
      PROVE  Quiet(n)
  <2>1. to \in Address /\ address[s] \in Address /\ sent[s] \in 0 .. MaxSets
    BY <1>0, Addresses DEF Peer, TypeOK, NodeTypeOK
  <2>2. CASE SubmitSet(s, to)
    <3> DEFINE f == Set(to, address[s], <<s, sent[s] + 1>>)
    <3>1. Submit(s, f)
      BY <2>2 DEF SubmitSet
    <3>2. sent[s] < MaxSets
      BY <3>1 DEF Submit
    <3>3. <<s, sent[s] + 1>> \in Body
      BY <2>1, <3>2
    <3>4. f \in Frame /\ f.type # "Ack"
      BY <2>1, <3>3, FrameConstructors DEF Set
    <3> HIDE DEF f
    <3> QED BY <1>3, <3>1, <3>4
  <2>3. CASE SubmitPing(s, to)
    <3>1. Submit(s, Ping(to, address[s])) /\ Ping(to, address[s]) \in Frame
      BY <2>1, <2>3, FrameConstructors DEF SubmitPing
    <3>2. Ping(to, address[s]).type # "Ack"
      BY DEF Ping
    <3> QED BY <1>3, <3>1, <3>2
  <2> QED BY <1>4, <2>2, <2>3
<1> QED BY <1>2, <1>4 DEF Application

LEMMA QuietPowerCycle ==
    ASSUME LossBase, NEW n \in Node,
           \/ \E c \in Client \ {n} : Restart(c)
           \/ RestartMaster /\ n # Master
    PROVE  Quiet(n)
<1>0. NodeTypeOK /\ TypeOK
  BY LossFacts
<1>1. PICK r \in Node \ {n} :
         /\ rx' = [rx EXCEPT ![r] = <<>>] /\ tx_queue' = [tx_queue EXCEPT ![r] = <<>>]
         /\ pending_frame' = [pending_frame EXCEPT ![r] = None]
         /\ address' \in {address, [address EXCEPT ![r] = Unassigned]}
         /\ acked' = acked
  BY DEF Restart, ClientRestart, RestartMaster, historyVars
<1>2. /\ rx'[r] = <<>> /\ tx_queue'[r] = <<>>
      /\ \A m \in Node \ {r} : /\ rx'[m] = rx[m] /\ tx_queue'[m] = tx_queue[m]
                               /\ pending_frame'[m] = pending_frame[m]
                               /\ address'[m] = address[m]
  BY <1>0, <1>1 DEF NodeTypeOK
<1>3. ASSUME NEW m \in Node PROVE Shorter(m) /\ NoNewAnswer(n, m)
  <2>1. CASE m = r
    BY <1>2, <2>1, ShorterEmpty, NoNewEmpty
  <2>2. CASE m # r
    BY <1>0, <1>2, <2>2, ShorterKept, NoNewKept
  <2> QED BY <2>1, <2>2
<1> QED BY <1>1, <1>2, <1>3 DEF Quiet

(* The steps that are not quiet for n.                                     *)
NoAnswers(n) == \A p \in Way(n) : \A i \in DOMAIN Waiting(p) : ~Answers(n, Waiting(p)[i])

LEMMA NoAnswersQuiet ==
    ASSUME NEW n \in Node, NoAnswers(n), address'[n] = address[n],
           \A m \in Node : NoNewAnswer(n, m), NothingHeard(n)
    PROVE  NoAnswers(n)'
<1> SUFFICES ASSUME NEW p \in Way(n), NEW i \in DOMAIN Waiting(p)', Answers(n, Waiting(p)[i])'
             PROVE  FALSE
  BY DEF NoAnswers, Way
<1>1. PICK k \in {0, 1} :
         i + k \in DOMAIN Waiting(p) /\ Answers(n, Waiting(p)[i + k])
  BY WaitingQuiet
<1> QED BY <1>1 DEF NoAnswers

LEMMA NoneIsOne ==
    ASSUME NEW n, NoAnswers(n)'
    PROVE  OneAnswer(n)'
BY DEF NoAnswers, OneAnswer, Way

LEMMA NoneWithout ==
    ASSUME NEW n \in Node, OneAnswer(n), \A a : ~Answered(n, a)
    PROVE  NoAnswers(n)
BY DEF NoAnswers, OneAnswer

(* A Set that r acknowledges to n is of n: nobody else has its address.    *)
LEMMA SetIsOwn ==
    ASSUME LossBase, forgotten = {}, NEW n \in Node, NEW g, g.type = "Set", Signed(g),
           g.from = address[n]
    PROVE  IsSetOf(g, n)
<1>1. g.body[1] \in Node /\ Holds(g.body[1], address[n])
  BY SpokenHolds DEF Signed
<1>2. address[n] # Unassigned
  BY <1>1, HeldAddress, LossFacts
<1>3. Holds(n, address[n])
  BY <1>2, HoldsOwn, LossFacts
<1>4. g.body[1] = n
  BY <1>1, <1>3, OneHolder, LossFacts DEF LossBase
<1> QED BY <1>4 DEF IsSetOf

LEMMA ExplainedReceive ==
    ASSUME LossBase, NEW n \in Node, NEW r \in Node, ReceiveSet(r), Next,
           Clean(n), Clean(n)', Copies(n), OneAnswer(n), ~Lost(n)
    PROVE  Copies(n)' /\ OneAnswer(n)' /\ ~Lost(n)'
<1> DEFINE g == Incoming(r)
           f == Ack(g.from, address[r], g.to)
<1>0. NodeTypeOK /\ TypeOK
  BY LossFacts
<1>1. /\ Reading(r) /\ TakeFrame(r) /\ g.type = "Set" /\ Enqueue(r, f)
      /\ Addressed(r) /\ UNCHANGED <<address, pending_frame, acked>>
  BY DEF ReceiveSet, ReadSet, Reads, AckIncoming
<1>2. /\ g \in Frame /\ 1 \in DOMAIN rx[r] /\ g = rx[r][1]
  BY <1>0, <1>1, ReadFrame
<1>3. f \in Frame
  BY <1>0, <1>2, FrameFields, FrameConstructors DEF NodeTypeOK
<1>4. \A m \in Node : Shorter(m)
  BY <1>0, <1>1, ReadShorter
<1>5. CASE \A m \in Node : NoNewAnswer(n, m)
  BY <1>1, <1>4, <1>5, ExplainedQuiet DEF Quiet
<1>6. CASE ~\A m \in Node : NoNewAnswer(n, m)
  <2>1. f.type = "Ack" /\ f.to = address[n] /\ f.data = f.from
    <3> HIDE DEF f
    <3> QED BY <1>0, <1>1, <1>3, <1>6, NoNewEnqueue
  <2>2. g.from = address[n] /\ g.to = address[r]
    BY <2>1 DEF Ack
  <2>3. ~QueueFull(r) /\ tx_queue' = [tx_queue EXCEPT ![r] = Append(@, f)]
    <3>1. CASE QueueFull(r)
      <4>1. tx_queue' = tx_queue
        BY <1>1, <3>1 DEF Enqueue
      <4> QED BY <1>0, <1>6, <4>1, NoNewKept
    <3> QED BY <1>1, <3>1 DEF Enqueue
  <2>4. Signed(g)
    BY <1>2 DEF LossBase, SignedFrames
  <2>5. IsSetOf(g, n) /\ g.to # Unassigned
    BY <1>1, <2>2, <2>4, SetIsOwn DEF Clean, Signed
  <2> DEFINE k == g.body[2]
  <2>6. k \in Nat
    BY <1>1, <1>2, SetFields
  <2>7. Holds(r, g.to) /\ g.to # Broadcast
    BY <2>2, <2>5, HoldsOwn, HeldAddress, LossFacts
  <2>8. seen[r][n] # k /\ seen'[r][n] = k
    <3>1. /\ seen' = [seen EXCEPT ![r][n] = k]
          /\ repeated' = IF seen[r][n] = k THEN repeated \cup {n} ELSE repeated
      BY <2>3, <2>5 DEF ReceiveSet, IsSetOf
    <3>2. seen \in [Node -> [Node -> 0 .. MaxSets]]
      BY <1>0 DEF TypeOK
    <3> HIDE DEF k
    <3> QED BY <3>1, <3>2 DEF Clean
  <2>9. seen[r][n] < k
    <3>1. Between(n, seen[r][n], g, sent[n])
      BY <1>2 DEF LossBase, SetOrder, SetsAt
    <3>2. seen[r][n] <= k
      BY <2>5, <3>1 DEF Between
    <3> HIDE DEF k
    <3> QED BY <2>6, <2>8, <3>2, SeenNext
  <2>10. pending_frame[n] = g
    <3>1. Listens(r, 1, g.to)
      BY <2>2 DEF Listens
    <3>2. pending_frame[n] = g \/ seen[r][n] >= k
      BY <1>2, <2>2, <2>5, <2>7, <3>1 DEF Copies
    <3> HIDE DEF k
    <3> QED BY <2>6, <2>9, <3>2, SeenNext
  <2>11. \A a : ~Answered(n, a)
    <3> SUFFICES ASSUME NEW a, Answered(n, a) PROVE FALSE
      OBVIOUS
    <3>1. PICK m \in Node : Holds(m, a) /\ seen[m][n] >= k /\ a = g.to
      BY <2>10 DEF Answered
    <3>2. m = r
      BY <2>7, <3>1, OneHolder, LossFacts DEF LossBase, Clean
    <3> HIDE DEF k
    <3> QED BY <2>6, <2>9, <3>1, <3>2, SeenNext
  <2>12. NoAnswers(n)
    BY <2>11, NoneWithout
  <2>13. PICK a : a = g.to
    OBVIOUS
  <2>14. Answered(n, a)'
    <3>1. Holds(r, a)'
      BY <2>7, <2>13, HoldsNext
    <3>2. seen'[r][n] >= k
      BY <2>6, <2>8
    <3>3. pending_frame'[n] = pending_frame[n] /\ pending_frame[n] # None
      BY <1>1, <1>2, <2>10, NoneAssumption
    <3> QED BY <1>1, <2>10, <2>13, <3>1, <3>2, <3>3 DEF Answered
  <2>15. ASSUME NEW p \in Way(n), NEW i \in DOMAIN Waiting(p)', Answers(n, Waiting(p)[i])'
         PROVE  p = <<"tx", r>> /\ i = Len(tx_queue[r]) + 1 /\ Waiting(p)'[i].from = a
    <3>1. ASSUME NEW m \in Node \ {r}, p = <<"tx", m>> PROVE FALSE
      <4>1. Waiting(p) = tx_queue[m] /\ Waiting(p)' = tx_queue[m]
        BY <1>0, <2>3, <3>1 DEF Waiting, NodeTypeOK
      <4> QED BY <1>1, <2>12, <2>15, <4>1 DEF NoAnswers, Answers
    <3>2. CASE p = <<"rx", n>>
      <4>1. Waiting(p) = rx[n] /\ Waiting(p)' = rx'[n]
        BY <3>2 DEF Waiting
      <4>2. PICK l \in {0, 1} : i + l \in DOMAIN rx[n] /\ rx'[n][i] = rx[n][i + l]
        BY <1>4, <2>15, <4>1 DEF Shorter
      <4> QED BY <1>1, <2>12, <2>15, <4>1, <4>2 DEF NoAnswers, Answers
    <3>3. CASE p = <<"tx", r>>
      <4>1. Waiting(p) = tx_queue[r] /\ Waiting(p)' = Append(tx_queue[r], f)
        BY <1>0, <2>3, <3>3 DEF Waiting, NodeTypeOK
      <4>2. \/ i \in DOMAIN tx_queue[r] /\ Waiting(p)'[i] = tx_queue[r][i]
            \/ i = Len(tx_queue[r]) + 1 /\ Waiting(p)'[i] = f
        <5> HIDE DEF f
        <5> QED BY <1>3, <2>15, <4>1, LossFacts, AppendElements
      <4>3. i \notin DOMAIN tx_queue[r] \/ Waiting(p)'[i] # tx_queue[r][i]
        BY <1>1, <2>12, <2>15, <4>1 DEF NoAnswers, Answers
      <4>4. f.from = a
        BY <2>2, <2>13 DEF Ack
      <4> QED BY <3>3, <4>2, <4>3, <4>4
    <3> QED BY <3>1, <3>2, <3>3 DEF Way
  <2>16. OneAnswer(n)'
    <3> SUFFICES ASSUME NEW p \in Way(n), NEW q \in Way(n),
                        NEW i \in DOMAIN Waiting(p)', NEW j \in DOMAIN Waiting(q)',
                        Answers(n, Waiting(p)[i])', Answers(n, Waiting(q)[j])'
                 PROVE  Answered(n, Waiting(p)[i].from)' /\ p = q /\ i = j
      BY DEF OneAnswer, Way
    <3>1. /\ p = <<"tx", r>> /\ i = Len(tx_queue[r]) + 1 /\ Waiting(p)'[i].from = a
          /\ q = <<"tx", r>> /\ j = Len(tx_queue[r]) + 1
      BY <2>15
    <3>2. Answered(n, Waiting(p)[i].from)'
      BY <2>14, <3>1 DEF Answered
    <3> QED BY <3>1, <3>2
  <2>17. Copies(n)'
    BY <1>1, <1>4, CopiesQuiet
  <2>18. ~Lost(n)'
    BY <1>1, NotLostNext
  <2> QED BY <2>16, <2>17, <2>18
<1> QED BY <1>5, <1>6

LEMMA ExplainedAck ==
    ASSUME LossBase, NEW n \in Node, Acknowledged(n), Next,
           Clean(n), Copies(n), OneAnswer(n), ~Lost(n)
    PROVE  Copies(n)' /\ OneAnswer(n)' /\ ~Lost(n)'
<1> DEFINE p == pending_frame[n]
           g == Incoming(n)
<1>0. NodeTypeOK /\ TypeOK
  BY LossFacts
<1>1. /\ Reading(n) /\ TakeFrame(n) /\ Addressed(n) /\ g.type = "Ack" /\ AckSettles(n)
      /\ UNCHANGED <<address, tx_queue, seen>> /\ pending_frame'[n] = None
  BY <1>0 DEF Acknowledged, ReadAck, Reads, NodeTypeOK
<1>2. g = rx[n][1] /\ 1 \in DOMAIN rx[n]
  BY <1>0, <1>1, ReadFrame
<1>3. p # None /\ p \in Frame /\ p.type \in Retained
  BY <1>1, LossFacts DEF AckSettles, LossBase, PendingRetained
<1>4. p.type = "Set" /\ p.to # Broadcast => Answers(n, g) /\ g.from = p.to
  <2> SUFFICES ASSUME p.type = "Set", p.to # Broadcast PROVE Answers(n, g) /\ g.from = p.to
    OBVIOUS
  <2>1. g.data = p.to /\ g.from = p.to
    BY <1>1 DEF AckSettles
  <2>2. g.to # Broadcast
    BY <1>1, <1>2, LossFacts DEF ProperFrames, Proper
  <2> QED BY <1>1, <2>1, <2>2 DEF Answers, Addressed
<1>5. p.type = "Set" /\ p.to # Broadcast =>
         \E m \in Node : Holds(m, p.to) /\ seen[m][n] >= p.body[2]
  <2> SUFFICES ASSUME p.type = "Set", p.to # Broadcast
               PROVE  \E m \in Node : Holds(m, p.to) /\ seen[m][n] >= p.body[2]
    OBVIOUS
  <2>1. Waiting(<<"rx", n>>) = rx[n] /\ <<"rx", n>> \in Way(n)
    BY DEF Waiting, Way
  <2>2. Answered(n, p.to)
    BY <1>2, <1>4, <2>1 DEF OneAnswer
  <2> QED BY <2>2 DEF Answered
<1>6. \A m \in Node : Shorter(m)
  BY <1>0, <1>1, ReadShorter
<1>7. Copies(n)'
  <2> SUFFICES ASSUME NEW m \in Node, NEW i \in DOMAIN rx'[m],
                      IsSetOf(rx'[m][i], n), rx'[m][i].from = address[n],
                      rx'[m][i].to # Broadcast, Listens(m, i, rx[m][i].to)'
               PROVE  seen[m][n] >= rx'[m][i].body[2]
    BY <1>1 DEF Copies, IsSetOf
  <2>1. PICK k \in {0, 1} :
           /\ i + k \in DOMAIN rx[m] /\ rx'[m][i] = rx[m][i + k]
           /\ \A a : Listens(m, i, a)' => Listens(m, i + k, a)
    BY <1>6 DEF Shorter
  <2>2. Listens(m, i, rx[m][i].to)' => Listens(m, i + k, rx'[m][i].to)
    BY <2>1
  <2>3. p = rx'[m][i] \/ seen[m][n] >= rx'[m][i].body[2]
    BY <2>1, <2>2 DEF Copies
  <2>4. CASE p = rx'[m][i]
    <3>1. p.type = "Set" /\ p.to # Broadcast /\ Listens(m, i + k, p.to)
      BY <2>2, <2>4 DEF IsSetOf
    <3>2. PICK d \in Node : Holds(d, p.to) /\ seen[d][n] >= p.body[2]
      BY <1>5, <3>1
    <3>3. Holds(m, p.to)
      BY <3>1, <3>2, ListensHolds, HeldAddress, LossFacts
    <3>4. d = m
      BY <3>2, <3>3, OneHolder, LossFacts DEF LossBase, Clean
    <3> QED BY <2>4, <3>2, <3>4
  <2> QED BY <2>3, <2>4
<1>8. NoAnswers(n)'
  <2>1. CASE p.type = "Set" /\ p.to # Broadcast
    <3> SUFFICES ASSUME NEW w \in Way(n), NEW i \in DOMAIN Waiting(w)', Answers(n, Waiting(w)[i])'
                 PROVE  FALSE
      BY DEF NoAnswers, Way
    <3>1. Waiting(<<"rx", n>>) = rx[n] /\ <<"rx", n>> \in Way(n)
      BY DEF Waiting, Way
    <3>2. ASSUME NEW j \in DOMAIN Waiting(w), Answers(n, Waiting(w)[j])
          PROVE  w = <<"rx", n>> /\ j = 1
      BY <1>2, <1>4, <2>1, <3>1, <3>2 DEF OneAnswer
    <3>3. CASE w = <<"rx", n>>
      <4>1. Waiting(w)' = rx'[n]
        BY <3>3 DEF Waiting
      <4>2. i \in Nat /\ i >= 1 /\ i + 1 \in DOMAIN rx[n] /\ rx'[n][i] = rx[n][i + 1]
        <5>1. rx'[n] \in Seq(Frame)
          BY <1>0, <1>1, ReadShift
        <5> QED BY <1>0, <1>1, <4>1, <5>1, ReadShift
      <4>3. Answers(n, rx[n][i + 1])
        BY <1>1, <4>1, <4>2 DEF Answers
      <4>4. i + 1 = 1
        BY <3>1, <3>2, <3>3, <4>2, <4>3
      <4> QED BY <4>2, <4>4
    <3>4. ASSUME NEW m \in Node, w = <<"tx", m>> PROVE FALSE
      <4>1. Waiting(w)' = tx_queue[m] /\ Waiting(w) = tx_queue[m]
        BY <1>1, <3>4 DEF Waiting
      <4>2. Answers(n, Waiting(w)[i])
        BY <1>1, <4>1 DEF Answers
      <4> QED BY <3>2, <3>4, <4>1, <4>2
    <3> QED BY <3>3, <3>4 DEF Way
  <2>2. CASE ~(p.type = "Set" /\ p.to # Broadcast)
    <3>1. \A a : ~Answered(n, a)
      BY <2>2, HeldAddress, LossFacts DEF Answered
    <3>2. \A m \in Node : NoNewAnswer(n, m)
      BY <1>0, <1>1, NoNewKept
    <3> QED BY <1>1, <1>6, <3>1, <3>2, NoneWithout, ShorterHears, NoAnswersQuiet
  <2> QED BY <2>1, <2>2
<1>9. ~Lost(n)'
  <2>1. CASE p.type = "Set" /\ p.to # Broadcast
    <3>1. acked'[n] = p.body[2]
      BY <1>0, <2>1 DEF Acknowledged, TypeOK
    <3>2. p.body[2] \in Nat
      BY <1>3, <2>1, SetFields
    <3>3. PICK d \in Node : seen[d][n] >= p.body[2]
      BY <1>5, <2>1
    <3>4. seen'[d][n] = seen[d][n] /\ seen[d][n] \in Nat
      BY <1>1, SeenNext
    <3> HIDE DEF p
    <3> QED BY <3>1, <3>2, <3>3, <3>4 DEF Lost
  <2>2. CASE ~(p.type = "Set" /\ p.to # Broadcast)
    <3>1. acked' = acked
      BY <2>2 DEF Acknowledged
    <3> QED BY <3>1, NotLostNext
  <2> QED BY <2>1, <2>2
<1> QED BY <1>7, <1>8, <1>9, NoneIsOne

(* A new address: nothing on its way was sent from it, or to it.           *)
LEMMA ExplainedFresh ==
    ASSUME LossBase, NEW n \in Node, Next, ~Lost(n), acked'[n] = acked[n],
           \A m \in Node : \A i \in DOMAIN rx'[m] :
               IsSetOf(rx'[m][i], n) => rx'[m][i].from # address'[n],
           \A m \in Node : \A i \in DOMAIN tx_queue'[m] : ~Answers(n, tx_queue[m][i])',
           \A i \in DOMAIN rx'[n] : ~Answers(n, rx[n][i])'
    PROVE  Copies(n)' /\ OneAnswer(n)' /\ ~Lost(n)'
<1>1. Copies(n)'
  BY DEF Copies, IsSetOf
<1>2. NoAnswers(n)'
  BY DEF NoAnswers, Answers, Way, Waiting
<1>3. OneAnswer(n)'
  BY <1>2, NoneIsOne
<1>4. ~Lost(n)'
  BY NotLostNext
<1> QED BY <1>1, <1>3, <1>4

LEMMA ExplainedRestart ==
    ASSUME LossBase, NEW n \in Client, Restart(n), Next, ~Lost(n)
    PROVE  Copies(n)' /\ OneAnswer(n)' /\ ~Lost(n)'
<1>0. NodeTypeOK /\ n \in Node
  BY LossFacts
<1>1. address'[n] = Unassigned /\ acked' = acked
  BY <1>0 DEF Restart, ClientRestart, NodeTypeOK, historyVars
<1>2. ProperFrames' /\ NodeTypeOK'
  BY LossFacts, ProperNext, NextType DEF TypeOK
<1>3. \A m \in Node : \A i \in DOMAIN rx'[m] :
          IsSetOf(rx'[m][i], n) => rx'[m][i].from # address'[n]
  BY <1>1, <1>2 DEF ProperFrames, Proper, IsSetOf
<1>4. ASSUME NEW m \in Node, NEW i \in DOMAIN tx_queue'[m] PROVE ~Answers(n, tx_queue[m][i])'
  <2>1. tx_queue'[m][i] \in Frame
    BY <1>2, <1>4 DEF NodeTypeOK
  <2>2. tx_queue'[m][i] \in Queued(m)'
    BY <1>4, <2>1, NoneAssumption DEF Queued
  <2>3. tx_queue'[m][i].type = "Ack" => tx_queue'[m][i].to # Unassigned
    BY <1>2, <2>2 DEF ProperFrames, Proper
  <2> QED BY <1>1, <2>3 DEF Answers
<1>5. \A i \in DOMAIN rx'[n] : ~Answers(n, rx[n][i])'
  BY <1>0, <1>1, <1>2 DEF ProperFrames, Proper, Answers
<1> QED BY <1>0, <1>1, <1>3, <1>4, <1>5, ExplainedFresh

LEMMA NotYetSpoken ==
    ASSUME LossBase, forgotten = {}, NEW n \in Client, node_type[n] = "Joining",
           NEW a, [id |-> node_id[n], address |-> a] \in grants
    PROVE  /\ ~SpokenBy(n, a)
           /\ \A f : Signed(f) => /\ ~(IsSetOf(f, n) /\ f.from = a)
                                  /\ ~(f.type = "Ack" /\ f.to = a)
<1>1. node_id[n] = <<n, restarts[n]>> /\ n # Master
  BY LossFacts DEF LossBase, OwnBoot, TypeOK
<1>2. ~SpokenBy(n, a)
  <2> SUFFICES ASSUME NEW b \in 0 .. restarts[n], [id |-> <<n, b>>, address |-> a] \in grants,
                      b = restarts[n] => node_type[n] = "Ready"
               PROVE  FALSE
    BY <1>1 DEF SpokenBy
  <2>1. b # restarts[n]
    OBVIOUS
  <2> DEFINE g == [id |-> <<n, b>>, address |-> a]
             h == [id |-> <<n, restarts[n]>>, address |-> a]
  <2>2. g \in grants /\ h \in grants /\ g.address = a /\ h.address = a
    BY <1>1
  <2>3. g.id # h.id
    BY <2>1
  <2> HIDE DEF g, h
  <2> QED BY <2>2, <2>3 DEF LossBase, OneOwner
<1>3. Holds(n, a)
  <2>1. [id |-> <<n, restarts[n]>>, address |-> a] \in grants
    BY <1>1
  <2> QED BY <2>1 DEF Holds
<1>4. ASSUME NEW f, Signed(f), f.type = "Ack", f.to = a PROVE FALSE
  <2>1. PICK x \in Node : SpokenBy(x, a)
    BY <1>4 DEF Signed
  <2>2. x = n
    BY <1>3, <2>1, SpokenHolds, OneHolder, LossFacts DEF LossBase
  <2> QED BY <1>2, <2>1, <2>2
<1>5. ASSUME NEW f, Signed(f), IsSetOf(f, n), f.from = a PROVE FALSE
  BY <1>2, <1>5 DEF Signed, IsSetOf
<1> QED BY <1>2, <1>4, <1>5

LEMMA ExplainedAdopt ==
    ASSUME LossBase, NEW n \in Client, AdoptAddress(n), Next, Clean(n), ~Lost(n)
    PROVE  Copies(n)' /\ OneAnswer(n)' /\ ~Lost(n)'
<1> DEFINE a == Incoming(n).address
           f == Ack(Incoming(n).from, a, Incoming(n).to)
<1>0. NodeTypeOK /\ TypeOK /\ n \in Node
  BY LossFacts
<1>1. /\ Reading(n) /\ TakeFrame(n) /\ Incoming(n).type = "SetAddress"
      /\ node_type[n] = "Joining" /\ Incoming(n).id = node_id[n]
      /\ address' = [address EXCEPT ![n] = a] /\ Enqueue(n, f) /\ acked' = acked
  BY DEF AdoptAddress, ClientAdoptAddress, TakeOffer, Reads, AckIncoming, historyVars
<1>2. IsGrant(Incoming(n)) /\ Incoming(n) \in Frame
  BY <1>0, <1>1, IncomingOffer, ReadFrame, LossFacts DEF ImcpInv
<1>3. /\ [id |-> node_id[n], address |-> a] \in grants /\ Incoming(n).to = Unassigned
      /\ a \in FirstAddress .. LastAddress
  BY <1>1, <1>2, LossFacts DEF IsGrant, ImcpInv, GrantsInPool
<1>4. ASSUME NEW g, Signed(g)
      PROVE  ~(IsSetOf(g, n) /\ g.from = a) /\ ~(g.type = "Ack" /\ g.to = a)
  <2> HIDE DEF a
  <2> QED BY <1>1, <1>3, <1>4, NotYetSpoken DEF Clean
<1>5. address'[n] = a /\ acked'[n] = acked[n]
  BY <1>0, <1>1 DEF NodeTypeOK
<1>6. ASSUME NEW m \in Node, NEW i \in DOMAIN rx'[m] PROVE Signed(rx'[m][i])
  <2>1. CASE m = n
    <3>1. i + 1 \in DOMAIN rx[n] /\ rx'[n][i] = rx[n][i + 1]
      BY <1>0, <1>1, <1>6, <2>1, ReadShift
    <3> QED BY <1>0, <2>1, <3>1 DEF LossBase, SignedFrames
  <2>2. CASE m # n
    <3>1. rx'[m] = rx[m]
      BY <1>0, <1>1, <2>2, ReadShift
    <3> QED BY <1>6, <3>1 DEF LossBase, SignedFrames
  <2> QED BY <2>1, <2>2
<1>7. ASSUME NEW m \in Node, NEW i \in DOMAIN tx_queue'[m]
      PROVE  Signed(tx_queue'[m][i]) \/ tx_queue'[m][i] = f
  <2>1. ASSUME NEW j \in DOMAIN tx_queue[m], tx_queue'[m][i] = tx_queue[m][j]
        PROVE  Signed(tx_queue'[m][i])
    <3>1. tx_queue[m][j] \in Frame
      BY <2>1, LossFacts
    <3>2. tx_queue[m][j] \in Queued(m)
      BY <2>1, <3>1, NoneAssumption DEF Queued
    <3> QED BY <2>1, <3>2 DEF LossBase, SignedFrames
  <2>2. tx_queue'[m] = tx_queue[m] \/ tx_queue'[m] = Append(tx_queue[m], f)
    BY <1>0, <1>1 DEF Enqueue, NodeTypeOK
  <2>3. f \in Frame
    BY <1>1, <1>2, FrameFields, FrameConstructors
  <2> HIDE DEF f
  <2>4. CASE tx_queue'[m] = tx_queue[m]
    BY <1>7, <2>1, <2>4
  <2>5. CASE tx_queue'[m] = Append(tx_queue[m], f)
    <3>1. (i \in DOMAIN tx_queue[m] /\ tx_queue'[m][i] = tx_queue[m][i]) \/ tx_queue'[m][i] = f
      BY <1>7, <2>3, <2>5, AppendElements, LossFacts
    <3> QED BY <2>1, <3>1
  <2> QED BY <2>2, <2>4, <2>5
<1>8. f.data # f.from
  BY <1>3 DEF Ack, Unassigned, FirstAddress
<1>9. \A m \in Node : \A i \in DOMAIN rx'[m] :
          IsSetOf(rx'[m][i], n) => rx'[m][i].from # address'[n]
  BY <1>4, <1>5, <1>6
<1>10. \A m \in Node : \A i \in DOMAIN tx_queue'[m] : ~Answers(n, tx_queue[m][i])'
  <2> HIDE DEF a, f
  <2> QED BY <1>4, <1>5, <1>7, <1>8 DEF Answers
<1>11. \A i \in DOMAIN rx'[n] : ~Answers(n, rx[n][i])'
  <2> HIDE DEF a, f
  <2> QED BY <1>0, <1>4, <1>5, <1>6 DEF Answers
<1> QED BY <1>0, <1>5, <1>9, <1>10, <1>11, ExplainedFresh

LEMMA ExplainedHubRestart ==
    ASSUME LossBase, RestartMaster, Next, Clean(Master), Clean(Master)',
           OneAnswer(Master), ~Lost(Master)
    PROVE  Copies(Master)' /\ OneAnswer(Master)' /\ ~Lost(Master)'
<1>0. NodeTypeOK /\ Master \in Node
  BY LossFacts
<1>1. /\ UNCHANGED <<address, acked>> /\ grants = {}
      /\ rx'[Master] = <<>> /\ tx_queue'[Master] = <<>>
      /\ \A m \in Node \ {Master} : rx'[m] = rx[m] /\ tx_queue'[m] = tx_queue[m]
  <2>1. forgotten' = {h.address : h \in grants} /\ UNCHANGED <<address, acked>>
    BY DEF RestartMaster
  <2>2. grants = {}
    BY <2>1 DEF Clean
  <2>3. /\ rx' = [rx EXCEPT ![Master] = <<>>]
        /\ tx_queue' = [tx_queue EXCEPT ![Master] = <<>>]
    BY DEF RestartMaster
  <2> QED BY <1>0, <2>1, <2>2, <2>3 DEF NodeTypeOK
<1>2. \A m, a : Holds(m, a) => m = Master /\ a = MasterAddress
  BY <1>1 DEF Holds
<1>3. ASSUME NEW g, Signed(g), IsSetOf(g, Master)
      PROVE  g.to # Unassigned /\ g.to # MasterAddress
  BY <1>3 DEF Signed, IsSetOf
<1>4. \A a : ~Answered(Master, a)
  <2> SUFFICES ASSUME NEW a, Answered(Master, a) PROVE FALSE
    OBVIOUS
  <2>1. /\ pending_frame[Master] \in Queued(Master) /\ pending_frame[Master].type = "Set"
        /\ pending_frame[Master].to = MasterAddress
    BY <1>2 DEF Answered, Queued
  <2>2. IsSetOf(pending_frame[Master], Master) /\ Signed(pending_frame[Master])
    BY <1>0, <2>1 DEF LossBase, SetOrder, OwnSets, SignedFrames, IsSetOf
  <2> QED BY <1>3, <2>1, <2>2
<1>5. \A m \in Node : Shorter(m) /\ NoNewAnswer(Master, m)
  <2> SUFFICES ASSUME NEW m \in Node PROVE Shorter(m) /\ NoNewAnswer(Master, m)
    OBVIOUS
  <2>1. CASE m = Master
    BY <1>1, <2>1, ShorterEmpty, NoNewEmpty
  <2>2. CASE m # Master
    BY <1>0, <1>1, <2>2, ShorterKept, NoNewKept
  <2> QED BY <2>1, <2>2
<1>6. OneAnswer(Master)'
  BY <1>0, <1>1, <1>4, <1>5, NoneWithout, ShorterHears, NoAnswersQuiet, NoneIsOne
<1>7. Copies(Master)'
  <2> SUFFICES ASSUME NEW m \in Node, NEW i \in DOMAIN rx'[m], IsSetOf(rx'[m][i], Master),
                      Listens(m, i, rx[m][i].to)'
               PROVE  FALSE
    BY DEF Copies, IsSetOf
  <2>1. m # Master
    <3>1. DOMAIN <<>> = {}
      OBVIOUS
    <3> QED BY <1>1, <3>1
  <2>2. rx'[m] = rx[m]
    BY <1>1, <2>1
  <2>3. Listens(m, i, rx[m][i].to)
    BY <1>1, <2>2 DEF Listens
  <2>4. Signed(rx[m][i]) /\ IsSetOf(rx[m][i], Master)
    BY <2>2 DEF LossBase, SignedFrames, IsSetOf
  <2>5. Holds(m, rx[m][i].to)
    BY <1>3, <2>3, <2>4, ListensHolds
  <2> QED BY <1>2, <1>3, <2>4, <2>5
<1>8. ~Lost(Master)'
  BY <1>0, <1>1, NotLostNext
<1> QED BY <1>6, <1>7, <1>8

(* With no offer given up, write_tick sends the pending frame or the next. *)
WritesFrame(w, f) ==
    /\ \/ /\ pending_frame[w] = f /\ Sent(w, f, tx_queue[w])
       \/ /\ pending_frame[w] = None /\ tx_queue[w] # <<>> /\ f = Head(tx_queue[w])
          /\ Sent(w, f, Tail(tx_queue[w]))
    /\ UNCHANGED <<address, seen, acked, grants>>

LEMMA WriteSent ==
    ASSUME LossBase, Write, forgotten' = {}
    PROVE  \E w \in Node, f \in Frame : WritesFrame(w, f)
<1>0. NodeTypeOK /\ TypeOK /\ Master \in Node
  BY LossFacts
<1>1. ASSUME NEW w \in Node, NEW heard, Resend(w, heard) \/ SendNext(w, heard),
             UNCHANGED <<address, seen, acked, grants>>
      PROVE  \E f \in Frame : WritesFrame(w, f)
  <2>1. CASE Resend(w, heard)
    <3>1. pending_frame[w] \in Frame
      BY <2>1, LossFacts DEF Resend
    <3>2. Sent(w, pending_frame[w], tx_queue[w])
      BY <1>0, <2>1, <3>1, SendEffect DEF Resend
    <3> QED BY <1>1, <3>1, <3>2 DEF WritesFrame
  <2>2. CASE SendNext(w, heard)
    <3>1. tx_queue[w] # <<>> /\ Head(tx_queue[w]) \in Frame /\ pending_frame[w] = None
      BY <1>0, <2>2, QueueParts DEF SendNext
    <3>2. Sent(w, Head(tx_queue[w]), Tail(tx_queue[w]))
      BY <1>0, <2>2, <3>1, SendEffect DEF SendNext
    <3> QED BY <1>1, <3>1, <3>2 DEF WritesFrame
  <2> QED BY <1>1, <2>1, <2>2
<1>2. ASSUME NEW heard, MasterGiveUp(heard) PROVE FALSE
  <2>1. pending_assignment # None
    <3>1. CASE pending_frame[Master] # None
      <4>1. PendingIsOffer
        BY <1>2, <3>1 DEF MasterGiveUp, GivesUp, PendingIsOffer, IsOffer
      <4>2. pending_assignment =
               [id |-> pending_frame[Master].id, address |-> pending_frame[Master].address]
        BY <4>1, LossFacts DEF ImcpInv, AssignmentHasFrame, OfferIsAssigned, Offered
      <4> QED BY <1>0, <4>1, <4>2, OffersAreAssignments
    <3>2. CASE pending_frame[Master] = None
      <4>1. /\ tx_queue[Master] # <<>> /\ tx_queue[Master] \in Seq(Frame)
            /\ Head(tx_queue[Master]).type = "SetAddress"
        BY <1>0, <1>2, <3>2, LossFacts DEF MasterGiveUp, GivesUp
      <4>2. 1 \in QueuedOffers
        BY <4>1, OffersTail DEF QueuedOffers, IsOffer
      <4>3. pending_assignment =
               [id |-> tx_queue[Master][1].id, address |-> tx_queue[Master][1].address]
        BY <4>2, LossFacts DEF ImcpInv, AssignmentHasFrame, OfferIsAssigned, Offered
      <4> QED BY <1>0, <4>2, <4>3, OffersAreAssignments
    <3> QED BY <3>1, <3>2
  <2> QED BY <1>2, <2>1 DEF MasterGiveUp
<1>3. ASSUME NEW heard, MasterWriteTick(heard)
      PROVE  \E f \in Frame : WritesFrame(Master, f)
  <2>1. /\ Resend(Master, heard) \/ SendNext(Master, heard)
        /\ UNCHANGED <<address, seen, acked, grants>>
    BY <1>2, <1>3 DEF MasterWriteTick, MasterSend
  <2> QED BY <1>0, <1>1, <2>1
<1>4. ASSUME NEW c \in Client, NEW heard, WriteTick(c, heard)
      PROVE  \E f \in Frame : WritesFrame(c, f)
  <2>1. /\ Resend(c, heard) \/ SendNext(c, heard)
        /\ UNCHANGED <<address, seen, acked, grants>>
    BY <1>4 DEF WriteTick, ClientWriteTick, historyVars
  <2> QED BY <1>1, <2>1
<1> QED BY <1>0, <1>3, <1>4 DEF Write

LEMMA ExplainedWrite ==
    ASSUME LossBase, NEW w \in Node, NEW f \in Frame, WritesFrame(w, f), Next,
           NEW n \in Node, Copies(n), OneAnswer(n), ~Lost(n)
    PROVE  Copies(n)' /\ OneAnswer(n)' /\ ~Lost(n)'
<1>0. NodeTypeOK /\ TypeOK /\ tx_queue[w] \in Seq(Frame)
  BY LossFacts
<1>1. /\ UNCHANGED <<address, seen, acked>>
      /\ \A m \in Node \ {w} : pending_frame'[m] = pending_frame[m]
                               /\ tx_queue'[m] = tx_queue[m]
      /\ \A m \in Node : rx'[m] \in {rx[m], Append(rx[m], f)}
      /\ pending_frame'[w] = IF f.type \in Retained THEN f ELSE None
  BY DEF WritesFrame, Sent
<1>2. /\ \/ pending_frame[w] = f /\ tx_queue'[w] = tx_queue[w]
         \/ /\ pending_frame[w] = None /\ tx_queue[w] # <<>> /\ f = tx_queue[w][1]
            /\ 1 \in DOMAIN tx_queue[w] /\ tx_queue'[w] = Tail(tx_queue[w])
      /\ f \in Queued(w)
  <2>1. tx_queue[w] # <<>> => Head(tx_queue[w]) = tx_queue[w][1] /\ 1 \in DOMAIN tx_queue[w]
    BY <1>0, TailElements
  <2> QED BY <2>1, NoneAssumption DEF WritesFrame, Sent, Queued
<1>3. IsSetOf(f, n) => w = n
  BY <1>2 DEF LossBase, SetOrder, OwnSets, IsSetOf
<1>4. pending_frame[w] = f => f.type \in Retained
  BY NoneAssumption DEF LossBase, PendingRetained
<1>5. ASSUME NEW m \in Node, NEW i \in DOMAIN rx'[m]
      PROVE  \/ /\ i \in DOMAIN rx[m] /\ rx'[m][i] = rx[m][i]
                /\ \A a : Listens(m, i, a)' => Listens(m, i, a)
             \/ i = Len(rx[m]) + 1 /\ rx'[m][i] = f
  <2>1. CASE rx'[m] = rx[m]
    BY <1>1, <1>5, <2>1 DEF Listens
  <2>2. CASE rx'[m] = Append(rx[m], f)
    <3>0. rx[m] \in Seq(Frame)
      BY LossFacts
    <3>1. \A j \in DOMAIN rx'[m] : \/ j \in DOMAIN rx[m] /\ rx'[m][j] = rx[m][j]
                                   \/ j = Len(rx[m]) + 1 /\ rx'[m][j] = f
      BY <2>2, <3>0, AppendElements
    <3>2. \A j \in DOMAIN rx[m] : j \in Nat /\ j < Len(rx[m]) + 1
      BY <3>0, AppendElements
    <3>3. CASE i = Len(rx[m]) + 1 /\ rx'[m][i] = f
      BY <3>3
    <3>4. CASE i \in DOMAIN rx[m] /\ rx'[m][i] = rx[m][i]
      <4>1. \A j \in DOMAIN rx'[m] : j < i => j \in DOMAIN rx[m] /\ rx'[m][j] = rx[m][j]
        BY <3>0, <3>1, <3>2, <3>4
      <4>2. \A a : Listens(m, i, a)' => Listens(m, i, a)
        BY <1>1, <4>1 DEF Listens
      <4> QED BY <3>4, <4>2
    <3> QED BY <1>5, <3>1, <3>3, <3>4
  <2> QED BY <1>1, <2>1, <2>2
<1>6. Copies(n)'
  <2> SUFFICES ASSUME NEW m \in Node, NEW i \in DOMAIN rx'[m],
                      IsSetOf(rx'[m][i], n), rx'[m][i].from = address[n],
                      rx'[m][i].to # Broadcast, Listens(m, i, rx[m][i].to)'
               PROVE  pending_frame'[n] = rx'[m][i] \/ seen[m][n] >= rx'[m][i].body[2]
    BY <1>1 DEF Copies, IsSetOf
  <2>1. CASE rx'[m][i] = f
    BY <1>1, <1>3, <2>1 DEF IsSetOf, Retained
  <2>2. CASE /\ i \in DOMAIN rx[m] /\ rx'[m][i] = rx[m][i]
             /\ \A a : Listens(m, i, a)' => Listens(m, i, a)
    <3>1. Listens(m, i, rx[m][i].to)' => Listens(m, i, rx'[m][i].to)
      BY <2>2
    <3>2. pending_frame[n] = rx[m][i] \/ seen[m][n] >= rx[m][i].body[2]
      BY <2>2, <3>1 DEF Copies
    <3>3. CASE pending_frame[n] = rx[m][i]
      <4>1. rx[m][i] # None /\ rx[m][i].type \in Retained
        BY <2>2, LossFacts, NoneAssumption DEF IsSetOf, Retained
      <4> QED BY <1>1, <1>2, <2>2, <3>3, <4>1
    <3> QED BY <2>2, <3>2, <3>3
  <2> QED BY <1>5, <2>1, <2>2
<1>7. ~Lost(n)'
  BY <1>1, NotLostNext
<1>8. ASSUME ~Answers(n, f) PROVE OneAnswer(n)'
  <2>1. ASSUME NEW m \in Node PROVE NoNewAnswer(n, m)
    <3>1. CASE tx_queue'[m] = tx_queue[m]
      BY <1>0, <3>1, NoNewKept
    <3>2. CASE m = w /\ tx_queue[w] # <<>> /\ tx_queue'[w] = Tail(tx_queue[w])
      <4>1. \A i \in DOMAIN tx_queue'[w] :
               i \in Nat /\ i + 1 \in DOMAIN tx_queue[w] /\ tx_queue'[w][i] = tx_queue[w][i + 1]
        BY <1>0, <3>2, TailElements
      <4> QED BY <3>2, <4>1 DEF NoNewAnswer
    <3> QED BY <1>1, <1>2, <3>1, <3>2
  <2>2. NothingHeard(n)
    <3>1. \A i \in DOMAIN rx[n] : i \in Nat /\ i + 0 = i
      BY LossFacts
    <3>2. \A i \in DOMAIN rx'[n] :
             \/ i \in Nat /\ i + 0 \in DOMAIN rx[n] /\ rx'[n][i] = rx[n][i + 0]
             \/ rx'[n][i].type # "Ack" \/ rx'[n][i].to # address'[n]
             \/ rx'[n][i].data # rx'[n][i].from
      BY <1>1, <1>5, <1>8, <3>1 DEF Answers
    <3> QED BY <3>2 DEF NothingHeard
  <2>3. CASE pending_frame'[n] = pending_frame[n]
    BY <1>1, <2>1, <2>2, <2>3, AnswersQuiet
  <2>4. CASE pending_frame'[n] # pending_frame[n]
    <3>1. pending_frame[n] = None
      BY <1>1, <1>2, <1>4, <2>4
    <3>2. NoAnswers(n)
      BY <3>1, NoneWithout DEF Answered
    <3> QED BY <1>1, <2>1, <2>2, <3>2, NoAnswersQuiet, NoneIsOne
  <2> QED BY <2>3, <2>4
<1>9. ASSUME Answers(n, f) PROVE OneAnswer(n)'
  <2> DEFINE here == <<"tx", w>>
  <2>1. /\ pending_frame[w] = None /\ tx_queue[w] # <<>> /\ f = tx_queue[w][1]
        /\ 1 \in DOMAIN tx_queue[w] /\ tx_queue'[w] = Tail(tx_queue[w])
    BY <1>2, <1>4, <1>9 DEF Answers, Retained
  <2>2. here \in Way(n) /\ Waiting(here) = tx_queue[w]
    BY DEF Way, Waiting
  <2>3. Answered(n, f.from)
    BY <1>9, <2>1, <2>2 DEF OneAnswer
  <2>4. n # w /\ pending_frame'[n] = pending_frame[n]
    BY <1>1, <2>1, <2>3 DEF Answered
  <2>5. Answered(n, f.from)'
    BY <2>3, <2>4, AnsweredNext
  <2>6. ASSUME NEW p \in Way(n), NEW i \in DOMAIN Waiting(p), Answers(n, Waiting(p)[i])
        PROVE  p = here /\ i = 1
    BY <1>9, <2>1, <2>2, <2>6 DEF OneAnswer
  <2>7. ASSUME NEW p \in Way(n), NEW i \in DOMAIN Waiting(p)', Answers(n, Waiting(p)[i])'
        PROVE  p = <<"rx", n>> /\ i = Len(rx[n]) + 1 /\ Waiting(p)'[i] = f
    <3>1. ASSUME NEW m \in Node \ {w}, p = <<"tx", m>> PROVE FALSE
      <4>1. Waiting(p) = tx_queue[m] /\ Waiting(p)' = tx_queue[m]
        BY <1>1, <3>1 DEF Waiting
      <4>2. Answers(n, Waiting(p)[i])
        BY <1>1, <2>7, <4>1 DEF Answers
      <4> QED BY <2>6, <2>7, <3>1, <4>1, <4>2
    <3>2. ASSUME p = here PROVE FALSE
      <4>1. Waiting(p)' = Tail(tx_queue[w])
        BY <2>1, <3>2 DEF Waiting
      <4>2. /\ i \in Nat /\ i >= 1 /\ i + 1 \in DOMAIN tx_queue[w]
            /\ Waiting(p)'[i] = tx_queue[w][i + 1]
        <5>1. Tail(tx_queue[w]) \in Seq(Frame)
          BY <1>0, <2>1, TailElements
        <5> QED BY <1>0, <2>1, <2>7, <4>1, <5>1, TailElements
      <4>3. Answers(n, tx_queue[w][i + 1])
        BY <1>1, <2>7, <4>2 DEF Answers
      <4>4. i + 1 = 1
        BY <2>2, <2>6, <4>2, <4>3
      <4> QED BY <4>2, <4>4
    <3>3. CASE p = <<"rx", n>>
      <4>1. Waiting(p) = rx[n] /\ Waiting(p)' = rx'[n]
        BY <3>3 DEF Waiting
      <4>2. i \in DOMAIN rx[n] => rx'[n][i] # rx[n][i]
        <5> SUFFICES ASSUME i \in DOMAIN rx[n], rx'[n][i] = rx[n][i] PROVE FALSE
          OBVIOUS
        <5>1. Answers(n, Waiting(p)[i])
          BY <1>1, <2>7, <4>1 DEF Answers
        <5>2. p = here
          BY <2>6, <4>1, <5>1
        <5> QED BY <3>3, <5>2
      <4> QED BY <1>5, <2>7, <3>3, <4>1, <4>2
    <3> QED BY <3>1, <3>2, <3>3 DEF Way
  <2> SUFFICES ASSUME NEW p \in Way(n), NEW q \in Way(n),
                      NEW i \in DOMAIN Waiting(p)', NEW j \in DOMAIN Waiting(q)',
                      Answers(n, Waiting(p)[i])', Answers(n, Waiting(q)[j])'
               PROVE  Answered(n, Waiting(p)[i].from)' /\ p = q /\ i = j
    BY DEF OneAnswer, Way
  <2>8. /\ p = <<"rx", n>> /\ i = Len(rx[n]) + 1 /\ Waiting(p)'[i] = f
        /\ q = <<"rx", n>> /\ j = Len(rx[n]) + 1
    BY <2>7
  <2>9. Answered(n, Waiting(p)[i].from)'
    BY <2>5, <2>8 DEF Answered
  <2> QED BY <2>8, <2>9
<1> QED BY <1>6, <1>7, <1>8, <1>9

LEMMA RepeatedNext ==
    ASSUME Next
    PROVE  repeated \subseteq repeated'
<1>1. CASE Read
  BY <1>1 DEF Read, Ignore, Acknowledged, ReceiveSet, ReceivePing, AdoptAddress, Refuse,
              OfferAddress, MasterRefuse, historyVars
<1>2. CASE Write
  BY <1>2 DEF Write, MasterWriteTick, WriteTick, historyVars
<1>3. CASE Application
  BY <1>3 DEF Application, Connect, SubmitSet, SubmitPing, Submit, historyVars
<1>4. CASE PowerCycle
  BY <1>4 DEF PowerCycle, Restart, RestartMaster, historyVars
<1> QED BY <1>1, <1>2, <1>3, <1>4 DEF Next

LEMMA ExplainedNext ==
    ASSUME LossBase, NEW n \in Node, Explained(n), Next
    PROVE  Explained(n)'
<1> SUFFICES ASSUME Clean(n)' PROVE Copies(n)' /\ OneAnswer(n)' /\ ~Lost(n)'
  BY DEF Explained
<1>1. Clean(n) /\ Copies(n) /\ OneAnswer(n) /\ ~Lost(n)
  <2>1. forgotten = {} /\ repeated \subseteq repeated'
    BY ForgottenNext, RepeatedNext, LossFacts DEF LossBase, Clean
  <2> QED BY <2>1 DEF Clean, Explained
<1>2. ASSUME Quiet(n) PROVE Copies(n)' /\ OneAnswer(n)' /\ ~Lost(n)'
  BY <1>1, <1>2, ExplainedQuiet
<1>3. CASE Read
  <2>1. ASSUME NEW r \in Node, Ignore(r) \/ Acknowledged(r) \/ ReceivePing(r)
        PROVE  Copies(n)' /\ OneAnswer(n)' /\ ~Lost(n)'
    <3>1. CASE Acknowledged(r) /\ r = n
      BY <1>1, <3>1, ExplainedAck
    <3>2. CASE Ignore(r) \/ ReceivePing(r) \/ (Acknowledged(r) /\ r # n)
      BY <1>2, <3>2, QuietNodeRead
    <3> QED BY <2>1, <3>1, <3>2
  <2>2. ASSUME NEW r \in Node, ReceiveSet(r)
        PROVE  Copies(n)' /\ OneAnswer(n)' /\ ~Lost(n)'
    BY <1>1, <2>2, ExplainedReceive
  <2>3. ASSUME NEW c \in Client, AdoptAddress(c) \/ Refuse(c)
        PROVE  Copies(n)' /\ OneAnswer(n)' /\ ~Lost(n)'
    <3>1. CASE AdoptAddress(c) /\ c = n
      BY <1>1, <3>1, ExplainedAdopt
    <3>2. CASE Refuse(c) \/ (AdoptAddress(c) /\ c # n)
      BY <1>2, <3>2, QuietClientRead
    <3> QED BY <2>3, <3>1, <3>2
  <2>4. CASE OfferAddress \/ MasterRefuse
    BY <1>2, <2>4, QuietHubRead
  <2> QED BY <1>3, <2>1, <2>2, <2>3, <2>4 DEF Read
<1>4. CASE Write
  <2>1. PICK w \in Node, f \in Frame : WritesFrame(w, f)
    BY <1>4, WriteSent DEF Clean
  <2> QED BY <1>1, <2>1, ExplainedWrite
<1>5. CASE Application
  BY <1>2, <1>5, QuietApplication
<1>6. CASE PowerCycle
  <2>1. ASSUME NEW c \in Client, Restart(c)
        PROVE  Copies(n)' /\ OneAnswer(n)' /\ ~Lost(n)'
    <3>1. CASE c = n
      BY <1>1, <2>1, <3>1, ExplainedRestart
    <3>2. CASE c # n
      <4>1. Quiet(n)
        BY <2>1, <3>2, QuietPowerCycle
      <4> QED BY <1>2, <4>1
    <3> QED BY <3>1, <3>2
  <2>2. CASE RestartMaster
    <3>1. CASE n = Master
      BY <1>1, <2>2, <3>1, ExplainedHubRestart
    <3>2. CASE n # Master
      <4>1. Quiet(n)
        BY <2>2, <3>2, QuietPowerCycle
      <4> QED BY <1>2, <4>1
    <3> QED BY <3>1, <3>2
  <2> QED BY <1>6, <2>1, <2>2 DEF PowerCycle
<1> QED BY <1>3, <1>4, <1>5, <1>6 DEF Next

LEMMA LossBaseNext ==
    ASSUME LossBase, OneOwner', [Next]_vars
    PROVE  LossBase'
<1>1. JoinInv' /\ SetOrder'
  BY JoinNext, SetOrderNext, LossFacts DEF LossBase
<1>2. CASE Next
  <2>1. OwnBoot'
    BY <1>2, BootsNext, LossFacts DEF LossBase
  <2>2. SignedFrames'
    BY <1>2, SignedNext, LossFacts DEF LossBase
  <2>3. PendingRetained'
    BY <1>2, RetainedNext, LossFacts DEF LossBase
  <2>4. ForgottenGranted'
    BY <1>2, ForgottenNext, LossFacts DEF LossBase
  <2> QED BY <1>1, <2>1, <2>2, <2>3, <2>4 DEF LossBase
<1>3. CASE UNCHANGED vars
  <2>1. UNCHANGED <<node_type, node_id, restarts, grants, forgotten>>
        /\ UNCHANGED <<pending_frame, tx_queue, rx>>
    BY <1>3 DEF vars, nodeVars, historyVars
  <2>2. OwnBoot' /\ PendingRetained' /\ ForgottenGranted'
    BY <2>1 DEF LossBase, OwnBoot, PendingRetained, ForgottenGranted
  <2>3. SignedFrames'
    <3>1. \A n, a : SpokenBy(n, a) => SpokenBy(n, a)'
      BY <2>1 DEF SpokenBy
    <3>2. ASSUME NEW f, Signed(f) PROVE \A g : g = f => Signed(g)'
      BY <3>1, <3>2 DEF Signed
    <3>3. \A n \in Node : Queued(n)' = Queued(n) /\ rx'[n] = rx[n]
      BY <2>1 DEF Queued
    <3>4. ASSUME NEW n \in Node
          PROVE  /\ \A f \in Queued(n)' : \A g : g = f => Signed(g)'
                 /\ \A i \in DOMAIN rx'[n] : \A g : g = rx'[n][i] => Signed(g)'
      BY <3>2, <3>3 DEF LossBase, SignedFrames
    <3>5. /\ \A n \in Node : \A f \in Queued(n)' : Signed(f)'
          /\ \A n \in Node : \A i \in DOMAIN rx'[n] : Signed(rx[n][i])'
      BY <3>4
    <3> QED BY <3>5 DEF SignedFrames
  <2> QED BY <1>1, <2>2, <2>3 DEF LossBase
<1> QED BY <1>1, <1>2, <1>3

LEMMA LossInvNext ==
    ASSUME LossInv, OneOwner', [Next]_vars
    PROVE  LossInv'
<1>1. LossBase'
  BY LossBaseNext DEF LossInv
<1>2. CASE Next
  BY <1>1, <1>2, ExplainedNext DEF LossInv
<1>3. CASE UNCHANGED vars
  <2>1. /\ UNCHANGED <<address, pending_frame, tx_queue, rx>>
        /\ UNCHANGED <<grants, forgotten, seen, repeated, acked>>
    BY <1>3 DEF vars, nodeVars, historyVars
  <2>2. ASSUME NEW n \in Node PROVE Explained(n)'
    <3>1. Explained(n)
      BY DEF LossInv
    <3>2. Copies(n) => Copies(n)'
      BY <2>1 DEF Copies, Listens
    <3>3. OneAnswer(n) => OneAnswer(n)'
      <4>1. ASSUME OneAnswer(n), NEW p \in Way(n), NEW q \in Way(n),
                   NEW i \in DOMAIN Waiting(p)', NEW j \in DOMAIN Waiting(q)',
                   Answers(n, Waiting(p)[i])', Answers(n, Waiting(q)[j])'
            PROVE  Answered(n, Waiting(p)[i].from)' /\ p = q /\ i = j
        <5>1. Waiting(p)' = Waiting(p) /\ Waiting(q)' = Waiting(q)
          BY <2>1 DEF Waiting
        <5>2. Answers(n, Waiting(p)[i]) /\ Answers(n, Waiting(q)[j])
          BY <2>1, <4>1, <5>1 DEF Answers
        <5>3. Answered(n, Waiting(p)[i].from) /\ p = q /\ i = j
          BY <4>1, <5>1, <5>2 DEF OneAnswer
        <5>4. Answered(n, Waiting(p)[i].from)'
          BY <2>1, <5>1, <5>3 DEF Answered, Holds
        <5> QED BY <5>3, <5>4
      <4> QED BY <4>1 DEF OneAnswer, Way
    <3>4. (Clean(n)' => Clean(n)) /\ (~Lost(n) => ~Lost(n)')
      BY <2>1 DEF Clean, Lost
    <3> QED BY <3>1, <3>2, <3>3, <3>4 DEF Explained
  <2> QED BY <1>1, <2>2 DEF LossInv
<1> QED BY <1>2, <1>3

LEMMA LossInit == Init /\ OneOwner => LossInv
<1> SUFFICES ASSUME Init, OneOwner PROVE LossInv
  OBVIOUS
<1>1. DOMAIN <<>> = {}
  OBVIOUS
<1>2. /\ \A n \in Node : /\ pending_frame[n] = None /\ tx_queue[n] = <<>> /\ rx[n] = <<>>
                         /\ acked[n] = 0
      /\ \A c \in Client : node_type[c] = "NotReady"
      /\ forgotten = {}
  BY DEF Init
<1>3. \A n \in Node : Queued(n) = {}
  BY <1>1, <1>2 DEF Queued
<1>4. SignedFrames
  BY <1>1, <1>2, <1>3 DEF SignedFrames
<1>5. OwnBoot /\ PendingRetained /\ ForgottenGranted
  BY <1>2 DEF OwnBoot, PendingRetained, ForgottenGranted
<1>6. LossBase
  BY <1>4, <1>5, JoinInit, SetOrderInit DEF LossBase
<1>7. ASSUME NEW n \in Node PROVE Explained(n)
  <2>1. Copies(n)
    BY <1>1, <1>2 DEF Copies
  <2>2. NoAnswers(n)
    BY <1>1, <1>2 DEF NoAnswers, Way, Waiting
  <2>3. OneAnswer(n)
    BY <2>2 DEF NoAnswers, OneAnswer
  <2>4. ~Lost(n)
    BY <1>2 DEF Lost
  <2> QED BY <2>1, <2>3, <2>4 DEF Explained
<1> QED BY <1>6, <1>7 DEF LossInv

(* A Set whose Ack was accepted did not get through only if an earlier one *)
(* of its sender was handed over twice, or if the hub gave an address up.  *)
THEOREM LossExplained == Spec => []LossNeedsRepeat
<1>1. Pool!PoolInv => OneOwner
  BY DEF Pool!PoolInv, Pool!OfferedOnce, OneOwner
<1>2. LossInv /\ OneOwner' /\ [Next]_vars => LossInv'
  BY LossInvNext
<1>3. LossInv => LossNeedsRepeat
  BY DEF LossInv, Explained, Clean, LossNeedsRepeat
<1> QED BY <1>1, <1>2, <1>3, LossInit, PoolInvariant, Refinement, PTL DEF Spec
=============================================================================
