--------------------------- MODULE ImcpNodeProofs ---------------------------
(***************************************************************************)
(* Lemmas about the operators of a station, for whatever is built of them. *)
(***************************************************************************)
EXTENDS ImcpNode, TLAPS

USE NodeAssumption, NoneAssumption

-----------------------------------------------------------------------------
(* Sequences.                                                              *)

LEMMA TailElements ==
    ASSUME NEW S, NEW s \in Seq(S), s # <<>>
    PROVE  /\ Tail(s) \in Seq(S) /\ Head(s) \in S
           /\ Head(s) = s[1] /\ 1 \in DOMAIN s
           /\ Len(Tail(s)) = Len(s) - 1
           /\ \A i \in DOMAIN Tail(s) : i + 1 \in DOMAIN s /\ Tail(s)[i] = s[i + 1]
           /\ \A i \in DOMAIN Tail(s) : i \in Nat
OBVIOUS

LEMMA AppendElements ==
    ASSUME NEW S, NEW s \in Seq(S), NEW f \in S
    PROVE  /\ Append(s, f) \in Seq(S)
           /\ Len(Append(s, f)) = Len(s) + 1
           /\ \A i \in DOMAIN Append(s, f) :
                 \/ i \in DOMAIN s /\ Append(s, f)[i] = s[i]
                 \/ i = Len(s) + 1 /\ Append(s, f)[i] = f
           /\ \A i \in DOMAIN s : i \in DOMAIN Append(s, f) /\ Append(s, f)[i] = s[i]
           /\ \A i \in DOMAIN s : i \in Nat /\ i < Len(s) + 1
OBVIOUS

LEMMA ConcatElements ==
    ASSUME NEW S, NEW s \in Seq(S), NEW t \in Seq(S)
    PROVE  /\ s \o t \in Seq(S)
           /\ Len(s \o t) = Len(s) + Len(t)
           /\ \A i \in DOMAIN (s \o t) :
                 \/ i \in DOMAIN s /\ (s \o t)[i] = s[i]
                 \/ i \notin DOMAIN s /\ i - Len(s) \in DOMAIN t
                    /\ (s \o t)[i] = t[i - Len(s)]
           /\ \A i \in DOMAIN s : i \in DOMAIN (s \o t)
OBVIOUS

-----------------------------------------------------------------------------
(* Frames and the operators that move them.                                *)

LEMMA FrameFields ==
    ASSUME NEW f \in Frame
    PROVE  /\ f.to \in Address /\ f.from \in Address
           /\ f.type \in {"Ack", "Join", "SetAddress", "Set", "Ping", "Pong", "Data"}
           /\ f.type = "Ack" => f.data \in Address
           /\ f.type = "Join" => f.id \in Id
           /\ f.type = "SetAddress" => f.id \in Id /\ f.address \in Address
           /\ f.type = "Set" => f.body \in Body
BY DEF Frame

LEMMA FrameConstructors ==
    ASSUME NEW to \in Address, NEW from \in Address
    PROVE  /\ \A data \in Address : Ack(to, from, data) \in Frame
           /\ \A id \in Id : Join(to, from, id) \in Frame
           /\ \A a \in Address, id \in Id : SetAddress(to, from, a, id) \in Frame
           /\ \A body \in Body : Set(to, from, body) \in Frame
           /\ Ping(to, from) \in Frame /\ Pong(to, from) \in Frame
BY DEF Frame, Ack, Join, SetAddress, Set, Ping, Pong

LEMMA Addresses ==
    /\ Unassigned \in Address /\ MasterAddress \in Address
    /\ Broadcast \in Address
    /\ \A a \in FirstAddress .. Broadcast : a \in Address
BY DEF Address, Unassigned, MasterAddress, FirstAddress, Broadcast

(* A node that reads takes a frame off a queue of frames.                  *)
LEMMA ReadFrame ==
    ASSUME NodeTypeOK, NEW n \in Node, Reading(n), TakeFrame(n)
    PROVE  /\ Incoming(n) \in Frame
           /\ rx' \in [Node -> Seq(Frame)]
           /\ \A m \in Node \ {n} : rx'[m] = rx[m]
           /\ rx'[n] = Tail(rx[n])
           /\ Incoming(n) = rx[n][1] /\ 1 \in DOMAIN rx[n]
<1>1. rx[n] \in Seq(Frame) /\ rx[n] # <<>>
  BY DEF NodeTypeOK, Reading
<1>2. Head(rx[n]) \in Frame /\ Tail(rx[n]) \in Seq(Frame)
  BY <1>1
<1>3. Head(rx[n]) = rx[n][1] /\ 1 \in DOMAIN rx[n]
  BY <1>1
<1> QED BY <1>2, <1>3 DEF NodeTypeOK, TakeFrame, Incoming

LEMMA EnqueueType ==
    ASSUME NodeTypeOK, NEW n \in Node, NEW f \in Frame, Enqueue(n, f)
    PROVE  tx_queue' \in [Node -> Seq(Frame)] /\ halted' \in SUBSET Node
<1>1. Append(tx_queue[n], f) \in Seq(Frame)
  BY DEF NodeTypeOK
<1> QED BY <1>1 DEF NodeTypeOK, Enqueue

LEMMA SendType ==
    ASSUME NodeTypeOK, NEW n \in Node, NEW f \in Frame, NEW rest \in Seq(Frame),
           NEW heard, Send(n, f, rest, heard)
    PROVE  /\ pending_frame' \in [Node -> Frame \cup {None}]
           /\ tx_queue' \in [Node -> Seq(Frame)]
           /\ rx' \in [Node -> Seq(Frame)]
BY DEF NodeTypeOK, Send, Transmit

(* What write_tick has to send is a frame, and leaves a queue of frames.   *)
LEMMA QueueParts ==
    ASSUME NodeTypeOK, NEW n \in Node, tx_queue[n] # <<>>
    PROVE  Head(tx_queue[n]) \in Frame /\ Tail(tx_queue[n]) \in Seq(Frame)
BY DEF NodeTypeOK

LEMMA WriteType ==
    ASSUME NodeTypeOK, NEW n \in Node, NEW heard,
           Resend(n, heard) \/ SendNext(n, heard)
    PROVE  /\ pending_frame' \in [Node -> Frame \cup {None}]
           /\ tx_queue' \in [Node -> Seq(Frame)]
           /\ rx' \in [Node -> Seq(Frame)]
<1>1. CASE Resend(n, heard)
  <2>1. pending_frame[n] \in Frame /\ tx_queue[n] \in Seq(Frame)
    BY <1>1 DEF Resend, NodeTypeOK
  <2> QED BY <1>1, <2>1, SendType DEF Resend
<1>2. CASE SendNext(n, heard)
  BY <1>2, SendType, QueueParts DEF SendNext
<1> QED BY <1>1, <1>2

-----------------------------------------------------------------------------
(* The frames that a node has for the bus, and what its steps do to them.  *)

Queued(p) ==
    ({pending_frame[p]} \cup {tx_queue[p][i] : i \in DOMAIN tx_queue[p]}) \ {None}

LEMMA ReadShift ==
    ASSUME NodeTypeOK, NEW p \in Node, Reading(p), TakeFrame(p)
    PROVE  /\ rx' \in [Node -> Seq(Frame)]
           /\ \A q \in Node \ {p} : rx'[q] = rx[q]
           /\ \A i \in DOMAIN rx'[p] :
                 i \in Nat /\ i + 1 \in DOMAIN rx[p] /\ rx'[p][i] = rx[p][i + 1]
           /\ Incoming(p) = rx[p][1] /\ 1 \in DOMAIN rx[p] /\ Incoming(p) \in Frame
<1>1. rx[p] \in Seq(Frame) /\ rx[p] # <<>>
  BY DEF NodeTypeOK, Reading
<1>2. \A i \in DOMAIN Tail(rx[p]) :
         i \in Nat /\ i + 1 \in DOMAIN rx[p] /\ Tail(rx[p])[i] = rx[p][i + 1]
  BY <1>1, TailElements
<1> QED BY <1>2, ReadFrame

LEMMA EnqueueEffect ==
    ASSUME NodeTypeOK, NEW p \in Node, NEW f \in Frame, Enqueue(p, f)
    PROVE  /\ tx_queue' \in [Node -> Seq(Frame)] /\ halted' \in SUBSET Node
           /\ \A q \in Node \ {p} : tx_queue'[q] = tx_queue[q]
           /\ \/ Len(tx_queue[p]) >= QueueCap /\ tx_queue' = tx_queue /\ halted' = halted \cup {p}
              \/ Len(tx_queue[p]) < QueueCap /\ halted' = halted
                 /\ tx_queue'[p] = Append(tx_queue[p], f)
<1>1. tx_queue' \in [Node -> Seq(Frame)] /\ halted' \in SUBSET Node
  BY EnqueueType
<1>2. Len(tx_queue[p]) \in Nat /\ QueueCap \in Nat
  BY DEF NodeTypeOK
<1> QED BY <1>1, <1>2 DEF Enqueue, QueueFull, NodeTypeOK

LEMMA AppendQueued ==
    ASSUME NodeTypeOK, NEW p \in Node, NEW f \in Frame,
           tx_queue'[p] = Append(tx_queue[p], f), pending_frame'[p] = pending_frame[p]
    PROVE  Queued(p)' \subseteq Queued(p) \cup {f}
<1>1. tx_queue[p] \in Seq(Frame)
  BY DEF NodeTypeOK
<1>2. \A i \in DOMAIN tx_queue'[p] :
         \/ i \in DOMAIN tx_queue[p] /\ tx_queue'[p][i] = tx_queue[p][i]
         \/ tx_queue'[p][i] = f
  BY <1>1, AppendElements
<1> QED BY <1>2 DEF Queued

LEMMA SameQueued ==
    ASSUME NEW p \in Node, tx_queue'[p] = tx_queue[p],
           pending_frame'[p] \in {None, pending_frame[p]}
    PROVE  Queued(p)' \subseteq Queued(p)
BY DEF Queued

(* A frame f leaves node n, and any other node may hear it.                *)
Sent(n, f, rest) ==
    /\ pending_frame'[n] = IF f.type \in Retained THEN f ELSE None
    /\ tx_queue'[n] = rest
    /\ \A m \in Node \ {n} : pending_frame'[m] = pending_frame[m] /\ tx_queue'[m] = tx_queue[m]
    /\ \A m \in Node : rx'[m] \in {rx[m], Append(rx[m], f)}

LEMMA SendEffect ==
    ASSUME NodeTypeOK, NEW n \in Node, NEW f \in Frame, NEW rest, NEW heard,
           Send(n, f, rest, heard)
    PROVE  Sent(n, f, rest)
BY DEF NodeTypeOK, Send, Transmit, Sent

=============================================================================
