--------------------------- MODULE PanelFirmware ---------------------------
(***************************************************************************)
(* The firmware of a panel, firmware/upper_panel_ddi with the firmware     *)
(* base, on top of the client of ImcpNode: the task that scans the         *)
(* buttons, the main loop that reports their edges, and imcp_task, which   *)
(* joins the bus and introduces the panel once it has an address.          *)
(*                                                                         *)
(* The three tasks share one executor and hold the mutexes over no await,  *)
(* so each action is one run of a task between awaits and no try_lock      *)
(* fails.  A panel has one button; every further one behaves like it.      *)
(***************************************************************************)
EXTENDS ImcpNode

CONSTANT MaxPresses   \* bound: presses each panel reports

ASSUME PressesAssumption == MaxPresses \in [Node -> Nat]

Hello(p)     == [kind |-> "DeviceHello", device |-> p]
RequestHello == [kind |-> "RequestDeviceHello"]

\* A Button carries no device and no number on the wire: there they are
\* history, the panel that truly sent the event and which of its presses it is.
Button(p, pressed, n) ==
    [kind |-> "Button", device |-> p, pressed |-> pressed, press |-> n]

Buttons ==
    UNION {{Button(p, pressed, n) : pressed \in BOOLEAN, n \in 0 .. MaxPresses[p]} :
             p \in Node}

PanelBody == {Hello(p) : p \in Node} \cup Buttons \cup {RequestHello}

ASSUME BodyAssumption == PanelBody \subseteq Body

ASSUME OptionAssumption == None \notin Node \cup Id \cup Address

(* The channel holds the Ack of an address and the hello behind it.        *)
ASSUME ChannelAssumption == QueueCap >= 2

VARIABLES
    level,      \* RESULT: the level the scan last read
    old,        \* the level the main loop last saw
    runtime,    \* the address in DEVICE_STATE, or None
    drawn,      \* History: identifiers the generators have produced
    presses     \* History: presses the main loop saw, of each panel

panelVars == <<level, old, runtime, drawn, presses>>

PanelTypeOK ==
    /\ NodeTypeOK
    /\ level \in [Node -> BOOLEAN]
    /\ old \in [Node -> BOOLEAN]
    /\ runtime \in [Node -> Address \cup {None}]
    /\ drawn \in SUBSET Id
    /\ presses \in [Node -> Nat] /\ \A p \in Node : presses[p] <= MaxPresses[p]

PanelInit ==
    /\ node_type = [p \in Node |-> "NotReady"]
    /\ node_id = [p \in Node |-> None]
    /\ address = [p \in Node |-> Unassigned]
    /\ pending_frame = [p \in Node |-> None]
    /\ tx_queue = [p \in Node |-> <<>>]
    /\ rx = [p \in Node |-> <<>>]
    /\ halted = {}
    /\ level = [p \in Node |-> FALSE]
    /\ old = [p \in Node |-> FALSE]
    /\ runtime = [p \in Node |-> None]
    /\ drawn = {}
    /\ presses = [p \in Node |-> 0]

-----------------------------------------------------------------------------
(* imcp_task starts: send_join with an identifier from the random number   *)
(* generator, which does not repeat one of another start.                  *)
PanelJoin(p) ==
    /\ node_type[p] = "NotReady"
    /\ \E id \in Id \ drawn :
          /\ SendJoin(p, id)
          /\ drawn' = drawn \cup {id}
    /\ UNCHANGED <<level, old, runtime, presses>>

(* scan_matrix reads a level that has changed.                             *)
Scan(p) ==
    /\ level[p] \/ presses[p] < MaxPresses[p]
    /\ level' = [level EXCEPT ![p] = ~@]
    /\ UNCHANGED <<old, runtime, drawn, presses, nodeVars>>

(* enqueue_control_event: without an address the event is lost, with a     *)
(* full channel too.                                                       *)
EnqueueControlEvent(p, n) ==
    IF runtime[p] = None THEN UNCHANGED tx_queue
    ELSE TrySend(p, Set(MasterAddress, runtime[p], Button(p, level[p], n)))

(* The main loop finds an edge.                                            *)
ReportEdge(p) ==
    /\ level[p] # old[p]
    /\ LET n == IF level[p] THEN presses[p] + 1 ELSE presses[p]
       IN  /\ EnqueueControlEvent(p, n)
           /\ presses' = [presses EXCEPT ![p] = n]
    /\ old' = [old EXCEPT ![p] = level[p]]
    /\ UNCHANGED <<node_type, node_id, address, pending_frame, rx, halted>>
    /\ UNCHANGED <<level, runtime, drawn>>

-----------------------------------------------------------------------------
(* imcp_task: read_tick, then handle_incoming_frame.                       *)

(* Mutant: the panel takes its address and does not introduce itself.      *)
AcceptAddressSilently(p) ==
    /\ ClientAdoptAddress(p)
    /\ runtime' = [runtime EXCEPT ![p] = Incoming(p).address]
    /\ UNCHANGED <<level, old, drawn, presses>>

(* Mutant: the firmware takes the address that the panel had.              *)
AcceptAddressStale(p) ==
    /\ TakeOffer(p)
    /\ AckIncoming(p, Incoming(p).address)
    /\ runtime' = [runtime EXCEPT ![p] = address[p]]
    /\ UNCHANGED <<level, old, drawn, presses>>

(* The address is assigned: read_tick queues the Ack, or stops where the   *)
(* channel is full; then the firmware takes the address over, and queues   *)
(* a hello unless that no longer fits.                                     *)
AcceptAddress(p) ==
    /\ TakeOffer(p)
    /\ IF QueueFull(p)
         THEN AckIncoming(p, Incoming(p).address) /\ UNCHANGED runtime
         ELSE LET a     == Incoming(p).address
                  ack   == Ack(Incoming(p).from, a, Incoming(p).to)
                  hello == Set(MasterAddress, a, Hello(p))
              IN  /\ tx_queue' = [tx_queue EXCEPT ![p] =
                                    IF Len(@) + 1 < QueueCap THEN @ \o <<ack, hello>>
                                    ELSE Append(@, ack)]
                  /\ runtime' = [runtime EXCEPT ![p] = a]
                  /\ UNCHANGED halted
    /\ UNCHANGED <<level, old, drawn, presses>>

(* Every other frame is of no interest to the firmware.                    *)
PanelReadOther(p) ==
    /\ \/ ReadIgnored(p)
       \/ ReadAck(p)
       \/ ReadSet(p)
       \/ ReadPing(p)
       \/ ClientReackAddress(p)
       \/ ClientRefuse(p)
    /\ UNCHANGED panelVars

PanelRead(p) == AcceptAddress(p) \/ PanelReadOther(p)

(* The frame that the next write_tick puts on the bus.                     *)
Outgoing(p) ==
    IF pending_frame[p] # None THEN pending_frame[p] ELSE Head(tx_queue[p])

PanelWrite(p, heard) == ClientWriteTick(p, heard) /\ UNCHANGED panelVars

(* The panel loses power and starts again.                                 *)
PowerCycle(p) ==
    /\ ClientRestart(p)
    /\ level' = [level EXCEPT ![p] = FALSE]
    /\ old' = [old EXCEPT ![p] = FALSE]
    /\ runtime' = [runtime EXCEPT ![p] = None]
    /\ UNCHANGED <<drawn, presses>>

-----------------------------------------------------------------------------
(* The firmware keeps its own copy of the address that read_tick assigns,  *)
(* and signs its events with that copy: the two must not disagree.         *)
AddressesAgree ==
    \A p \in Node \ halted :
        runtime[p] = IF node_type[p] = "Ready" THEN address[p] ELSE None

(* The hello of p waits in its channel, or is repeated until it is settled. *)
HelloPending(p) ==
    \/ pending_frame[p] # None /\ pending_frame[p].type = "Set"
       /\ pending_frame[p].body = Hello(p)
    \/ \E i \in DOMAIN tx_queue[p] :
          tx_queue[p][i].type = "Set" /\ tx_queue[p][i].body = Hello(p)
=============================================================================
