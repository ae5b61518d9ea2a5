-------------------------- MODULE EndpointListener --------------------------
(***************************************************************************)
(* The hub that is deployed: run_endpoint_listener of the manager, one     *)
(* thread per serial port, with the panels on that port.  It is not the    *)
(* master of imcp/src/lib.rs: it keeps a table of the addresses it gave,   *)
(* answers every frame at once and repeats nothing.  Saving a setting      *)
(* stops the thread and starts another, which knows nothing; refreshing    *)
(* the devices probes the port in between (probe_endpoint_root_device).    *)
(***************************************************************************)
EXTENDS PanelFirmware

CONSTANTS
    ImcpHub,       \* the panels whose device kind is ImcpHub
    Assigned,      \* the panels that have a role
    PortCap,       \* frames the serial port buffers for the manager
    MaxOpenings    \* bound: how often the manager opens the port

ASSUME EndpointAssumption ==
    /\ ImcpHub \subseteq Node /\ Assigned \subseteq Node
    /\ PortCap \in Nat \ {0} /\ MaxOpenings \in Nat

VARIABLES
    mode,               \* what the manager does with the port
    port,               \* frames the manager has received and not handled
    join_addresses,     \* [Id -> Address], None where there is no entry
    next_address,
    known_devices,      \* [Address -> Node], None where there is no entry
    requested_children,
    pressed_buttons,
    assigned_address,   \* of the probe
    openings,           \* History: how often the port was opened
    strangers,          \* History: panels that were up when the listener began
    exhausted,          \* History: the broadcast address was given to a panel
    pushes              \* History: ButtonPushed of each device in this session

tables == <<join_addresses, next_address, known_devices,
            requested_children, pressed_buttons>>
managerVars ==
    <<mode, port, tables, assigned_address, openings, strangers, exhausted, pushes>>
vars == <<nodeVars, panelVars, managerVars>>

TypeOK ==
    /\ PanelTypeOK
    /\ mode \in {"closed", "listen", "probe", "children"}
    /\ port \in Seq(Frame)
    /\ join_addresses \in [Id -> (FirstAddress .. Broadcast) \cup {None}]
    /\ next_address \in FirstAddress .. Broadcast
    /\ known_devices \in [Address -> Node \cup {None}]
    /\ requested_children \in SUBSET Address
    /\ pressed_buttons \in SUBSET Node
    /\ assigned_address \in {FirstAddress, None}
    /\ openings \in 0 .. MaxOpenings
    /\ strangers \in SUBSET Node
    /\ exhausted \in BOOLEAN
    /\ pushes \in [Node -> Nat]

NoAddresses == [id \in Id |-> None]
NoDevices   == [a \in Address |-> None]
NoPushes    == [p \in Node |-> 0]

Init ==
    /\ PanelInit
    /\ mode = "closed"
    /\ port = <<>>
    /\ assigned_address = None
    /\ openings = 0
    /\ strangers = {}
    /\ exhausted = FALSE
    /\ join_addresses = NoAddresses
    /\ next_address = FirstAddress
    /\ known_devices = NoDevices
    /\ requested_children = {}
    /\ pressed_buttons = {}
    /\ pushes = NoPushes

-----------------------------------------------------------------------------
(* The bus.  The port hears what a panel writes, or does not.  Panels write *)
(* to the hub only, so that another panel drops what it overhears unread;  *)
(* that it meanwhile had no room for an answer is one way to lose that.    *)

PortHears(f) ==
    IF mode = "closed" \/ Len(port) >= PortCap THEN {port}
    ELSE {port, Append(port, f)}

PanelTransmits(p) ==
    /\ PanelWrite(p, {})
    /\ port' \in PortHears(Outgoing(p))
    /\ UNCHANGED <<mode, tables, assigned_address, openings, strangers,
                   exhausted, pushes>>

Reachable == {p \in Node : HasRoom(p)}

PanelStep(p) ==
    /\ \/ PanelJoin(p)
       \/ Scan(p)
       \/ ReportEdge(p)
       \/ PanelRead(p)
       \/ PowerCycle(p)
    /\ UNCHANGED managerVars

-----------------------------------------------------------------------------
(* The loop of run_endpoint_listener, one frame per step.                  *)

Received == Head(port)

Receives(in, type) ==
    /\ mode = in
    /\ port # <<>>
    /\ port' = Tail(port)
    /\ Received.type = type


\* write_frame puts an answer on the bus at once and keeps nothing of it.
Ask(a) == Set(a, MasterAddress, RequestHello)

Confirm == Ack(Received.from, MasterAddress, Received.to)

SessionUnchanged == UNCHANGED <<mode, assigned_address, openings, strangers>>
ManagerUnchanged == SessionUnchanged /\ UNCHANGED exhausted

PanelsOnlyHear ==
    /\ UNCHANGED <<node_type, node_id, address, pending_frame, tx_queue, halted>>
    /\ UNCHANGED panelVars

(* The entry of join_addresses for id, made when there is none.            *)
Offer(id) ==
    IF join_addresses[id] # None THEN join_addresses[id] ELSE next_address

(* Mutant: the next address is not advanced.                               *)
SameAddress(id) == next_address

(* Mutant: the address does not saturate.                                  *)
AddressAfter(id) ==
    IF join_addresses[id] # None THEN next_address ELSE next_address + 1

\* saturating_add
NextAddress(id) ==
    IF join_addresses[id] # None \/ next_address = Broadcast THEN next_address
    ELSE next_address + 1

(* Mutant: a Join that has an entry is not answered again.                 *)
HandleJoinOnce(heard) ==
    /\ Receives("listen", "Join")
    /\ LET id == Received.id
       IN  /\ join_addresses' = [join_addresses EXCEPT ![id] = Offer(id)]
           /\ next_address' = NextAddress(id)
           /\ exhausted' = (exhausted \/ Offer(id) = Broadcast)
           /\ Transmit(SetAddress(Unassigned, MasterAddress, Offer(id), id),
                       IF join_addresses[id] = None THEN heard ELSE {})
    /\ UNCHANGED <<known_devices, requested_children, pressed_buttons, pushes>>
    /\ SessionUnchanged

(* A Join is answered with the address its identifier has.                 *)
HandleJoin(heard) ==
    /\ Receives("listen", "Join")
    /\ LET id == Received.id
       IN  /\ join_addresses' = [join_addresses EXCEPT ![id] = Offer(id)]
           /\ next_address' = NextAddress(id)
           /\ exhausted' = (exhausted \/ Offer(id) = Broadcast)
           /\ Transmit(SetAddress(Unassigned, MasterAddress, Offer(id), id), heard)
    /\ UNCHANGED <<known_devices, requested_children, pressed_buttons, pushes>>
    /\ SessionUnchanged

(* Mutant: every panel is asked, not only a hub.                           *)
AsksAnyone(d, a) == a \notin requested_children

AsksDevices(d, a) == d \in ImcpHub /\ a \notin requested_children

(* A hello is confirmed and entered under the address it came from; a hub  *)
(* is asked, once, to have its devices introduce themselves.               *)
HandleHello(heard, asked) ==
    /\ Receives("listen", "Set")
    /\ Received.body.kind = "DeviceHello"
    /\ known_devices' = [known_devices EXCEPT ![Received.from] = Received.body.device]
    /\ IF AsksDevices(Received.body.device, Received.from)
         THEN /\ requested_children' = requested_children \cup {Received.from}
              /\ rx' = [p \in Node |->
                          rx[p] \o (IF p \in heard THEN <<Confirm>> ELSE <<>>)
                                \o (IF p \in asked THEN <<Ask(Received.from)>> ELSE <<>>)]
         ELSE /\ asked = {}
              /\ UNCHANGED requested_children
              /\ Transmit(Confirm, heard)
    /\ UNCHANGED <<join_addresses, next_address, pressed_buttons, pushes>>
    /\ ManagerUnchanged

(* Mutant: a release does not take the button out of pressed_buttons.      *)
ReleaseKeeps(d) ==
    /\ pushes' = IF d \in pressed_buttons THEN [pushes EXCEPT ![d] = @ + 1]
                 ELSE pushes
    /\ UNCHANGED pressed_buttons

(* A release after a press is a ButtonPushed.                              *)
Release(d) ==
    /\ pressed_buttons' = pressed_buttons \ {d}
    /\ pushes' = IF d \in pressed_buttons THEN [pushes EXCEPT ![d] = @ + 1]
                 ELSE pushes

(* process_control_event, for the device that the table names.  An event   *)
(* from an address it does not know is confirmed and ignored; so is one    *)
(* of a kind of device without controls in the catalog, or without a role. *)
ProcessControlEvent(d, pressed) ==
    IF d = None \/ d \in ImcpHub \/ d \notin Assigned
      THEN UNCHANGED <<pressed_buttons, pushes>>
    ELSE IF pressed THEN /\ pressed_buttons' = pressed_buttons \cup {d}
                         /\ UNCHANGED pushes
    ELSE Release(d)

HandleControlEvent(heard) ==
    /\ Receives("listen", "Set")
    /\ Received.body.kind = "Button"
    /\ Transmit(Confirm, heard)
    /\ ProcessControlEvent(known_devices[Received.from], Received.body.pressed)
    /\ UNCHANGED <<join_addresses, next_address, known_devices, requested_children>>
    /\ ManagerUnchanged

(* Frames of other types are not for the manager.                          *)
SkipFrame ==
    /\ mode # "closed" /\ port # <<>>
    /\ port' = Tail(port)
    /\ \/ Received.type \notin {"Join", "Set"}
       \/ Received.type = "Set" /\ Received.body.kind = "Button" /\ mode # "listen"
       \/ Received.type = "Join" /\ mode = "children"
    /\ UNCHANGED <<rx, tables, pushes>>
    /\ ManagerUnchanged

-----------------------------------------------------------------------------
(* probe_endpoint_root_device: every Join gets one and the same address,   *)
(* the first hello is confirmed and ends the probe.                        *)

ProbeJoin(heard) ==
    /\ Receives("probe", "Join")
    /\ assigned_address' = FirstAddress
    /\ Transmit(SetAddress(Unassigned, MasterAddress, FirstAddress, Received.id), heard)
    /\ UNCHANGED <<mode, tables, openings, strangers, exhausted, pushes>>

(* What the settings say of the device at an endpoint.                     *)
RoleHint == {"Auto", "DirectDevice", "ImcpHub"}

AsksChildren(role_hint, d) ==
    role_hint = "ImcpHub" \/ (role_hint = "Auto" /\ d \in ImcpHub)

(* The device is asked for those behind it, even if it is no hub when the  *)
(* settings call it one.  The port stays open then; what was read together *)
(* with the hello is lost, for the answers get a new parser.               *)
ProbeHello(heard, asked) ==
    /\ mode = "probe" /\ port # <<>>
    /\ Received.type = "Set" /\ Received.body.kind = "DeviceHello"
    /\ assigned_address' = None
    /\ IF assigned_address = None
         THEN mode' = "closed" /\ port' = <<>> /\ heard = {} /\ asked = {} /\ UNCHANGED rx
       ELSE \E role_hint \in RoleHint :
         IF AsksChildren(role_hint, Received.body.device)
         THEN /\ mode' = "children"
              /\ \E n \in 1 .. Len(port) : port' = SubSeq(port, n + 1, Len(port))
              /\ rx' = [p \in Node |->
                          rx[p] \o (IF p \in heard THEN <<Confirm>> ELSE <<>>)
                                \o (IF p \in asked THEN <<Ask(assigned_address)>> ELSE <<>>)]
         ELSE mode' = "closed" /\ port' = <<>> /\ asked = {} /\ Transmit(Confirm, heard)
    /\ UNCHANGED <<tables, openings, strangers, exhausted, pushes>>

(* enumerate_children_via_hub confirms what the devices say.               *)
ChildHello(heard) ==
    /\ Receives("children", "Set")
    /\ Received.body.kind = "DeviceHello"
    /\ Transmit(Confirm, heard)
    /\ UNCHANGED <<tables, pushes>>
    /\ ManagerUnchanged

ManagerStep ==
    /\ \/ SkipFrame
       \/ \E heard \in SUBSET Reachable :
             \/ HandleJoin(heard)
             \/ HandleControlEvent(heard)
             \/ ProbeJoin(heard)
             \/ ChildHello(heard)
             \/ \E asked \in SUBSET {p \in Reachable : p \in heard => Len(rx[p]) + 2 <= RxCap} :
                   HandleHello(heard, asked) \/ ProbeHello(heard, asked)
    /\ PanelsOnlyHear

-----------------------------------------------------------------------------
(* The port is opened and cleared.  The tables are local to the thread:    *)
(* they are empty when it starts, and gone when it ends.                   *)
Open(for) ==
    /\ mode = "closed" /\ openings < MaxOpenings
    /\ mode' = for
    /\ openings' = openings + 1
    /\ port' = <<>>
    /\ UNCHANGED <<nodeVars, panelVars, tables, assigned_address, exhausted, pushes>>

StartListener ==
    /\ Open("listen")
    /\ strangers' = {p \in Node : node_type[p] # "NotReady"}

StartProbe == Open("probe") /\ UNCHANGED strangers

(* The stop flag, the time-out of a probe, or an error of the port.        *)
ClosePort ==
    /\ mode # "closed"
    /\ mode' = "closed"
    /\ port' = <<>>
    /\ assigned_address' = None
    /\ strangers' = {}
    /\ join_addresses' = NoAddresses
    /\ next_address' = FirstAddress
    /\ known_devices' = NoDevices
    /\ requested_children' = {}
    /\ pressed_buttons' = {}
    /\ pushes' = NoPushes
    /\ UNCHANGED <<nodeVars, panelVars, openings, exhausted>>

Next ==
    \/ \E p \in Node :
          \/ PanelStep(p)
          \/ PanelTransmits(p)
    \/ ManagerStep
    \/ StartListener
    \/ StartProbe
    \/ ClosePort

Spec == Init /\ [][Next]_vars

(* The listener answers the Join or the hello of p, and heard hear it.     *)
Answers(p, heard) ==
    /\ \/ HandleJoin(heard) /\ Received.id = node_id[p]
       \/ HandleHello(heard, {}) /\ Received.body.device = p
    /\ PanelsOnlyHear

(* imcp_task and the listener go on; of the frames that a panel repeats,   *)
(* and of the answers to them, if there is no last one then there is no    *)
(* last one heard.                                                         *)
Fairness ==
    /\ WF_vars(ManagerStep)
    /\ \A p \in Node :
          /\ WF_vars(PanelRead(p) /\ UNCHANGED managerVars)
          /\ WF_vars(PanelTransmits(p))
          /\ []<><<PanelTransmits(p)>>_vars
                => []<><<PanelTransmits(p) /\ port' # port>>_vars
          /\ []<><<\E heard \in SUBSET Reachable : Answers(p, heard)>>_vars
                => []<><<\E heard \in SUBSET Reachable :
                             p \in heard /\ Answers(p, heard)>>_vars

FairSpec == Spec /\ Fairness

-----------------------------------------------------------------------------
(* What the listener promises, it promises to panels that joined under it: *)
(* a listener that finds panels already up may give their addresses to     *)
(* others.                                                                 *)
InSession == mode = "listen" /\ strangers = {}

(* And until it runs out of addresses: after the last one it gives out the *)
(* broadcast address, to every later panel; frames to that address reach   *)
(* panels of later sessions, too.                                          *)
InOrder == InSession /\ ~exhausted

(* No two panels answer to one address, whatever Joins and offers were     *)
(* lost, repeated or overtaken by a power cycle, save where the addresses  *)
(* have run out and it is the broadcast address.                           *)
UniqueAddress ==
    InSession => \A p, q \in Node :
        node_type[p] = "Ready" /\ node_type[q] = "Ready" /\ address[p] = address[q]
            => p = q \/ address[p] = Broadcast

(* An event is taken for one of the panel that sent it: process_control_   *)
(* event looks its address up in known_devices, and finds that panel even  *)
(* if the panel has left since or has come back with another address.      *)
EventsAttributed ==
    InOrder /\ port # <<>> /\ Received.type = "Set" /\ Received.body.kind = "Button"
        => known_devices[Received.from] = Received.body.device

(* A hello is queued once, with try_send, and an Ack names no frame; still *)
(* the listener knows every panel that no longer repeats its hello.        *)
HelloArrives ==
    InOrder => \A p \in Node :
        node_type[p] = "Ready" /\ ~HelloPending(p)
            => known_devices[address[p]] = p

(* The listener ignores the sequence numbers of events and handles a       *)
(* repeated frame again; that never makes two pushes of one press.         *)
PushesNeedPresses ==
    InOrder => \A p \in Node : pushes[p] <= presses[p]

(* read_tick awaits room in the channel that its own task empties, so a    *)
(* panel that is sent a Set while its channel is full of events stops for  *)
(* good.  The listener sends Sets to hubs only: no other panel ever stops, *)
(* and no hub before it has an address.  A probe may send one to any panel *)
(* that the settings call a hub: such a panel is a stranger later.         *)
NoPanelStops ==
    InOrder => \A p \in halted : p \in ImcpHub /\ node_type[p] = "Ready"

(* A panel that asks for an address while the listener listens becomes     *)
(* known to it, though every frame of the exchange may be lost: Joins and  *)
(* hellos are repeated, and their answers are given again.                 *)
Introduced ==
    \A p \in Node :
        InOrder /\ node_type[p] = "Joining"
            ~> \/ ~InOrder
               \/ node_type[p] = "NotReady"
               \/ known_devices[address[p]] = p

(* hcp/README.md promises reliable delivery of control events: an event    *)
(* that the listener confirms is not one of a device it does not know.     *)
EventsReachMapping ==
    mode = "listen" /\ port # <<>> /\ Received.type = "Set" /\ Received.body.kind = "Button"
        => known_devices[Received.from] # None
=============================================================================
