# A TLA+ model of HomeCockpit

HomeCockpit connects home-built cockpit panels to the flight simulator DCS. A
panel's microcontroller reads switches and joins a shared RS-485 bus that speaks
IMCP; a manager program on the PC is the hub of the bus, turns the control
events it receives (HCP packets in IMCP `Set` frames) into DCS-BIOS commands,
and shows the state in a desktop interface.

The modules here model the parts of that program where order, loss and restarts
decide whether it works. They are translated from the sources under `src/`;
`PROJECT.json` maps every definition to the lines it stands for.

1. [Inventory](#inventory)
2. [Modules](#modules)
3. [Runs](#runs)
4. [Fairness](#fairness)
5. [Proofs](#proofs)
6. [What the model shows about the code](#what-the-model-shows-about-the-code)
7. [Plan, and what is not modelled](#plan-and-what-is-not-modelled)

## Inventory

| component | state | operations | talks to |
|---|---|---|---|
| IMCP core, `imcp/src/lib.rs` | kind of node, address, identifier, `pending_frame`; the hub: `next_address`, `pending_assignment`, its retries | `send_join`, `write_tick`, `read_tick` | its own transmit channel, its parser, the bus |
| IMCP codec, `imcp/src/frame.rs` | none | `encode`, `decode` | - |
| IMCP parser, `imcp/src/parser.rs` | `rx_buffer`, `frame_buffer`, `state`, `is_escaping` | `write_data`, `next_frame` | called by `read_tick` and by the manager |
| channels, `imcp-embassy`, `imcp-tokio` | a queue: 5 frames in the firmware | `send().await`, `try_send`, `receive` | application tasks, `write_tick` |
| UART driver, `imcp-embedded` | DE pin, time the bus was quiet | `read`, `write`, `wait_bus_idle` | the RS-485 line |
| panel firmware, `upper_panel_ddi` | matrix levels, last reported levels, `DEVICE_STATE` | `scan_matrix`, the main loop, `imcp_task` | three tasks that share mutexes taken with `try_lock` and a channel |
| firmware base | address, sequence number | `try_assign_address_from_frame`, `build_button_control_event` | the firmware |
| HCP, `firmware/hcp` | none | encode, decode, validate, `supersedes` | payload of `Set` and `Data` |
| manager: endpoint listener | `join_addresses`, `next_address`, `known_devices`, `pressed_buttons` | `run_endpoint_listener`, `process_control_event` | one thread per serial port; DCS-BIOS over UDP |
| manager: listener threads | handles, stop flags | start, stop, restart, `refresh_devices`, probing | commands of the interface, concurrently |
| manager: status and logs | `DcsBiosStatus`, 250 log entries | `set_status`, `update_status`, `push_log` | every thread; events to the interface |
| manager: settings | endpoints, roles, mappings, and a JSON file | sanitise, persist, publish | commands of the interface, concurrently |
| interface, `use-manager-state.ts` | the last snapshot merged with events | `refreshSnapshot`, one merge per event | invoke and listen of Tauri |
| `dcs-bios-rs` | memory map | `read_packet`, `apply_packet`, `ImportCommand` | the DCS-BIOS listener |
| `imcp-cli` | none | pack, unpack, watch | - |

What is hard about it, component by component, and what makes each correct:

- **IMCP core.** Frames and Acks are lost, a frame is repeated until an Ack comes,
  an Ack does not name the frame it is for, and any station may lose power. Correct
  means: no two devices answer to one address, a device that asks gets one, the
  hub's book of the assignment under way agrees with the frame it repeats, a
  device keeps to its identity whatever it hears, and `Set` frames arrive in order.
- **Codec and parser.** Bytes come in chunks that match no frame, with noise and
  torn frames between. Correct means: an intact frame is never missed, another is
  never made up, the buffers hold.
- **Channel.** Only `write_tick` empties it, and `read_tick` of the same task
  awaits room in it.
- **UART driver.** Collisions, carrier sense by polling, the DE pin on error paths.
- **Firmware.** Three tasks, `try_lock` and `try_send` that drop what does not fit:
  the state the hub believes must not drift from the panel for ever.
- **Endpoint listener.** It is the hub that is deployed, and forgets every device
  each time it is restarted; addresses saturate.
- **Listener threads.** Commands run concurrently; each stops and starts all
  threads: one thread per port, none orphaned, none with an old configuration.
- **Status, settings, interface.** Read-modify-write under two locks, a file
  written in place, snapshots that arrive after newer events.
- **dcs-bios-rs.** Truncated datagrams, 16-bit address arithmetic.

`PROJECT.json` lists each hazard at the line where it bites, with the property
that would catch it, or the reason none does.

## Modules

```
 FrameCodec <- FrameParser                       bytes
 HalfDuplexUart                                  the bus driver of a panel
 ImcpNode   <- Imcp -- implements --> AddressPool    frames, one hub and its devices
            <- ImcpStation                       frames, one device and anything
            <- PanelFirmware <- EndpointListener frames, the panels and the hub
                                                 that is deployed
 ManagerSettings <- ListenerThreads              the manager: settings, commands, threads
 DcsBiosPacket <- DcsBiosListener <- ManagerUi   the manager: DCS-BIOS, status, interface
```

The four groups meet at their edges: `FrameParser` and `HalfDuplexUart` are below
the frames of `ImcpNode` (bytes become frames, or are lost); a thread of
`ListenerThreads` is, while it listens, one session of `EndpointListener`, and its
end there is `ClosePort`; `ListenerThreads` and `DcsBiosListener` share the main
thread, and the DCS-BIOS configuration goes from one to the other.

**`ImcpNode`** is one station: the state of `struct Imcp`, its channel, and the
handlers. The functions over `Node` are the stations of whatever bus it is
composed into. `node_type` and `node_id` are the enums `NodeType` and
`ClientState`; `tx_queue[n]` is the channel; `rx[n]` is what the parser of `n`
still holds, one entry per frame, because `read_tick` hands over one per call.
Every branch of `read_tick` is an operator:

| branch of `read_tick` | operator |
|---|---|
| the address filter, `Pong`, `Data`, a refused `Ack` | `ReadIgnored` |
| `Ack` | `AckSettles`, `ReadAck`; the hub's part in `Imcp!Acknowledged` |
| `SetAddress`, client: joining, ready, otherwise | `ClientAdoptAddress`, `ClientReackAddress`, `ClientRefuse` |
| `SetAddress`, hub | `Imcp!MasterRefuse` |
| `Join`, hub: free, otherwise | `Imcp!OfferAddress`, `Imcp!MasterRefuse` |
| `Join`, client | `ClientRefuse` |
| `Set`, `Ping` | `ReadSet`, `ReadPing` |

`write_tick` is `Resend` or `SendNext`, for the hub with the count of its offers
(`Imcp!MasterSend`, `Imcp!MasterGiveUp`: dropping an offer goes on with the next
frame in the same call, as the loop of the code does). A handler's
`send(..).await` into a full channel puts its node into `halted`: nobody else
empties that channel, so the task never comes back. `try_send` (`TrySend`) drops.

The wire is `Transmit(f, heard)`: a frame that leaves a node reaches any subset of
the nodes whose buffers have room. There is neither reordering nor duplication on
the wire; the copies the protocol sees come from its own repetitions. Bus
collisions are losses.

**`Imcp`** composes a hub and its devices, the applications that queue `Set` and
`Ping` frames, and power cycles of both. A device joins once per boot, as
`imcp_task` does, with an identifier of its own (the firmware draws a random
`u32`: the model's `<<device, boot>>` assumes that draws differ). Its history
variables (`grants`, `forgotten`, `seen`, `repeated`, `acked`) are written and
never read by the actions.

**`AddressPool`** is what the assignment promises: offers one at a time, taken at
once, late or never, confirmed rightly or wrongly, or given up. Its one strong
property is `Unique`. `Imcp!PoolSpec` is this specification under the mapping
`held = Holding` (what a ready device adopted), `offer = pending_assignment`,
`next = next_address`.

**`ImcpStation`** puts one client on a bus about which nothing is assumed: any frame
of `Traffic` may arrive at any time. It is the place of `ClientReackAddress`, which
no frame of `Imcp` reaches.

**`PanelFirmware`** is the firmware of the panels on top of the client of `ImcpNode`.
Its three tasks share one executor and keep no mutex over an `await`, so an action
is one run of a task between two awaits, and no `try_lock` fails: `Scan` is
`scan_matrix` reading a changed level, `ReportEdge` the main loop with
`enqueue_control_event`, `PanelRead` and `PanelWrite` the two halves of
`imcp_task`, `AcceptAddress` the `SetAddress` that `read_tick` accepts, with the Ack
it queues and `handle_incoming_frame`, all in one step. `level`, `old` and `runtime`
are `RESULT`, the main loop's `old` and the address in `DEVICE_STATE`. The device in
a `Button` body is a history variable: it is not on the wire. The sequence number
of an event is left out, because nothing reads it.

**`EndpointListener`** is the hub that is deployed, the manager's
`run_endpoint_listener`, with the panels on its serial port. It does not use the
master of `imcp/src/lib.rs`: it answers each frame at once, repeats nothing, and
keeps a table of the addresses it gave. Its actions:

| code | action |
|---|---|
| `Join`: the entry of `join_addresses`, the saturating `next_address`, `SetAddress` | `HandleJoin` |
| `Set` with a hello: Ack, `known_devices`, the request to a hub | `HandleHello` |
| `Set` with a control event: Ack, `process_control_event` | `HandleControlEvent` |
| all other frames | `SkipFrame` |
| `probe_endpoint_root_device`, `enumerate_children_via_hub` | `ProbeJoin`, `ProbeHello` (with the `role_hint` of the settings), `ChildHello` |
| opening the port (thread start, probe), and its end by stop flag, time-out or error | `StartListener`, `StartProbe`, `ClosePort` |

`join_addresses` and `known_devices` are maps: `None` is "no entry". The tables are
local variables of the thread, so `ClosePort` empties them. `Assigned` are the
devices with a role; which mapping and which DCS-BIOS command an event has is not
modelled, the events are (`pushes` counts `ButtonPushed`). A port that a listener
and a probe hold at once does not occur: the operating system refuses the second
`open`, which is a probe or a listener that ends at once. Whether a probe asks the
device at the root for those behind it is up to the settings: never, always, or if the
device says that it is a hub (`AsksChildren`). The answers get a parser of their own, so
what was read together with the hello is lost.

**`FrameCodec`** has `encode`, `decode`, the stuffing and the XOR checksum on the real
bytes 0..255; a payload is the sequence of its bytes. `Frame` is what a station can send,
`Content` what stands between the delimiters before the stuffing. `Xor` is written out bit
by bit: the library's is recursive, and no module with a theorem may use it. **`FrameParser`** is `read_tick`
up to the frame: a chunk of any size goes into `rx_buffer`, or is lost as a whole
when it does not fit, and `next_frame` runs to the end of one frame or the first
error.

**`HalfDuplexUart`** is `imcp_task` of a panel with `ImcpEmbedded` and the UART under
it. `step` is the place in the loop of the task; `ring` holds what the UART received
and nobody read, `rx` what the parser keeps, `queue` counts the frames in the channel, and
`pending` is whether `write_tick` keeps a frame that it repeats until an Ack comes. Of a
byte only one thing is kept: whether `next_frame` returns at it. It counts when it is
complete, which is when the UART reports it. The actions in the order of the code: `Read`
(`select` polls it first, `read_tick` refuses a chunk that does not fit and then
parses nothing, otherwise it parses to the first end of a frame, which may be an Ack or
ask for an answer), `Answer` (`send(..).await`, which waits for room in the channel),
`WriteTick` (the pending frame, or else the next of the channel), `Sample` and `BusIdle`
(`wait_bus_idle`), `Raise`, `Send`, `Lower` (the DE pin is
held for the time the frame needs, computed as the code does, in whole
microseconds), `Flush`, `Wake`. `ReadFails`, `WaitFails` and the second disjuncts
of `Raise`, `Send` and `Lower` are errors of the UART or the pin. `since`, the samples
since a byte came, and `crossed`, that one came after the last sample, are history.
The pin is that of the library: the deployed firmware passes none (`None::<Output>`,
main.rs:121) and leaves the driver of the bus to the board, so what is said of the pin is
said of a panel that has one.

**`ManagerSettings`** has the three lists, each with the function that cleans it
before it is saved or after it is loaded, the look-up that a listener does
(`find_role_for_device`, `find_mapping_action`: the first match), and the file. A
text is a sequence of words (the constant `Word`) and blanks, `trim` drops the blanks.
The filters of the code are sets of indices, `Picked` in their order.

**`ListenerThreads`** is the manager's process. `Main` runs the commands one after
another; each `Task` is a refresh of the devices, which runs beside them, the first
of them spawned by `setup`. What a process has left to do is `todo[p]`: one entry
per lock section of the code, so that everything that another process can do
between two locks can happen between two steps.

| code | steps of `todo` and their actions |
|---|---|
| `stop_endpoint_listeners` | `stop`: `Take` empties the list of handles; `join`: `Signal` and `Join`, one thread after the other |
| `start_endpoint_listeners` | `start`, `join` as above, then `endpoints` and `assignments` (`ReadSettings`), `spawn` (`Spawn`), `store` (`Store`, which overwrites the list) |
| `refresh_devices`, `probe_*` | stop, `scan`, `probe` (`Probe` opens and closes one port after another, `ScanPanics`), start, `list`, start |
| the three `save_*` commands | `truncate`, `write` (`persist_manager_state`: either can fail), stop for endpoints, `set`, start |
| `update_dcsbios_config`, `list_devices`, `setup` | `update_dcsbios_config`, `list_devices`, `Load` or `LoadFails` |

`Locked` are the locks that `persist_manager_state` holds while it writes the file. A
thread of `threads` is `starting`, `listening` or `ended`, with the settings it was
given and its stop flag: `Open`, `Stopped`, `Breaks`. It is removed when it has ended
and nobody keeps its handle. `crossed` remembers that two starts ran into each
other, `lastTaken` how the listeners were last taken, `lost` that a start could not
read the file, `saved` what was last saved. The file it begins with is none, or one that an earlier process
saved: lists of `Earlier`, cleaned.

**`DcsBiosPacket`** is the datagram and the memory: `Writes` is `parse_packet_iter`,
on bytes; `Applied` is `apply_packet` with `VecMemoryMap::write`, the 16-bit range at
its end included (`OverflowChecks` is whether the build panics on overflow).
`DatagramsOf` and `LeftAt` are the reference definition: which writes of what was sent are
to be taken, and what should be in the memory, without any parsing. An update that is too
long for one datagram goes on in the next, without the four bytes; of that one
`parse_packet_iter` takes nothing, so `taken` is empty, whole writes included. DCS-BIOS itself is outside of `src/`: an
update is taken to be writes of which the four bytes of the start are no part
(`IsUpdate`, `SentAssumption`). It keeps to that, because a reader has no other way to
find the beginning of an update.

**`DcsBiosListener`** is the listener thread, its status and the commands on the main
thread that start, stop and reconfigure it. `update_status` is four steps of the
thread, `CopyConfig`, `CopyStatus`, `ThreadWrites`, `ThreadEmits`, since it takes two
locks one after the other and emits after both; of `update_dcsbios_config` they are
`SetConfig`, `MainCopies`, `MainWrites`, `MainEmits`. `version` numbers the statuses
written, and is history: `lost` is set when a status is written from a stale copy.
`Emit` reaches who is bound then; nobody else.

**`ManagerUi`** is `use-manager-state.ts` on top: `Mount` asks for the snapshot,
`BindListeners` comes while it is on its way, `Invoke` is a button, `Response` and
`Event` deliver. Answers arrive in order, and so do the events of one thread; nothing
is known of the order between them.

The proof modules are `ImcpNodeProofs` (lemmas on the operators of a station, used for
every bus), `ImcpProofs` (types and the order of `Set`s, then the abstract pool, assignment,
refinement and lost `Set`s), `ImcpStationProofs`, `EndpointListenerProofs`,
`FrameParserProofs`, `HalfDuplexUartProofs`, `ListenerThreadsProofs` and
`ManagerUiProofs`. What is proved of `AddressPool` stands in `ImcpProofs`, where the pool
is the instance `Pool`.
`MCImcp`, `MCImcpStation`, `MCFrameParser`, `MCEndpointListener`, `MCListenerThreads`,
`MCHalfDuplexUart` and `MCManagerUi` give constants for TLC. An operator under a
comment "Mutant:" is no part of the model: it is the faulty form of the definition
after it, with which the property named in `PROJECT.json` was seen to fail.

## Runs

| run | instance | asks |
|---|---|---|
| `join` | hub and 2 devices, 2 addresses, each may be power-cycled once, no other traffic | `ImcpInv` (the inductive invariant, types included), `AssignmentHasFrame`, `UniqueUnlessForgotten`, `AddressWasGranted`, `JoiningAsks`, `DuplicateUnheard`, and `PoolSpec` |
| `sets` | hub and 1 device, 2 `Set` or `Ping` frames from each, buffers of 2 | `LossNeedsRepeat`, `SetsInOrder` |
| `live` | hub and 2 devices that start together, fair | `JoinCompletes` |
| `station` | 1 client, all frames from the hub or a peer to 0x00, its address, another or all | `SpeaksForItself`, `IdentityKept` |
| `parser` | 4 frames that use all special bytes, torn at every place, damaged, behind stray bytes, in chunks of 1 to 4 | `IntactFrameRead`, `OnlySentFrames`, types with the bounds of both buffers |
| `endpoint` | the deployed hub and 2 panels that are no hubs, 2 identifiers, addresses 2 and 3, the button of one panel pressed once, the port opened twice (listen or probe) | `UniqueAddress`, `HelloArrives`, `EventsAttributed`, `PushesNeedPresses`, `NoPanelStops` |
| `endpoint_live` | 1 panel that is a hub, 2 identifiers, 1 address before the broadcast address, the port opened twice, fair | `AddressesAgree`, `Introduced`, types |
| `manager` | the startup refresh beside one command or another refresh, one port that is served and an entry that is off, 4 threads, the process ends once at any step and starts again, every write may fail | `EntriesApply`, `LoadedAsSaved`, `NothingForgotten`, `Stoppable`, `ServesSettings`, `ProbesUndisturbed`, `CommandsReturn` |
| `dcsbios` | the listener of the setup, one command, two datagrams or seconds, an update cut anywhere of whose three writes two overlap and the third ends with the last byte of the memory, a build with overflow checks, the interface | `StatusTruthful`, `MemoryHoldsWrites`, `PanicsAtTheEdge`, `UiShowsStatus`, `ButtonsComeBack` |
| `uart` | 6 bytes come in while 2 frames are queued and written, a channel of 2, one error of the UART or the pin | `DriverReleased`, `HeldUntilSent`, `NoBacklog`, `SpeaksInQuiet`, `WorksOrHangs` |
| `lost_set` | as `sets` | violated: see below |
| `endpoint_forgets` | 1 panel, the port opened twice | violated: see below |

What the main properties say:

- `AssignmentHasFrame`: the hub has an assignment pending exactly while one
  `SetAddress`, for that assignment, is queued or repeated. Either half going
  wrong stops all joining (Joins are turned away while one is pending) or
  advances `next_address` twice.
- `UniqueUnlessForgotten`: two devices share an address only if the hub gave up an
  offer of it, by retries or by a restart. It covers late Acks, rejoining devices
  and frames of an earlier life of the hub. Without "forgotten" it is false of
  this code, see below.
- `JoiningAsks`: a device that waits for an address still holds its `Join`,
  whatever Acks it read meanwhile. It says nothing of a device that hangs: one whose
  channel is full of Acks of broadcast `Set`s when it calls `send_join` never comes
  back, which the firmware avoids by joining before it reads.
- `LossNeedsRepeat`: a `Set` whose Ack was accepted got through, unless an earlier
  one of the same sender was handed over twice or the hub gave up an address.
- `SetsInOrder`: no application sees a `Set` after a later one of the same sender.
- `IdentityKept`: a ready client keeps its address and identifier until it is
  power-cycled, under arbitrary frames.
- `SpeaksForItself`: what it sends is from the unassigned address or its own, also
  what was queued before the assignment.
- `UniqueAddress`: no two panels answer to one address of the deployed hub. This and
  the next three hold while the listener runs (`InOrder`), if no panel was already
  up when it began and the broadcast address was not given out. Without the first
  it gives address 2 again to somebody else; after the second, every later panel
  gets 0xFF, and the Acks to one of them settle the frames of all.
- `HelloArrives`: a panel that no longer repeats its hello is in `known_devices`. The
  hello is queued once by `try_send`, and an Ack could settle the wrong frame.
- `EventsAttributed`: a control event is looked up by address and found to be of the
  panel that sent it, also a late one of a panel that left or rejoined.
- `PushesNeedPresses`: repeated, lost and dropped events never make more pushes than
  there were presses. (More `ButtonDown`s there may be: nothing checks the sequence
  number.)
- `NoPanelStops`: only a hub can come to the point where `read_tick` awaits room in
  its full channel: the listener sends `Set`s to nobody else. (A probe asks any panel that
  the settings call a hub; the panels that are up then are no part of the property.)
- `AddressesAgree`: the address that `read_tick` keeps and the one in `DEVICE_STATE`
  are the same, across probes and restarts of both sides.
- `IntactFrameRead`: when the last byte of an intact frame is parsed, that frame is
  returned, whatever preceded it.
- `OnlySentFrames`: nothing else is ever returned.
- `EntriesApply`: roles and devices are one to one, and no saved entry is hidden
  behind another from the look-ups of the listeners, which take the first match.
- `LoadedAsSaved`: cleaning a list that was cleaned changes nothing, so what the next
  start reads is what was saved, generated identifiers included.
- `NothingForgotten`: what the next start would read is, of every part, what was saved
  last, though a save writes all parts and takes the others from memory. It ends where
  a write of the file was cut short or the file could not be read.
- `Stoppable`: every listener thread can still be stopped, by its handle in the list or
  in the hands of somebody - unless two starts ran into each other: then the later
  `Store` overwrites handles, and those threads keep their ports for good.
- `ServesSettings`: when all is done and the last start had no company, each enabled
  endpoint has its thread, with the settings of now, on the port it names.
- `ProbesUndisturbed`: a refresh calls a port busy only if somebody started listeners
  meanwhile.
- `CommandsReturn`, `ButtonsComeBack`: each command and each refresh comes to its end,
  and the user interface gets its answer, whatever the threads are doing.
- `StatusTruthful`: at rest the status says whether the listener runs, how much it
  received and under which configuration. Only a status written from a stale copy, which
  takes a change of the configuration beside a running listener, and a thread that
  panicked make it wrong.
- `MemoryHoldsWrites`: the memory holds the writes that arrived whole in the datagram with
  which their update begins, in their order, so that of two that overlap the later counts;
  and nothing else, neither of a write that was cut off, nor of a datagram in which an
  update goes on. It ends with the first panic, when nobody can read the memory any more.
- `PanicsAtTheEdge`: the thread panics only on a write that ends with the last byte of
  the 64 KiB or has no bytes at address 0.
- `UiShowsStatus`: when everything has arrived the user sees the status as it is, unless
  what came last had been overtaken, or an event was sent before anybody listened.
- `DriverReleased`: the driver of the bus is enabled only while the station writes,
  whatever the UART returns; `HeldUntilSent`: and not a moment too short. Both are about
  a panel with a DE pin.
- `NoBacklog`: as long as no chunk brings the ends of two frames, no chunk is refused and
  no whole frame waits in the parser.
- `SpeaksInQuiet`: when the station begins to write there is nothing left to read, and
  no byte ended during the whole idle time - but for a byte that ends after the last
  sample, which nobody can hear. A byte that was heard does not count as quiet once it is
  in the buffer of the reader.
- `WorksOrHangs`: the station writes what is queued and reads what came, unless it hangs
  (`Hung`) in one of the two places where it awaits what only itself could bring about, the
  wait for a quiet bus and the wait for room for an answer, or repeats for ever a
  frame that nobody acknowledges.

Each module states the types of its variables (`TypeOK`, for `ManagerUi` with
`ListenerTypeOK`). Those of `Imcp` are part of `ImcpInv` and proved, as those of
`ImcpStation`; those of `ListenerThreads` that its proof needs are proved (`Shapes`); those of the
deployed hub are an invariant of a run and proved as well, because they hold the bounds of
the addresses; those of the parser are an invariant of its run and proved, for the bounds of
its buffers. For the others no run lists them.

Bounds, and why they are enough:

- `MaxRetries` is 1 (3 in the code). The count only decides how often an offer is
  repeated before it is given up; with 1 an offer is sent and given up at the next
  `write_tick`, so every ordering of give-up, Ack and new Join occurs, in smaller
  states. The theorems hold for every value.
- `LastAddress` is 2 or 3 (0xFE): with two devices the pool runs out and the
  boundary of the allocator is reached.
- `QueueCap` is 2, or 1 for `station` (5): full channels, dropped frames and halted
  nodes all occur. `RxCap` is 1 or 2 frames.
- `MaxRestarts` is 1 for each node; two lives of each are what an offer of an
  earlier life needs to meet the later one. `MaxSets` is 2: an Ack has one later
  frame to be mistaken for.
- `FrameCap` is 8 bytes and one frame has 9: the overflow of `frame_buffer` is
  reached at its exact length; `RxCap` of 12 with chunks of 4 fills `rx_buffer`.
  Damage is one replaced byte, at every place; the claim `OnlySentFrames` is not
  made for two damaged bytes, which an XOR does not detect, nor for payloads that
  contain a complete inner frame behind a byte damaged into SOF.
- For the deployed hub, a panel that is power-cycled joins with the next identifier,
  until none is left; identifiers are assumed not to repeat (they are drawn at
  random from 32 bits). `LastAddress` is 3 in `endpoint`, an address for each
  identifier, since its properties end where the broadcast address is given out;
  in `endpoint_live` it is 2 and the allocator saturates. Two identifiers are two
  panels, or one panel in two lives; two panels of which one comes back are covered by
  the theorems. `RxCap` is 1 in `endpoint` and 2 in `endpoint_live`. `MaxPresses` and `MaxOpenings` bound the presses and the
  sessions: 2 openings are a probe or a listener before the one that matters. One
  button stands for all, one role for all mappings.
- A panel drops what another panel writes to the hub, so `EndpointListener` delivers
  it to the port only; that overheard bytes may fill a panel's buffer is one way for
  it to lose an answer.
- `manager`: one call by the user beside the refresh of the start is the least at which
  two starts cross; a second call (for which two tasks stand ready in
  `MCListenerThreads`) multiplies the states and adds no new pair of processes.
  `ThreadsStoppable` holds for any number. `MaxCrashes` is 1: the second life reads what
  the first left. `Slots` are 4, so a start can be followed by two more before the
  threads of the first have ended; a start that finds no slot waits, which stands for
  nothing in the code and is what bounds the threads. The lists that are saved have
  entries that are off, have no baud rate, are blank, name a role or a device twice and
  repeat an input.
- `dcsbios`: of three writes the first two overlap and the second of them ends one byte
  before the last byte of the memory, so that they are taken without a panic whenever the
  cut is behind them; the third is that last byte, where DCS-BIOS keeps the counter that
  ends an update (0xFFFE). An update is cut once, anywhere. `MaxPackets` counts
  datagrams and seconds together; with 2 there is a status to overtake and a rate or a
  silence after a datagram. `MaxInFlight` is how many events of the thread may be on
  their way before it takes another datagram.
- `uart`: the buffers are 3, 2 and 4 bytes (64, 16 and 128 in the code: the
  assumption that a chunk is at most half of `rx_buffer` is kept, since the refusals
  depend on it), the channel holds 2 frames (5), so that two queued ones fill it while
  a third asks for an answer; `IdleSamples` is 2, the least at which one sample is not the wait. Baud
  rate and lengths are the real ones: 8 bytes is the shortest frame, 96 the UART's
  buffer with its FIFO, 107 the first length at which the rounded time of a byte would be too short
  without the margin, 270 the longest encoded frame.

All these instances may stop (all restarts used, all bytes read, no more calls), so
deadlock is not checked; that nothing waits for ever is what the liveness properties
`JoinCompletes`, `Introduced`, `CommandsReturn`, `ButtonsComeBack` and `WorksOrHangs` say.

Symmetry is used in `join`, over devices, and in `endpoint`, over identifiers: the
specifications treat them alike, and these runs have no liveness property.

## Fairness

`JoinCompletes` is checked under `FairSpec`: each station's loop keeps calling
`read_tick` and `write_tick` (`imcp_task` is an endless loop with a 50 ms sleep;
`select` lets one of the two finish each round), each device executes its one
`send_join`, and the bus is fair-lossy: if a device writes again and again, the hub
hears it again and again, and if offers to a device are written again and again, it
hears one again and again. Nothing is assumed of a single frame.

`Introduced` is checked under the same assumptions on the deployed
hub: the listener's loop and `imcp_task` go on, what a panel writes again and again
the port hears again and again, and if the listener answers a panel again and
again, the panel hears one of the answers. Nothing is assumed of a single frame, nor
that the port stays open: the property ends where it is closed.

Two remarks on what that hides. `read_tick` is called only when bytes arrive, and
hands over one frame per call, so a fair `read_tick` supposes that bytes keep
coming; while somebody repeats a frame they do. And `select` polls the read side
first, so a bus that is never quiet could starve the writes of a station.

`CommandsReturn` is checked under one weak fairness of `Progress`, everything that goes on
by itself once a user has asked for something: the steps of the processes and of the
threads, but no call, no crash and no unplugged device. That the operating system runs
some thread that can run is all that is needed, since what was asked for has an end.

`ButtonsComeBack` assumes weak fairness of the main thread with the delivery of what it
sent, and of the listener's thread: both are threads of their own, and `recv` returns
after half a second at the latest. Nothing is assumed of DCS, of the user, or of the
order of the deliveries.

`WorksOrHangs` assumes weak fairness of the executor, which polls the task whenever it can
go on. The bytes that come in need not end for that: that there are `MaxArrivals` of them
bounds how long `select`, which polls the read first, can put off a write; with an endless
stream of bytes it never writes.

The properties of the other runs are safety properties and need no fairness.

## Proofs

Checked by TLAPS for every set of devices or panels, every size of channel, buffer and
pool, and every number of retries, restarts, sessions, presses and frames; for the manager
for every number of tasks, threads, calls and crashes and all lists that may be saved, for
the listener of DCS-BIOS for every number of commands, datagrams and seconds. The
assumptions are the named `ASSUME`s: sizes are positive naturals, there are at least the
addresses 0 to 2, `None` is no frame, no assignment and no device, the hub is no device,
identifiers are pairs of device and boot (they differ between boots), the channel of a
panel has room for the Ack of an address and the hello behind it (`ChannelAssumption`: it
holds 5), a chunk is at most half of `rx_buffer`, the main thread is no task, the names of
threads are finitely many (the bound on threads), a request has the fields `part` and
`list` and asks for a list of that part, an unreadable file is no list, the identifier
that replaces a blank one is no blank (`WordAssumption`), and what DCS-BIOS sends are
updates (`SentAssumption`), the frames of the parser are ones a station can send, and what
comes over its wire are bytes (`ParserAssumption`). The theorems about the pool are
about its instance in `Imcp` and use of `Imcp` only that its parameters are those of a pool
(the lemma `PoolParameters`).

The protocol core:

- **`TypeCorrect`** (`ImcpProofs`): the type invariant, one lemma per group of
  handlers.
- **`Invariant`** (`ImcpProofs`): `ImcpInv` is inductive. `AssignmentHasFrame`
  alone is not: an Ack of the pending offer must find that assignment at
  `next_address` (`AssignmentIsNext`), and what clears or replaces the hub's
  frames must not be an offer of somebody else (`ClientsOfferNothing`).
  `AddressWasGranted` is not either: it needs that all offers on the bus are ones
  the hub made (`OffersOnBus`), to the unassigned address, within the pool
  (`GrantsInPool`), and that a device compares them with its own identifier
  (`OwnIdentifier`). The proof groups the conjuncts into those about the hub, the
  bus and the devices; a step that leaves a group's variables alone keeps it by one
  lemma. `AssignmentFrame`, `Granted` and `Unheard` follow.
- **`PoolInvariant`, `PoolUnique`** (`ImcpProofs`): the argument for uniqueness where
  it is short. Offers of one address to two identifiers require that the first was
  given up (`OfferedOnce`), because an offer that stands is below `next`, or is the
  pending one (`OfferedBelow`).
- **`Refinement`** (`ImcpProofs`): each action of `Imcp` is a step of the pool
  or leaves it unchanged, from `ImcpInv`. **`UniqueAddresses`** carries `PoolUnique`
  over to the devices of `Imcp`.
- **`KeepsAsking`** (`ImcpProofs`): `JoiningAsks`. What could end the asking is
  an Ack that a joining device takes for its own. `JoinInv` excludes it: Acks go to those
  that sent a `Set` or a `SetAddress`, those are sent from an address (`ProperFrames`), and
  a joining device has none (`Unjoined`).
- **`SetsKeepOrder`** (`ImcpProofs`): `SetsInOrder`, from `SetOrder`: the `Set`s of a
  sender that wait in a receive buffer, are pending and are queued are numbered in that
  order, from no less than what the receiver has seen to what was sent. Equal numbers are
  a frame and its repetitions, which is why "in order" and not "once" is the property.
- **`LossExplained`** (`ImcpProofs`): `LossNeedsRepeat`, the positive half of
  what run `lost_set` shows. As long as no earlier `Set` of a sender was handed over twice
  and no address was given up, (`Copies`) every copy of its `Set`s that waits where it is
  addressed to is the pending one or has been seen, and (`OneAnswer`) at most one Ack that
  could settle a `Set` is on its way to the sender - in a receive buffer, or still in the
  channel of the station that answers - and that station holds the address of the pending
  `Set` and has seen it. The proof needs most of the others: who owns an address comes
  through `Refinement` from the pool, the numbers from `SetOrder`, and that Acks are
  signed by the address of their sender from `JoinInv`.

One client under arbitrary traffic:

- **`StationInvariant`, `OwnFrames`, `IdentityIsKept`** (`ImcpStationProofs`): the
  strengthening is that a client without an address has the unassigned one, so frames
  queued before the assignment are from 0x00.

The deployed hub (`EndpointListenerProofs`):

- **`Invariant`**: all its safety properties rest on one inductive invariant, which says
  what the frames on the bus, in the panels' channels and at the port have to do with the
  tables of the listener. `Frames` is what can be on its way at all, `Tables` that
  addresses of different identifiers differ below the broadcast address, `Sessions` that
  without a listener the tables are empty. In a session that began with no panel up,
  `OffersMatch` says that an address a panel has or is offered is the one in
  `join_addresses`; `Claims`, that of an address there is one device that has it, is known
  by it, or has an event under way from it, which makes late events of an earlier life
  safe; `AnswersMeant`, that an Ack or a `Set` that reaches a panel answers that panel;
  `Greetings`, that an event never overtakes its sender's hello. Until the broadcast
  address has been given out, a panel without an address hears nothing it would answer
  (`Unicast`).
- **`TypeCorrect`, `CopiesAgree`, `AddressesUnique`, `HellosArrive`,
  `EventsHaveSenders`, `PushesArePresses`, `OnlyHubsStop`** follow from it. For
  `PushesArePresses` the events under way carry the number of their press, and the pairs
  of down and up are counted along the path from the panel's level to `pressed_buttons`.

The bus driver:

- **`Released`, `Quiet`, `Backlog`** (`HalfDuplexUartProofs`). For `Quiet` the
  strengthening is `QuietInv`: while the station waits with nothing left to read, it has
  counted no more quiet samples than were taken since a byte ended; and if it has counted
  all of them with something left to read, that came after the last. For `Backlog` the strengthening is that what the parser keeps holds no end of a frame, so that the next
  chunk brings the first; a chunk of at most half the buffer then always fits after a kept
  rest, which is never longer than one.
- **`Held`**: `HeldUntilSent`, if `RoundingFits`: the time of a byte is at least a
  microsecond, and what is rounded off the times of the bytes that are still in the UART's
  buffer, and of one more, is less than the one byte that is added as a margin. The
  hypothesis is a statement about constants; `FirmwareFits` proves it for 115200 baud and
  the 96 bytes of the firmware. It cannot be dropped: at 460800 baud 0.7 of 21.7
  microseconds are lost per byte, and the driver is released before the end of a
  frame of 30 bytes or more.

The listener threads (`ListenerThreadsProofs`):

- **`ThreadsStoppable`**: `Stoppable` alone is not inductive,
  because `Store` drops what is in the list. The inductive invariant `HandlesInv` says
  that handles are in somebody's hands only between taking or making them and joining or
  storing them (`HandsBusy`), that unless two starts crossed at most one process is on
  its way to a `Store` and the list is empty then (`OneStart`), and that while the
  settings are loaded no task runs (`LoadsAlone`); `Shapes` are the types, with all that
  a `todo` can be: in each program every `store` is preceded by its `start`
  (`TailOfProgram`, `ConcatIsComplete`). Steps that move no handle are one lemma
  (`SilentStep`), the others have one each.
- **`LoadsAsSaved`, `EntriesAreFound`**: `LoadedAsSaved` and `EntriesApply`, for all lists
  that may be saved. `Nth` lists a finite set of indices in their order: its inverse, the
  number of indices up to a given one, tells them apart, and as many as there are it
  reaches. Of a cleaned list, every entry would be kept again - none is blank, no two
  have one role, one device or one input - so all indices are picked and the list comes out
  as it is (one lemma per part, `Sanitized` of `Sanitized`). For the same reason the first
  match of a look-up is the only one. That the lists in memory and file are cleaned ones at
  all is the invariant `SettingsClean`.
- **`Remembered`**: `NothingForgotten`. `FileInv` says what file, memory and
  request are at each place of a save and of the start: only the main thread writes the
  file and changes the lists, so between `truncate`, `write` and `set` they are those of
  its request.
- **`ProbesAlone`**: `ProbesUndisturbed`. The processes between a taking of the listeners
  and its end, `Holds`, are told apart by the rest of their program: it stops them for
  nothing (`ForNothing`) or starts others (`ForNew`). `HolderInv` says that `lastTaken`
  tells which (`HoldersMatch`), that there is one unless two were at it together
  (`OneHolder`), that the list is empty meanwhile (`StoppedIsEmpty`), and which steps can
  follow which (`Programs`, with `TailOfChain` and `ConcatOfChains`). Whoever probes alone
  is then the only one with handles, has joined all of them, and by `Stoppable` no
  thread is left that could have the port.
- **`EndpointsServed`**: `ServesSettings`. `ServeInv` follows the holder: what it has read
  is what is set, or the main thread is about to start anew (`CopiesAgree`); what it stores
  is a thread for each endpoint, in a slot of its own, and a thread that was refused its
  port has a twin in the same list (`AllServed`, `Proper`): by `Stoppable` and `OneHolder`
  all threads are in that list (`AllAreKept`), so nobody else can have had the port.
  `Spawn` cleans the endpoints once more; by `SettingsClean` that changes nothing.

The listener of DCS-BIOS and the user interface (`ManagerUiProofs`):

- **`StatusTells`**: `StatusTruthful`. `ListenerInv` says what the status holds at each
  place of the thread and of main (`ThreadTruth`, `MainTruth`): the count is one behind
  what was received while `update_status` of a packet is under way. It rests on where the
  handle is while main starts or joins the thread (`HandleInv`): main sets a status of its
  own only when there is no thread. `CopyInv` says that a copy with the version of the
  status still is the status, so a write that is not `lost` changes only what it is meant
  to; `CleanInv` that before the first change of the configuration no copy gets stale.
- **`UiShows`**: `UiShowsStatus`. A version names one status, and nothing on its way to
  the interface is newer than the status (`VersionInv`). `Told` is the heart: the status is
  known to the interface, or in an event or an answer on its way, or will be told by the
  thread that wrote it, or main has an answer yet to give - or it was told to nobody, and
  no older one is about to be told after it. Hence the answer that ends
  `update_dcsbios_config` matters: its own event can be followed by an older one of the
  thread.
- **`MemoryTells`**: `MemoryHoldsWrites`. The encoding of a list of writes, the parsing of
  a datagram and the memory after a list of writes are recursive functions. That they have
  values, and which, is proved by induction with a set in place of the predicate
  (`Induction`, `Iteration`), which is what the library's theorems do not offer these
  provers. `DatagramRead` is the round trip: what is read of the first `n` bytes of an
  update are the writes that are whole in them (`NextWrite` one write, `WritesFollow` all of
  them from the last one backwards), and of the rest of an update, which does not begin with
  the four bytes, nothing (`RestRefused`). `Holds` is what the memory keeps of the writes
  so far: of every address that one of them covers the byte of the last that does
  (`HoldsMore`, `HoldsAll`), which is `LeftAt` (`LastLeft`). `MemoryInv` is the inductive
  invariant.
- **`PanicsAtEdge`**: `PanicsAtTheEdge`, from the same invariant: the writes of an applied
  datagram are remembered up to the one that panicked (`AllApplied`, `PanicAtEdge`).

The codec and the parser (`FrameParserProofs`):

- **`Decoded`**: decoding undoes encoding. `Decode(Content(f)) = f` for every frame that a
  station can send, with a payload of up to 128 bytes: the length is put together again
  from its two bytes, the type is found by its number, the checksum is that of the bytes
  before it.
- **`FramesAreRead`**: `IntactFrameRead`. `Spells(w, f)` gives the bytes of the encoding of
  `f` up to each byte `k` of its content, an escaped byte with its ESC (`Spelling` shows
  that every frame has one). The invariant is `Follows`: if the bytes parsed so far end
  with the bytes `w[k]` of a frame, whatever came before them, the parser receives, its
  buffer holds the first `k` bytes of the content and no others, and `escaping` tells
  whether an ESC came behind them. The property alone says nothing of a frame that is on
  its way. `ByteRead` is the step of one byte: the first of a frame is SOF, which starts
  anew from every state; any later one finds the parser where `Follows` put it, and has
  room because the frame fits; the last is EOF, and `Decoded` gives the frame. `NextStage`
  carries this through the loop of `next_frame`, and `ReadTickFollows` through `read_tick`,
  where a chunk that does not fit is lost before any byte of it is parsed.
- **`BuffersHold`**: `TypeOK`, the bounds of `rx_buffer` and `frame_buffer` among the types,
  from the same invariant.

Only model-checked, and why:

- the liveness properties: out of the prover's reach;
- `OnlySentFrames`: no theorem, because it does not hold of every stream. An XOR checksum
  misses two errors that cancel out. What the run shows is that the torn frames, the stray
  bytes and the single damaged bytes it tries are all told apart from a frame.

## What the model shows about the code

Two runs are violations, each of a statement that the repository makes.

- `lost_set`: `firmware/hcp/README.md` calls `Set` a reliably delivered message. An
  Ack carries only the destination of the frame it answers. If a `Set` is repeated
  before its Ack is read, the receiver acknowledges it twice, and the second Ack
  settles the next `Set`, which the bus may have lost. `LossNeedsRepeat` bounds it:
  without a repetition, or a given-up address, nothing is lost.
- `endpoint_forgets`: by the same README a control event is delivered reliably. The
  devices a listener knows are local to its thread. Every saved setting and every
  refresh ends that thread, and a hello that a probe confirmed is not handed on.
  A panel says hello only when it gets an address, so the next listener confirms
  and drops its events until the panel is power-cycled.

The preconditions of the other properties are findings of the same kind, where no line
of the repository promises otherwise, or a test covers only the handler:

- A ready client has a branch that acknowledges a repeated `SetAddress`, and a test of
  it. On the bus it is never reached: the hub sends every `SetAddress` to 0x00, which
  the client no longer answers to (`DuplicateUnheard`, proved). If the one Ack of an
  assignment is lost, the hub gives the address up and offers it to the next device:
  this is the "forgotten" of `UniqueUnlessForgotten`.
- SOF after ESC starts the next frame and reports nothing, where a comment of `error.rs`
  speaks of an invalid escape sequence - which is why `IntactFrameRead` holds there.
- A panel's task can stop in two places (`Hung`), both times because it awaits what it
  would do itself. A byte between the decision to write and the end of `wait_bus_idle` stops
  it until the UART reports an error: it waits for somebody to read. A frame that asks for
  an answer while the channel is full stops it for good: it waits for somebody to write. And
  a `Set` that is not acknowledged any more, as when the hub has gone, is repeated for ever,
  with everything else behind it.
- After a chunk with the ends of two frames the parser can
  refuse chunks, and what it kept is parsed with the next chunk only (`burst`).
- Two commands that both start the listeners can leave threads that nobody can stop and
  that keep their ports (`crossed`). The interface turns its buttons off, but the refresh
  at the start runs beside them. A scan that panics leaves all listeners stopped
  (`ScanPanics`).
- The file of the settings is written in place. After a crash in between, the manager
  runs with no settings and its next save overwrites what was left (`Torn`, `lost`).
  The DCS-BIOS configuration is not saved at all.
- A write that ends at 0xFFFF, as the counter at 0xFFFE does, overflows the range that
  `VecMemoryMap::write` returns: with overflow checks the thread panics, the memory stays
  poisoned, every later listener dies on its first datagram that brings a write, and the
  status goes on to say that it listens or receives.
- An update of DCS-BIOS that is too long for one datagram loses all that is in the later
  ones, whole writes included, and nobody is told (`DatagramsOf`).
- `update_dcsbios_config` changes the status beside a running listener: one of two updates
  is undone. It does not bind the socket anew, so a new address is told before it is used.

## Plan, and what is not modelled

Modelled, in the order of what matters most for the system: the protocol core and its
codec and parser, the panels and the hub that is deployed, the listener threads with the
settings, the bus driver, DCS-BIOS with its status and the user interface. Left:

1. An abstract `SetTransfer` (a `Set` is handed over in order, at least once, or lost and
   then reported as such), which `Imcp` implements outside the cases of `lost_set`; an
   abstract "one address for each identifier" that `EndpointListener` implements while a
   session lasts.
2. HCP: codec, validation and `supersedes`, pure functions of a packet that the listener
   and the panels do not read beyond hello and control events.

Not modelled, and why:

- of the manager: the log, which nothing reads back, the rate, the times and the aircraft
  name of the status; the summaries of a scan and the children of hubs in them;
  `send_dcsbios_command` and `list_serial_ports`, which change no state;
- of the interface: the parts of the snapshot other than the status, merged the same way,
  the remount of React's strict mode, and the tabs, which only render;
- of `dcs-bios-rs`: the callbacks of `Listener` and the readers of integers and strings,
  which the manager does not call;
- `imcp-tokio`, whose unbounded channel no modelled program uses; the sequence number of
  events, which nothing reads; the forty buttons but one; how a microcontroller gets its
  identifier;
- the time between samples and retries: what happens in between is any number of steps;
- `imcp-cli`, a diagnostic tool without state; the drawings of boards and cases, the radio
  firmware blobs, icons, generated schemas and lock files, which are no program.
