--------------------------- MODULE DcsBiosListener ---------------------------
(***************************************************************************)
(* The DCS-BIOS listener of the manager and its status: the main thread    *)
(* runs the commands that start and stop it and change its configuration,  *)
(* one thread receives the datagrams.  Both change the status, and tell    *)
(* the user interface (ManagerUi) through events; each command answers     *)
(* with a snapshot.                                                        *)
(*                                                                         *)
(* Of a status only the connection state, the count of packets and the     *)
(* configuration its diagnostics speak of are kept; last_packet_at is set  *)
(* when total_packets is not zero.                                         *)
(***************************************************************************)
EXTENDS DcsBiosPacket

CONSTANTS
    Config,        \* configurations
    DefaultConfig, \* the one of a new process
    Sent,          \* lists of writes that DCS-BIOS sends
    MaxCommands,
    MaxPackets,    \* datagrams and seconds
    MaxInFlight    \* events of the thread on their way when recv has something to tell

ASSUME ListenerAssumption ==
    /\ OverflowChecks \in BOOLEAN
    /\ DefaultConfig \in Config
    /\ {MaxCommands, MaxPackets, MaxInFlight} \subseteq Nat

ASSUME SentAssumption == \A ws \in Sent : IsUpdate(ws)

Source == {"main", "thread"}

VARIABLES
    config,
    status,        \* [state, total, config] and, as history, its version
    handle,        \* main has the handle of a thread
    stop,          \* the flag of the thread
    thread,        \* where the thread is
    change,        \* what the thread's update_status is to change
    copy,          \* [Source -> the status that update_status copied]
    todo,          \* what main has left to do
    memory,        \* dcsbios_memory
    poisoned,      \* a thread panicked while it held the memory
    bound,         \* somebody listens for events
    events,        \* [Source -> statuses that were emitted to who listens]
    missed,        \* History: the newest version that was emitted to nobody
    responses,     \* answers: of what step of todo, and a status or Failed
    lost,          \* History: a status was written from a stale copy
    received,      \* History: datagrams this thread took
    landed,        \* History: the writes to be taken of all datagrams
    updates,       \* History: commands that changed the configuration
    commands, packets, ticks    \* bounds

threadVars   == <<stop, thread, change>>
eventVars    == <<bound, events, missed>>
channelVars  == <<eventVars, responses>>
memoryVars   == <<memory, poisoned, landed>>
historyVars  == <<lost, received, updates>>
boundVars    == <<commands, packets, ticks>>
listenerVars == <<config, status, handle, threadVars, copy, todo, memoryVars,
                  channelVars, historyVars, boundVars>>

State == {"stopped", "connecting", "listening", "receiving", "error"}
Failed == [version |-> -1]

StatusOK(s) ==
    s.state \in State /\ s.total \in Nat /\ s.config \in Config /\ s.version \in Nat

ListenerTypeOK ==
    /\ config \in Config
    /\ StatusOK(status) /\ \A s \in Source : StatusOK(copy[s])
    /\ handle \in BOOLEAN /\ stop \in BOOLEAN
    /\ thread \in {"none", "loop", "recv", "config", "status", "write", "emit",
                   "ended", "panicked"}
    /\ change \in {"listening", "receiving", "rate", "quiet", "failed"}
    /\ todo \in Seq({"take", "join", "stopped", "connecting", "bind", "store",
                     "config", "copy", "write", "emit", "respond", "snapshot"})
    /\ memory.len \in 0 .. 131070 /\ DOMAIN memory.at \subseteq 0 .. memory.len - 1
    /\ \A a \in DOMAIN memory.at : memory.at[a] \in Byte
    /\ {poisoned, lost, bound} \subseteq BOOLEAN /\ missed \in Nat
    /\ received \in 0 .. packets /\ packets \in 0 .. MaxPackets

Stop  == <<"take", "join", "stopped">>
Start == Stop \o <<"connecting", "bind", "store">>

NewStatus == [state |-> "stopped", total |-> 0, config |-> DefaultConfig, version |-> 0]

\* setup starts the listener; it answers to nobody.
ListenerInit ==
    /\ config = DefaultConfig
    /\ status = NewStatus
    /\ handle = FALSE /\ stop = FALSE
    /\ thread = "none" /\ change = "listening"
    /\ copy = [s \in Source |-> NewStatus]
    /\ todo = Start
    /\ memory = EmptyMemory /\ poisoned = FALSE /\ landed = <<>>
    /\ bound = FALSE /\ missed = 0
    /\ events = [s \in Source |-> <<>>] /\ responses = <<>>
    /\ lost = FALSE /\ received = 0 /\ updates = 0
    /\ commands = 0 /\ packets = 0 /\ ticks = 0

-----------------------------------------------------------------------------
(* Commands.                                                               *)

At(step) == todo # <<>> /\ Head(todo) = step
Proceed  == todo' = Tail(todo)

Calls(steps) ==
    /\ todo = <<>>
    /\ todo' = steps
    /\ UNCHANGED <<config, status, handle, threadVars, copy, memoryVars, channelVars,
                   lost, received, packets, ticks>>

Command(steps) ==
    /\ commands < MaxCommands
    /\ commands' = commands + 1
    /\ Calls(Append(steps, "respond"))

get_app_state == Calls(<<"snapshot">>) /\ UNCHANGED <<updates, commands>>
start_dcsbios == Command(Start) /\ UNCHANGED updates
stop_dcsbios  == Command(Stop) /\ UNCHANGED updates

update_dcsbios_config ==
    /\ Command(<<"config", "copy", "write", "emit">>)
    /\ updates' = updates + 1

\* Tauri sends an event to the web views that listen for it then.
Emit(s, what) ==
    /\ events' = IF bound THEN [events EXCEPT ![s] = Append(@, what)] ELSE events
    /\ missed' = IF bound THEN missed ELSE what.version
    /\ UNCHANGED bound

\* set_status of a state, told to the user interface at once: there is no
\* thread meanwhile.
SetStatus(state) ==
    /\ status' = [state |-> state, total |-> 0, config |-> config,
                  version |-> status.version + 1]
    /\ Emit("main", status')

(* Mutant: the thread is not told to stop.                                 *)
TakeSilently ==
    /\ At("take")
    /\ handle' = FALSE
    /\ todo' = IF handle THEN Tail(todo) ELSE Tail(Tail(todo))
    /\ UNCHANGED <<config, status, threadVars, copy, memoryVars, channelVars,
                   historyVars, boundVars>>

\* stop_listener: without a handle there is nothing to stop and to wait for.
Take ==
    /\ At("take")
    /\ handle' = FALSE
    /\ stop' = (stop \/ handle)
    /\ todo' = IF handle THEN Tail(todo) ELSE Tail(Tail(todo))
    /\ UNCHANGED <<config, status, thread, change, copy, memoryVars, channelVars,
                   historyVars, boundVars>>

(* Mutant: the thread is not waited for.                                   *)
JoinAtOnce ==
    /\ At("join")
    /\ Proceed
    /\ UNCHANGED <<config, status, handle, threadVars, copy, memoryVars, channelVars,
                   historyVars, boundVars>>

Join ==
    /\ At("join")
    /\ thread \in {"ended", "panicked"}
    /\ thread' = "none" /\ stop' = FALSE
    /\ Proceed
    /\ UNCHANGED <<config, status, handle, change, copy, memoryVars, channelVars,
                   historyVars, boundVars>>

Publish ==
    /\ \/ At("stopped") /\ SetStatus("stopped")
       \/ At("connecting") /\ SetStatus("connecting")
    /\ Proceed
    /\ UNCHANGED <<config, handle, threadVars, copy, memoryVars, responses,
                   historyVars, boundVars>>

Answered(what) == Append(responses, [to |-> todo[Len(todo)], status |-> what])

\* The socket is bound and the thread runs, or start_listener returns an error.
Bind ==
    /\ At("bind")
    /\ \/ /\ thread' = "config" /\ change' = "listening" /\ stop' = FALSE
          /\ received' = 0
          /\ Proceed
          /\ UNCHANGED <<status, channelVars>>
       \/ /\ SetStatus("error")
          /\ responses' = IF todo[Len(todo)] = "respond" THEN Answered(Failed)
                          ELSE responses
          /\ todo' = <<>>
          /\ UNCHANGED <<threadVars, received>>
    /\ UNCHANGED <<config, handle, copy, memoryVars, lost, updates, boundVars>>

Store ==
    /\ At("store")
    /\ handle' = TRUE
    /\ Proceed
    /\ UNCHANGED <<config, status, threadVars, copy, memoryVars, channelVars,
                   historyVars, boundVars>>

SetConfig ==
    /\ At("config")
    /\ config' \in Config \ {config}
    /\ Proceed
    /\ UNCHANGED <<status, handle, threadVars, copy, memoryVars, channelVars,
                   historyVars, boundVars>>

\* What a command answers with: the lock of the status is taken once more.
Respond ==
    /\ At("respond") \/ At("snapshot")
    /\ responses' = Answered(status)
    /\ Proceed
    /\ UNCHANGED <<config, status, handle, threadVars, copy, memoryVars, eventVars,
                   historyVars, boundVars>>

-----------------------------------------------------------------------------
(* update_status: the configuration is copied, the status is copied, then  *)
(* the changed copy is written, and emitted - four steps in which others   *)
(* run.                                                                    *)

WriteBack(s, new) ==
    /\ status' = [new EXCEPT !.version = status.version + 1]
    /\ copy' = [copy EXCEPT ![s] = status']
    /\ lost' = (lost \/ copy[s].version # status.version \/ new.config # config)

\* Of update_dcsbios_config, which changes nothing but the diagnostics.
MainCopies ==
    /\ At("copy")
    /\ copy' = [copy EXCEPT !["main"] = [status EXCEPT !.config = config]]
    /\ Proceed
    /\ UNCHANGED <<config, status, handle, threadVars, memoryVars, channelVars,
                   historyVars, boundVars>>

MainWrites ==
    /\ At("write")
    /\ WriteBack("main", copy["main"])
    /\ Proceed
    /\ UNCHANGED <<config, handle, threadVars, memoryVars, channelVars,
                   received, updates, boundVars>>

MainEmits ==
    /\ At("emit")
    /\ Emit("main", copy["main"])
    /\ copy' = [copy EXCEPT !["main"] = NewStatus]
    /\ Proceed
    /\ UNCHANGED <<config, status, handle, threadVars, memoryVars, responses,
                   historyVars, boundVars>>

MainStep ==
    \/ Take \/ Join \/ Publish \/ Bind \/ Store \/ SetConfig \/ Respond
    \/ MainCopies \/ MainWrites \/ MainEmits

-----------------------------------------------------------------------------
(* The thread.                                                             *)

ThreadUnchanged ==
    UNCHANGED <<config, handle, stop, todo, responses, updates, commands>>

CopyConfig ==
    /\ thread = "config"
    /\ copy' = [copy EXCEPT !["thread"].config = config]
    /\ thread' = "status"
    /\ UNCHANGED <<status, change, memoryVars, eventVars, lost, received, packets, ticks>>
    /\ ThreadUnchanged

CopyStatus ==
    /\ thread = "status"
    /\ copy' = [copy EXCEPT !["thread"] = [status EXCEPT !.config = copy["thread"].config]]
    /\ thread' = "write"
    /\ UNCHANGED <<status, change, memoryVars, eventVars, lost, received, packets, ticks>>
    /\ ThreadUnchanged

Changed(s) ==
    CASE change = "listening" -> [s EXCEPT !.state = "listening"]
      [] change = "receiving" -> [s EXCEPT !.state = "receiving", !.total = @ + 1]
      [] change = "rate"      -> s
      [] change = "quiet"     -> [s EXCEPT !.state =
                                    IF @ = "receiving" THEN "listening" ELSE @]
      [] change = "failed"    -> [s EXCEPT !.state = "error"]

ThreadWrites ==
    /\ thread = "write"
    /\ WriteBack("thread", Changed(copy["thread"]))
    /\ thread' = "emit"
    /\ UNCHANGED <<change, memoryVars, eventVars, received, packets, ticks>>
    /\ ThreadUnchanged

(* Mutant: the change is not told.                                         *)
ThreadKeepsQuiet ==
    /\ thread = "emit"
    /\ thread' = IF change = "failed" THEN "ended" ELSE "loop"
    /\ UNCHANGED <<status, copy, change, eventVars, memoryVars, lost, received, packets, ticks>>
    /\ ThreadUnchanged

\* last_rate_tick is a second old.
Tick == packets + ticks < MaxPackets /\ ticks' = ticks + 1

\* After a packet the rate may be due, which is one more update.
ThreadEmits ==
    /\ thread = "emit"
    /\ Emit("thread", copy["thread"])
    /\ copy' = [copy EXCEPT !["thread"] = NewStatus]
    /\ \/ /\ thread' = IF change = "failed" THEN "ended" ELSE "loop"
          /\ change' = "listening"
          /\ UNCHANGED ticks
       \/ /\ change = "receiving" /\ change' = "rate" /\ thread' = "config"
          /\ Tick
    /\ UNCHANGED <<status, memoryVars, lost, received, packets>>
    /\ ThreadUnchanged

Loop ==
    /\ thread = "loop"
    /\ thread' = IF stop THEN "ended" ELSE "recv"
    /\ UNCHANGED <<status, copy, change, eventVars, memoryVars, lost, received, packets, ticks>>
    /\ ThreadUnchanged

\* The bound on the events: the user interface is not far behind.
KeepsUp == Len(events["thread"]) < MaxInFlight

Arriving == UNION {DatagramsOf(ws) : ws \in Sent}

\* A datagram comes; a memory that is poisoned panics at the first write.
Packet ==
    /\ thread = "recv"
    /\ packets + ticks < MaxPackets /\ KeepsUp
    /\ packets' = packets + 1
    /\ received' = received + 1
    /\ \E datagram \in Arriving :
        LET writes == Writes(datagram.bytes)
            result == Applied(memory, writes)
            panics == IF poisoned THEN writes # <<>> ELSE result.panics
        IN  /\ memory' = IF poisoned THEN memory ELSE result.memory
            /\ poisoned' = (poisoned \/ panics)
            /\ thread' = IF panics THEN "panicked" ELSE "config"
            /\ landed' = landed \o datagram.taken
    /\ change' = "receiving"
    /\ UNCHANGED <<status, copy, eventVars, lost, ticks>> /\ ThreadUnchanged

\* Half a second without one; the status is looked at, once a second.
Timeout ==
    /\ thread = "recv"
    /\ \/ thread' = "loop" /\ UNCHANGED <<change, ticks>>
       \/ /\ status.total > 0
          /\ KeepsUp /\ Tick
          /\ change' = "quiet" /\ thread' = "config"
    /\ UNCHANGED <<status, copy, eventVars, memoryVars, lost, received, packets>>
    /\ ThreadUnchanged

ReceiveFails ==
    /\ thread = "recv" /\ KeepsUp
    /\ change' = "failed" /\ thread' = "config"
    /\ UNCHANGED <<status, copy, eventVars, memoryVars, lost, received, packets, ticks>>
    /\ ThreadUnchanged

ThreadStep ==
    CopyConfig \/ CopyStatus \/ ThreadWrites \/ ThreadEmits \/ Loop \/ Packet
    \/ Timeout \/ ReceiveFails

-----------------------------------------------------------------------------
AtRest ==
    todo = <<>> /\ thread \in {"none", "loop", "recv", "ended", "panicked"}

(* When nothing is under way the status tells how things are: whether the  *)
(* listener runs, fails or is stopped, what it has received, and under     *)
(* which configuration.  Two things break it: a status written from a      *)
(* stale copy, and a thread that panicked, which tells nobody.  The first  *)
(* takes a change of the configuration beside a running listener: starting *)
(* and stopping lose no update, for they wait for the thread.              *)
StatusTruthful ==
    /\ lost => updates > 0
    /\ AtRest /\ ~lost /\ thread # "panicked" =>
        /\ status.config = config
        /\ thread = "none" => status.state \in {"stopped", "error"}
        /\ thread = "ended" => status.state = "error"
        /\ thread \in {"loop", "recv"} =>
            /\ status.state \in {"listening", "receiving"}
            /\ status.state = "receiving" => status.total > 0
            /\ status.total = received

(* The memory holds every write that arrived whole in the datagram with    *)
(* which its update begins, in the order they were sent, so that of writes *)
(* that overlap the last counts; and nothing else: neither of the write    *)
(* that was cut off, nor anything of the datagram in which the update goes *)
(* on.  What is whole there the code drops as well, and tells nobody.      *)
MemoryHoldsWrites ==
    ~poisoned =>
        /\ \A k \in DOMAIN landed :
            \A a \in landed[k].address .. End(landed[k]) - 1 :
                a \in DOMAIN memory.at
        /\ \A a \in DOMAIN memory.at : memory.at[a] = LeftAt(landed, a)

(* The thread panics only on a write that ends with the last byte of the   *)
(* memory, or on one of no bytes at address 0.                             *)
PanicsAtTheEdge ==
    poisoned \/ thread = "panicked" =>
        \E k \in DOMAIN landed : End(landed[k]) < 1 \/ End(landed[k]) > 65535
=============================================================================
