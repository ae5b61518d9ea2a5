--------------------------- MODULE ListenerThreads ---------------------------
(***************************************************************************)
(* The manager's process: the commands, which the main thread runs one     *)
(* after another, the refreshing of the devices, which runs beside them,   *)
(* and the threads that listen on the serial ports (run_endpoint_listener, *)
(* EndpointListener) and are stopped and started again by all of these.    *)
(*                                                                         *)
(* todo[p] is what process p has left to do, one lock section per step.    *)
(***************************************************************************)
EXTENDS ManagerSettings

CONSTANTS
    Main,          \* the main thread
    Task,          \* the tasks that refresh the devices
    Startup,       \* the one of them that the start of the manager spawns
    Slot,          \* names of threads, reused when a thread is gone
    Request,       \* the lists a user may save: [part, list]
    Earlier,       \* the lists a user saved in an earlier process, of all parts
    Config,        \* the configurations of DCS-BIOS
    DefaultConfig, \* the one of a new process: it is not saved
    Nobody,        \* no thread in a slot
    MaxCalls, MaxCrashes    \* bounds: calls by a user, ends of the process

ASSUME ThreadsAssumption ==
    /\ Main \notin Task /\ Startup \in Task
    /\ IsFiniteSet(Slot) /\ DefaultConfig \in Config
    /\ \A r \in Request : r.part \in Part
    /\ MaxCalls \in Nat /\ MaxCrashes \in Nat

\* The lists that can be in the settings.
List ==
    {<<>>} \cup {Sanitized(r.part, r.list) : r \in Request}
    \cup {Sanitized(part, e[part]) : e \in Earlier, part \in Part}

ASSUME FileAssumption ==
    /\ \A r \in Request : DOMAIN r = {"part", "list"} /\ r.list \in Lists(r.part)
    /\ \A e \in Earlier, part \in Part : e[part] \in Lists(part)
    /\ NoFile \notin [Part -> List] /\ Torn \notin [Part -> List]

Process == {Main} \cup Task

VARIABLES
    config,              \* the configuration of DCS-BIOS
    endpoint_listeners,  \* the handles of the threads, in a list
    threads,             \* [Slot -> thread], running or not yet joined
    todo,                \* [Process -> steps]
    request,             \* what Main is saving
    handles,             \* [Process -> handles taken, or not yet stored]
    copies,              \* [Process -> what it read of the settings]
    probing,             \* [Process -> ports left to probe, the first open?]
    devices,             \* the endpoints of the list of devices, and whether
                         \* one of them is there as unavailable for being busy
    saved,               \* History: the last list of each part that was saved
    lost,                \* History: a start could not read the settings
    crossed,             \* History: two starts ran into each other
    lastTaken,           \* History: how the listeners were last taken
    calls, crashes       \* bounds

processVars == <<todo, request, handles, copies, probing>>
threadVars  == <<endpoint_listeners, threads>>
historyVars == <<saved, lost, crossed, lastTaken>>
boundVars   == <<calls, crashes>>
vars == <<settings, file, config, threadVars, processVars, devices,
          historyVars, boundVars>>

Steps == {"load", "truncate", "write", "set", "stop", "start", "join",
          "endpoints", "assignments", "spawn", "store", "scan", "probe", "list"}

NoRequest == [part |-> "endpoints", list |-> <<>>]
NoCopies == [endpoints |-> <<>>, assignments |-> <<>>]
NoProbe  == [ports |-> <<>>, open |-> FALSE, busy |-> FALSE, scanned |-> <<>>]
NoList   == [scanned |-> <<>>, busy |-> FALSE]

TypeOK ==
    /\ file \in {NoFile, Torn} \/ DOMAIN file = Part
    /\ DOMAIN settings = Part /\ DOMAIN saved = Part
    /\ config \in Config
    /\ endpoint_listeners \in Seq(Slot)
    /\ \A t \in Slot : threads[t] # Nobody =>
        /\ threads[t].state \in {"starting", "listening", "ended"}
        /\ threads[t].stop \in BOOLEAN /\ threads[t].refused \in BOOLEAN
    /\ todo \in [Process -> Seq(Steps)]
    /\ request.part \in Part
    /\ handles \in [Process -> Seq(Slot)]
    /\ DOMAIN copies = Process /\ DOMAIN probing = Process
    /\ lost \in BOOLEAN /\ crossed \in BOOLEAN
    /\ lastTaken \in {"never", "to stop", "alone", "together"}
    /\ calls \in 0 .. MaxCalls
    /\ crashes \in 0 .. MaxCrashes

\* stop_endpoint_listeners and start_endpoint_listeners.
Stop  == <<"stop", "join">>
Start == <<"start", "join", "endpoints", "assignments", "spawn", "store">>

(* Mutant: the ports are probed while the listeners have them.             *)
RefreshBeside == <<"scan", "probe">> \o Start \o <<"list">> \o Start

\* refresh_devices.
Refresh == Stop \o <<"scan", "probe">> \o Start \o <<"list">> \o Start

(* Mutant: what was saved is not given to the listeners.                   *)
SaveOnly(part) == <<"truncate", "write", "set">>

\* The three commands that save a part.
Save(part) ==
    <<"truncate", "write">> \o (IF part = "endpoints" THEN Stop ELSE <<>>)
        \o <<"set">> \o Start

Setup == [p \in Process |-> IF p = Main THEN <<"load">> ELSE <<>>]
NoThreads == [t \in Slot |-> Nobody]
Each(x) == [p \in Process |-> x]

Init ==
    /\ settings = Default /\ config = DefaultConfig
    /\ endpoint_listeners = <<>> /\ threads = NoThreads
    /\ todo = Setup /\ request = NoRequest
    /\ handles = Each(<<>>) /\ copies = Each(NoCopies) /\ probing = Each(NoProbe)
    /\ devices = NoList
    /\ crossed = FALSE /\ lastTaken = "never"
    /\ \/ file = NoFile /\ saved = Default
       \/ \E e \in Earlier : file = Cleaned(e) /\ saved = file
    /\ lost = FALSE
    /\ calls = 0 /\ crashes = 0

-----------------------------------------------------------------------------
At(p, step) == todo[p] # <<>> /\ Head(todo[p]) = step

Proceed(p) == todo' = [todo EXCEPT ![p] = Tail(@)]
Fail(p)    == todo' = [todo EXCEPT ![p] = <<>>]

Idle == \A p \in Process : todo[p] = <<>>
OthersIdle(p) == \A q \in Process \ {p} : todo[q] = <<>>

\* p has taken the handles of a start and has not stored the new ones.
Starting(p) ==
    \E k \in 1 .. Len(todo[p]) :
        /\ todo[p][k] = "store"
        /\ \A j \in 1 .. k - 1 : todo[p][j] # "start"

\* While Main writes the file it holds the locks of the parts it read.
Locked(part) == At(Main, "write") /\ part # request.part

-----------------------------------------------------------------------------
(* run: the setup of the application.                                      *)

LoadUnchanged ==
    UNCHANGED <<file, config, threadVars, request, handles, copies, probing,
                devices, saved, crossed, lastTaken, boundVars>>

Load ==
    /\ At(Main, "load")
    /\ file # Torn
    /\ settings' = Loaded
    /\ todo' = [p \in Process |->
                  CASE p = Main -> Start
                    [] p = Startup /\ Loaded.endpoints # <<>> -> Refresh
                    [] OTHER -> todo[p]]
    /\ UNCHANGED lost /\ LoadUnchanged

\* The file cannot be read or understood: the manager runs with no settings.
LoadFails ==
    /\ At(Main, "load")
    /\ file # NoFile
    /\ Proceed(Main)
    /\ lost' = TRUE
    /\ UNCHANGED settings /\ LoadUnchanged

(* The process ends: by the user, or not.  Only the file stays.            *)
Crash ==
    /\ crashes < MaxCrashes
    /\ crashes' = crashes + 1
    /\ settings' = Default /\ config' = DefaultConfig
    /\ endpoint_listeners' = <<>> /\ threads' = NoThreads
    /\ todo' = Setup /\ request' = NoRequest
    /\ handles' = Each(<<>>) /\ copies' = Each(NoCopies) /\ probing' = Each(NoProbe)
    /\ devices' = NoList
    /\ crossed' = FALSE /\ lastTaken' = "never"
    /\ UNCHANGED <<file, saved, lost, calls>>

-----------------------------------------------------------------------------
(* The commands.  The main thread takes the next when it is done with one. *)

SaveUnchanged ==
    UNCHANGED <<threadVars, handles, copies, probing, devices,
                lost, crossed, lastTaken>>

Command ==
    /\ todo[Main] = <<>>
    /\ calls < MaxCalls
    /\ calls' = calls + 1
    /\ UNCHANGED <<settings, file, saved, crashes>> /\ SaveUnchanged

(* Mutant: the list is saved as the user interface sends it.               *)
SaveRaw ==
    /\ Command
    /\ \E r \in Request :
        /\ request' = r
        /\ todo' = [todo EXCEPT ![Main] = Save(r.part)]
    /\ UNCHANGED config

\* save_device_endpoints, save_device_role_assignments, save_role_mappings.
SavePart ==
    /\ Command
    /\ \E r \in Request :
        /\ request' = [r EXCEPT !.list = Sanitized(r.part, r.list)]
        /\ todo' = [todo EXCEPT ![Main] = Save(r.part)]
    /\ UNCHANGED config

update_dcsbios_config ==
    /\ Command
    /\ config' \in Config
    /\ todo' = [todo EXCEPT ![Main] = Start]
    /\ UNCHANGED request

(* persist_manager_state: fs::write empties the file and writes it anew;   *)
(* each can fail, and then the command returns and changes nothing more.   *)
Truncate ==
    /\ At(Main, "truncate")
    /\ \/ file' = Torn /\ Proceed(Main) /\ UNCHANGED request
       \/ UNCHANGED file /\ Fail(Main) /\ request' = NoRequest
    /\ UNCHANGED <<settings, saved, config, boundVars>> /\ SaveUnchanged

Write ==
    /\ At(Main, "write")
    /\ \/ /\ file' = Saved(request.part, request.list)
          /\ saved' = [saved EXCEPT ![request.part] = request.list]
          /\ Proceed(Main) /\ UNCHANGED request
       \/ UNCHANGED <<file, saved>> /\ Fail(Main) /\ request' = NoRequest
    /\ UNCHANGED <<settings, config, boundVars>> /\ SaveUnchanged

\* set_device_endpoints, set_device_role_assignments, set_role_mappings.
SetPart ==
    /\ At(Main, "set")
    /\ settings' = [settings EXCEPT ![request.part] = request.list]
    /\ Proceed(Main) /\ request' = NoRequest
    /\ UNCHANGED <<file, saved, config, boundVars>> /\ SaveUnchanged

-----------------------------------------------------------------------------
(* Stopping and starting the listeners.                                    *)

StepUnchanged ==
    UNCHANGED <<settings, file, config, request, devices, saved, lost, boundVars>>

\* A thread that has ended and whose handle nobody keeps is gone.
WithoutGone(ts, kept) ==
    [t \in Slot |-> IF ts[t] # Nobody /\ ts[t].state = "ended" /\ t \notin kept
                    THEN Nobody ELSE ts[t]]

Elements(list) == {list[k] : k \in DOMAIN list}
HandlesOf(listeners, hs) ==
    Elements(listeners) \cup UNION {Elements(hs[p]) : p \in Process}
Kept == HandlesOf(endpoint_listeners, handles)

Take(p) ==
    /\ \E step \in {"stop", "start"} :
        /\ At(p, step)
        /\ crossed' = \/ crossed
                      \/ /\ step = "start"
                         /\ \E q \in Process \ {p} : Starting(q)
        /\ lastTaken' = IF ~OthersIdle(p) THEN "together"
                        ELSE IF step = "stop" THEN "to stop" ELSE "alone"
    /\ handles' = [handles EXCEPT ![p] = endpoint_listeners]
    /\ endpoint_listeners' = <<>>
    /\ Proceed(p)
    /\ UNCHANGED <<threads, copies, probing>> /\ StepUnchanged

(* Mutant: nobody raises the flag.                                         *)
SignalNobody(p) ==
    /\ At(p, "join")
    /\ handles[p] # <<>>
    /\ ~threads[Head(handles[p])].stop
    /\ UNCHANGED <<threadVars, processVars, crossed, lastTaken>>
    /\ StepUnchanged

\* One handle after another: raise its flag, then wait for its thread.
Signal(p) ==
    /\ At(p, "join")
    /\ handles[p] # <<>>
    /\ ~threads[Head(handles[p])].stop
    /\ threads' = [threads EXCEPT ![Head(handles[p])].stop = TRUE]
    /\ UNCHANGED <<endpoint_listeners, todo, handles, copies, probing,
                   crossed, lastTaken>>
    /\ StepUnchanged

(* Mutant: the threads are told to stop and not waited for.                *)
JoinAtOnce(p) ==
    /\ At(p, "join")
    /\ handles' = [handles EXCEPT ![p] = <<>>]
    /\ threads' = WithoutGone([t \in Slot |->
                       IF t \in Elements(handles[p]) THEN [threads[t] EXCEPT !.stop = TRUE]
                       ELSE threads[t]], HandlesOf(endpoint_listeners, handles'))
    /\ Proceed(p)
    /\ UNCHANGED <<endpoint_listeners, copies, probing, crossed, lastTaken>>
    /\ StepUnchanged

Join(p) ==
    /\ At(p, "join")
    /\ \/ /\ handles[p] # <<>>
          /\ threads[Head(handles[p])].state = "ended"
          /\ handles' = [handles EXCEPT ![p] = Tail(@)]
          /\ threads' = WithoutGone(threads, HandlesOf(endpoint_listeners, handles'))
          /\ UNCHANGED todo
       \/ handles[p] = <<>> /\ Proceed(p) /\ UNCHANGED <<threads, handles>>
    /\ UNCHANGED <<endpoint_listeners, copies, probing, crossed, lastTaken>>
    /\ StepUnchanged

ReadSettings(p) ==
    /\ \E part \in {"endpoints", "assignments"} :
        /\ At(p, part)
        /\ ~Locked(part)
        /\ copies' = [copies EXCEPT ![p][part] = settings[part]]
    /\ Proceed(p)
    /\ UNCHANGED <<threadVars, handles, probing, crossed, lastTaken>>
    /\ StepUnchanged

Enabled(list) == Picked(list, {i \in DOMAIN list : list[i].enabled})

Free == {t \in Slot : threads[t] = Nobody}

\* Slots that are free, for n threads.
FreeSlots(n) ==
    CHOOSE s \in [1 .. n -> Free] : \A j, k \in 1 .. n : s[j] = s[k] => j = k

\* The mappings are read, and every enabled endpoint gets a thread.
Spawn(p) ==
    /\ At(p, "spawn")
    /\ ~Locked("mappings")
    /\ LET serve == Enabled(sanitize_device_endpoints(copies[p].endpoints))
           slots == FreeSlots(Len(serve))
       IN  /\ Len(serve) \in 0 .. Cardinality(Free)    \* the bound on threads
           /\ handles' = [handles EXCEPT ![p] = slots]
           /\ threads' = [t \in Slot |->
                IF t \notin Elements(slots) THEN threads[t]
                ELSE [endpoint    |-> serve[CHOOSE k \in DOMAIN slots : slots[k] = t],
                      assignments |-> copies[p].assignments,
                      mappings    |-> settings.mappings,
                      config      |-> config,
                      state |-> "starting", stop |-> FALSE, refused |-> FALSE]]
    /\ copies' = [copies EXCEPT ![p] = NoCopies]
    /\ Proceed(p)
    /\ UNCHANGED <<endpoint_listeners, probing, crossed, lastTaken>>
    /\ StepUnchanged

\* Whatever handles the list held meanwhile are dropped, not stopped.
Store(p) ==
    /\ At(p, "store")
    /\ endpoint_listeners' = handles[p]
    /\ handles' = [handles EXCEPT ![p] = <<>>]
    /\ threads' = WithoutGone(threads, HandlesOf(endpoint_listeners', handles'))
    /\ Proceed(p)
    /\ UNCHANGED <<copies, probing, crossed, lastTaken>> /\ StepUnchanged

-----------------------------------------------------------------------------
(* Refreshing the devices.                                                 *)

\* list_devices; the task of setup is started by Load.
list_devices ==
    /\ calls < MaxCalls
    /\ calls' = calls + 1
    /\ \E p \in Task : todo[p] = <<>> /\ todo' = [todo EXCEPT ![p] = Refresh]
    /\ ~At(Main, "load")
    /\ UNCHANGED <<settings, file, config, threadVars, request, handles, copies,
                   probing, devices, historyVars, crashes>>

ProbeUnchanged ==
    UNCHANGED <<threadVars, handles, copies, crossed, lastTaken>> /\ StepUnchanged

Scan(p) ==
    /\ At(p, "scan")
    /\ ~Locked("endpoints")
    /\ LET list == sanitize_device_endpoints(settings.endpoints)
       IN  probing' = [probing EXCEPT ![p] =
                [ports |-> [k \in DOMAIN Enabled(list) |-> Enabled(list)[k].port],
                 open |-> FALSE, busy |-> FALSE, scanned |-> list]]
    /\ Proceed(p)
    /\ ProbeUnchanged

\* One port has one opener at a time: a thread or a probe.
InUse(port) ==
    \/ \E t \in Slot : /\ threads[t] # Nobody
                       /\ threads[t].state = "listening"
                       /\ threads[t].endpoint.port = port
    \/ \E p \in Process : probing[p].open /\ Head(probing[p].ports) = port

\* enumerate_serial_endpoint: it gets the port, or lists it as unavailable.
Probe(p) ==
    /\ At(p, "probe")
    /\ LET scan == probing[p]
       IN  \/ /\ scan.ports # <<>> /\ ~scan.open
              /\ probing' = [probing EXCEPT ![p] =
                    IF InUse(Head(scan.ports))
                    THEN [scan EXCEPT !.ports = Tail(@), !.busy = TRUE]
                    ELSE [scan EXCEPT !.open = TRUE]]
              /\ UNCHANGED todo
           \/ /\ scan.open
              /\ probing' = [probing EXCEPT ![p].ports = Tail(@), ![p].open = FALSE]
              /\ UNCHANGED todo
           \/ scan.ports = <<>> /\ Proceed(p) /\ UNCHANGED probing
    /\ ProbeUnchanged

(* The task of the scan panics: refresh_devices returns at its `?`, before *)
(* it has started the listeners again.                                     *)
ScanPanics(p) ==
    /\ At(p, "probe")
    /\ probing' = [probing EXCEPT ![p] = NoProbe]
    /\ Fail(p)
    /\ ProbeUnchanged

ListDevices(p) ==
    /\ At(p, "list")
    /\ devices' = [scanned |-> probing[p].scanned, busy |-> probing[p].busy]
    /\ probing' = [probing EXCEPT ![p] = NoProbe]
    /\ Proceed(p)
    /\ UNCHANGED <<settings, file, config, threadVars, request, handles, copies,
                   historyVars, boundVars>>

-----------------------------------------------------------------------------
(* The threads.                                                            *)

ThreadUnchanged ==
    /\ UNCHANGED <<endpoint_listeners, todo, handles, copies, probing,
                   crossed, lastTaken>>
    /\ StepUnchanged

\* The thread reads the configuration and has its port, unless it is taken.
Open(t) ==
    /\ threads[t] # Nobody /\ threads[t].state = "starting"
    /\ threads' = IF InUse(threads[t].endpoint.port)
                  THEN WithoutGone([threads EXCEPT
                           ![t].state = "ended", ![t].refused = TRUE], Kept)
                  ELSE [threads EXCEPT ![t].state = "listening", ![t].config = config]
    /\ ThreadUnchanged

\* The loop sees the flag between two reads, each of which ends in time.
Stopped(t) ==
    /\ threads[t] # Nobody /\ threads[t].state = "listening" /\ threads[t].stop
    /\ threads' = WithoutGone([threads EXCEPT ![t].state = "ended"], Kept)
    /\ ThreadUnchanged

\* The device is unplugged, or sends more than the parser holds.
Breaks(t) ==
    /\ threads[t] # Nobody /\ threads[t].state \in {"starting", "listening"}
    /\ threads' = WithoutGone([threads EXCEPT ![t].state = "ended"], Kept)
    /\ ThreadUnchanged

ProcessStep(p) ==
    \/ Take(p) \/ Signal(p) \/ Join(p) \/ ReadSettings(p) \/ Spawn(p) \/ Store(p)
    \/ Scan(p) \/ Probe(p) \/ ScanPanics(p) \/ ListDevices(p)

MainStep == Load \/ LoadFails \/ Truncate \/ Write \/ SetPart

\* What goes on by itself, once a user has asked for something.
Progress ==
    \/ MainStep
    \/ \E p \in Process : ProcessStep(p)
    \/ \E t \in Slot : Open(t) \/ Stopped(t)

Next ==
    \/ Progress
    \/ SavePart \/ update_dcsbios_config \/ list_devices
    \/ Crash
    \/ \E t \in Slot : Breaks(t)

(* The operating system runs some thread that can go on: nothing is asked  *)
(* of the order, for all that is asked for comes to an end.                *)
Spec == Init /\ [][Next]_vars /\ WF_vars(Progress)

-----------------------------------------------------------------------------
(* What every start of the manager reads is what was saved last, of every  *)
(* part: a save that fails, a crash, a refresh meanwhile lose nothing.     *)
(* They do when the file was being written, for then the manager starts    *)
(* with no settings at all, and its next save puts them in the file.       *)
NothingForgotten ==
    ~lost /\ file # Torn => (IF file = NoFile THEN Default ELSE file) = saved

(* Every thread that runs can be stopped: its handle is in the list, or in *)
(* the hands of a process that stops it or is about to store it.  When two *)
(* starts run into each other, the later one overwrites the handles of the *)
(* first: those threads keep their ports for good.                         *)
Stoppable ==
    ~crossed => \A t \in Slot : threads[t] # Nobody => t \in Kept

Serving(t, e) ==
    /\ threads[t].endpoint = e
    /\ threads[t].assignments = settings.assignments
    /\ threads[t].mappings = settings.mappings
    /\ threads[t].state # "starting" /\ ~threads[t].refused => threads[t].config = config

(* When all is done, and the last start had no company, every endpoint     *)
(* that is enabled has its thread, with the settings of now: no thread     *)
(* was kept from its port but by another endpoint that names it too.       *)
ServesSettings ==
    Idle /\ ~crossed /\ lastTaken = "alone" =>
        LET serve == Enabled(settings.endpoints)
        IN  /\ Len(endpoint_listeners) = Len(serve)
            /\ \A k \in 1 .. Len(serve) :
                /\ Serving(endpoint_listeners[k], serve[k])
                /\ threads[endpoint_listeners[k]].refused =>
                    \E j \in 1 .. Len(serve) : j # k /\ serve[j].port = serve[k].port

(* A refresh that is left alone finds its ports free: it lists a device as *)
(* unavailable for a busy port only if listeners were started meanwhile.   *)
ProbesUndisturbed ==
    [][\A p \in Process :
        probing'[p].busy /\ ~probing[p].busy => lastTaken = "together" \/ crossed]_vars

(* Every command and every refresh returns: a thread that is waited for    *)
(* sees its flag, and nobody waits for a lock for ever.                    *)
CommandsReturn == \A p \in Process : todo[p] # <<>> ~> todo[p] = <<>>
=============================================================================
