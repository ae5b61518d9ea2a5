--------------------------- MODULE ManagerSettings ---------------------------
(***************************************************************************)
(* The settings of the manager: the endpoints, the roles of the devices    *)
(* and the mappings of the roles to DCS-BIOS actions, how a list is        *)
(* cleaned before it is saved, how the listeners look entries up, and the  *)
(* file that keeps them.                                                   *)
(*                                                                         *)
(* A text is a sequence of words and blanks; trim drops the blanks.        *)
(***************************************************************************)
EXTENDS Integers, Sequences, FiniteSets

CONSTANTS
    Word,          \* what texts are made of: words, and the blank
    Torn,          \* the file while, or after, its writing was cut short
    NoFile         \* nothing was ever saved

Part == {"endpoints", "assignments", "mappings"}

ASSUME WordAssumption == "uuid" \in Word

Text == Seq(Word)

\* Indices are picked in their order: the k-th of a set of indices has k of
\* the set up to itself.
Nth(S, k) == CHOOSE i \in S : Cardinality({j \in S : j <= i}) = k
Picked(list, S) == [k \in 1 .. Cardinality(S) |-> list[Nth(S, k)]]

First(S) == {i \in S : \A j \in S : i <= j}

Trimmed(text) == Picked(text, {i \in DOMAIN text : text[i] # " "})
IsBlank(text) == Trimmed(text) = <<>>

-----------------------------------------------------------------------------
(* The lists that there are of each part, cleaned or not.                  *)

DeviceEndpointConfig == [port : STRING, enabled : BOOLEAN, baud_rate : Nat]
DeviceRoleAssignment == [device_id : Text, role : STRING]

\* The input is the control and its event.
RoleControlMapping ==
    [id : Text, input : STRING, identifier : Text, argument : Text]
RoleMappingConfig == [role : STRING, mappings : Seq(RoleControlMapping)]

Lists(part) ==
    CASE part = "endpoints"   -> Seq(DeviceEndpointConfig)
      [] part = "assignments" -> Seq(DeviceRoleAssignment)
      [] part = "mappings"    -> Seq(RoleMappingConfig)

-----------------------------------------------------------------------------
DefaultBaudRate == 115200

sanitize_device_endpoints(list) ==
    [i \in DOMAIN list |->
        IF list[i].baud_rate = 0 THEN [list[i] EXCEPT !.baud_rate = DefaultBaudRate]
        ELSE list[i]]

(* The assignments are read from their end: an entry must be the last of   *)
(* its role, and then no later entry that was the last of its own role may *)
(* name the same device.                                                   *)
LastOfRole(list, i) ==
    /\ ~IsBlank(list[i].device_id)
    /\ \A j \in i + 1 .. Len(list) :
        list[j].role = list[i].role => IsBlank(list[j].device_id)

LastOfDevice(list, i) ==
    \A j \in i + 1 .. Len(list) :
        LastOfRole(list, j) =>
            Trimmed(list[j].device_id) # Trimmed(list[i].device_id)

TrimmedAssignments(list) ==
    [k \in DOMAIN list |->
        [list[k] EXCEPT !.device_id = Trimmed(list[k].device_id)]]

(* Mutant: a device keeps the roles it had.                                *)
SanitizeRolesOnly(list) ==
    TrimmedAssignments(Picked(list, {i \in DOMAIN list : LastOfRole(list, i)}))

sanitize_device_role_assignments(list) ==
    TrimmedAssignments(
        Picked(list, {i \in DOMAIN list :
                        LastOfRole(list, i) /\ LastOfDevice(list, i)}))

(* Of the mappings the first of its role, or of its input, counts.         *)
Uuid == <<"uuid">>

IsAction(m) == ~IsBlank(m.identifier) /\ ~IsBlank(m.argument)

FirstOfInput(list, i) ==
    /\ IsAction(list[i])
    /\ \A j \in 1 .. i - 1 : IsAction(list[j]) => list[j].input # list[i].input

CleanMapping(m) ==
    [m EXCEPT !.id = IF IsBlank(@) THEN Uuid ELSE @,
              !.identifier = Trimmed(@),
              !.argument = Trimmed(@)]

CleanMappings(list) ==
    LET kept == Picked(list, {i \in DOMAIN list : FirstOfInput(list, i)})
    IN  [k \in DOMAIN kept |-> CleanMapping(kept[k])]

CleanConfig(c) == [c EXCEPT !.mappings = CleanMappings(@)]

FirstOfItsRole(list, i) == \A j \in 1 .. i - 1 : list[j].role # list[i].role

sanitize_role_mappings(list) ==
    LET kept == Picked(list, {i \in DOMAIN list : FirstOfItsRole(list, i)})
    IN  [k \in DOMAIN kept |-> CleanConfig(kept[k])]

Sanitized(part, list) ==
    CASE part = "endpoints"   -> sanitize_device_endpoints(list)
      [] part = "assignments" -> sanitize_device_role_assignments(list)
      [] part = "mappings"    -> sanitize_role_mappings(list)

Cleaned(lists) == [part \in Part |-> Sanitized(part, lists[part])]

-----------------------------------------------------------------------------
(* How a listener finds what a control event is to do: the first match.    *)

find_role_for_device(assignments, device) ==
    {assignments[i].role :
        i \in First({i \in DOMAIN assignments : assignments[i].device_id = device})}

\* In the first configuration of the role, the first mapping of the input.
find_action(list, input) ==
    {<<list[k].identifier, list[k].argument>> :
        k \in First({k \in DOMAIN list : list[k].input = input})}

find_mapping_action(mappings, role, input) ==
    UNION {find_action(mappings[i].mappings, input) :
        i \in First({i \in DOMAIN mappings : mappings[i].role = role})}

-----------------------------------------------------------------------------
(* The settings in memory and in the file.                                 *)

VARIABLES
    settings,      \* [Part -> list], what the commands and listeners read
    file           \* NoFile, Torn, or the settings that are in the file

Default == [part \in Part |-> <<>>]

\* load_manager_state, when the file can be read and understood.
Loaded == IF file = NoFile THEN Default ELSE Cleaned(file)

(* Mutant: only the part that is saved goes into the file.                 *)
SavedAlone(part, list) == [Default EXCEPT ![part] = list]

\* What a command that saves one part puts in the file: the other parts are
\* taken from memory.
Saved(part, list) == [settings EXCEPT ![part] = list]

-----------------------------------------------------------------------------
(* The roles of the devices and the devices of the roles are one to one,   *)
(* and no entry that was saved is hidden behind another: the listeners,    *)
(* which take the first match, find every one of them.                     *)
EntriesApply ==
    /\ \A i, j \in DOMAIN settings.assignments :
        i # j => /\ settings.assignments[i].role # settings.assignments[j].role
                 /\ settings.assignments[i].device_id
                        # settings.assignments[j].device_id
    /\ \A i \in DOMAIN settings.assignments :
        find_role_for_device(settings.assignments, settings.assignments[i].device_id)
            = {settings.assignments[i].role}
    /\ \A i \in DOMAIN settings.mappings :
        \A m \in {settings.mappings[i].mappings[k] :
                    k \in DOMAIN settings.mappings[i].mappings} :
            find_mapping_action(settings.mappings, settings.mappings[i].role, m.input)
                = {<<m.identifier, m.argument>>}

(* The next start of the manager reads what this one saved: cleaning a     *)
(* list that was cleaned changes nothing, identifiers included.            *)
LoadedAsSaved ==
    file \notin {NoFile, Torn} => Loaded = file
=============================================================================
