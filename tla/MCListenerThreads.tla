-------------------------- MODULE MCListenerThreads --------------------------
(* Instances of ListenerThreads for TLC.                                   *)
EXTENDS ListenerThreads

CONSTANTS main, t1, t2, nobody, torn, nofile

Endpoint(port, enabled, baud) ==
    [port |-> port, enabled |-> enabled, baud_rate |-> baud]

Assigned(device, role) == [device_id |-> device, role |-> role]

Mapping(id, input, argument) ==
    [id |-> id, input |-> input, identifier |-> <<"UFC">>, argument |-> argument]

Words    == {"uuid", " ", "d1", "d2", "m", "n", "UFC", "0", "1"}
OneTask  == {t1}
TwoTasks == {t1, t2}
Slots    == 1 .. 4
Configs  == {"here", "there"}

\* A port that is served, and an entry that is off.
Endpoints == {
    <<Endpoint("com1", FALSE, 9600), Endpoint("com1", TRUE, 0)>> }

\* A role moves from one device to another, which has a role already; the
\* entry of a role that was dropped still stands in the way of an older one.
Assignments == {
    <<Assigned(<<"d2">>, "left"), Assigned(<<"d1">>, "left"),
      Assigned(<<" ">>, "right"), Assigned(<<"d1", " ">>, "right")>> }

\* Two mappings of one input, one of them blank, and two configurations.
Mappings == {
    <<[role |-> "left", mappings |->
        <<Mapping(<<>>, "push 1", <<" ">>), Mapping(<<>>, "push 1", <<"1", " ">>),
          Mapping(<<"m">>, "push 1", <<"0">>), Mapping(<<"m">>, "push 2", <<"0">>)>>],
      [role |-> "left", mappings |-> <<Mapping(<<"n">>, "push 3", <<"1">>)>>]>> }

Requests ==
    [part : {"endpoints"}, list : Endpoints]
    \cup [part : {"assignments"}, list : Assignments]
    \cup [part : {"mappings"}, list : Mappings]
OnePort == {[part \in Part |->
                IF part = "endpoints" THEN <<Endpoint("com1", TRUE, 9600)>> ELSE <<>>]}
=============================================================================
