---------------------------- MODULE MCManagerUi ----------------------------
(* Instances of ManagerUi for TLC.                                         *)
EXTENDS ManagerUi

Configs == {"here", "there"}

W(address, data) == [address |-> address, data |-> data]

\* Two writes that overlap, and a third up to the end of the memory, as the
\* counter is that DCS-BIOS sends at the end of each update.
Updates == {<<W(65532, <<1, 2>>), W(65533, <<3, 4>>), W(65535, <<5>>)>>}
=============================================================================
