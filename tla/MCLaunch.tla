------------------------------ MODULE MCLaunch ------------------------------
(* Small instances of Launch for TLC. *)
EXTENDS Launch

CONSTANTS cubedisc, dolphin, switch, alice

\* The lobby's launches: the Wii game, on the first person's own save, with these
\* devices.
LaunchesWith(pads) == {[game |-> dolphin, save |-> "person", person |-> alice, pads |-> pads]}
PlainLaunches == LaunchesWith(AllOf(GameCube))
\* A Wiimote for the second place only.
MixedLaunches == LaunchesWith(<<"cube", "mote", "cube", "cube">>)
=============================================================================
