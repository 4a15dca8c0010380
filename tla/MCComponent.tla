---------------------------- MODULE MCComponent ----------------------------
(* Component with the states and transitions of depth_cam, the component of
   src/tests/blocksworld_platform.gpp, see the .cfg files. *)
EXTENDS Component

DepthCam == {"error", "off", "boot", "on"}
DepthCamTransition == {<<"off", "boot">>, <<"on", "off">>, <<"error", "off">>}
DepthCamExogTransition == {<<"boot", "on">>}

(* A component whose backend reports what it observes. *)
Lamp == {"error", "off", "on"}
LampTransition == {<<"off", "on">>, <<"on", "off">>, <<"error", "off">>}
=============================================================================
