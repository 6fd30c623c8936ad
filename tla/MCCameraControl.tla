-------------------------- MODULE MCCameraControl --------------------------
(* A camera, and the tasks it takes to stop its reader and start another. *)
EXTENDS CameraControl

MCTasks   == 1..2
MCPushers == {"monitor", "reporter"}
=============================================================================
