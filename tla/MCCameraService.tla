--------------------------- MODULE MCCameraService ---------------------------
(* TLC instances of CameraService: fault sets.                             *)
EXTENDS CameraService, TLC

CONSTANTS i1, i2, w1

(* Everything but a command that fails or is given up on, and what only    *)
(* the next boot can tell: a failing disk and a power loss.                *)
ServiceFaults == FaultKinds \ {"command", "timeout", "disk", "power"}

RefusedOnly == {"refused"}

TwoIds == {i1, i2}
OneWorker == {w1}
=============================================================================
