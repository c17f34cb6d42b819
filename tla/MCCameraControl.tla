--------------------------- MODULE MCCameraControl ---------------------------
(* TLC instances of CameraControl: fault sets and the symmetry of ids.     *)
EXTENDS CameraControl, TLC

CONSTANTS i1, i2, i3, w1, w2

AllFaults == FaultKinds

(* VideoManager answers and the daemon is not killed.                      *)
LocalFaults == {"disk", "target", "command", "timeout", "publish"}

CommandOnly == {"command"}

TwoIds == {i1, i2}
ThreeIds == {i1, i2, i3}
OneWorker == {w1}
TwoWorkers == {w1, w2}

Symmetry == Permutations({i1, i2, i3}) \cup Permutations({w1, w2})
=============================================================================
