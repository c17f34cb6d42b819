----------------------------- MODULE CameraStream -----------------------------
(***************************************************************************)
(* What the camera control promises of the video stream, without threads,  *)
(* locks, files, failures or restarts (camera/control.py:1-14, 36).  An    *)
(* ingress is registered, may become the source of the stream, and is      *)
(* retired for good, but never while it is the source.  The source changes *)
(* only by way of "off".  CameraControl implements this: see Stream there. *)
(***************************************************************************)
CONSTANTS
    IngressId,
    NoId        \* the stream is off

VARIABLES
    ingress,  \* each id is "free", "live" or "archived"
    source    \* the ingress the camera pushes its video at, or NoId

streamVars == <<ingress, source>>

StreamInit ==
    /\ ingress = [i \in IngressId |-> "free"]
    /\ source = NoId

Register(i) ==
    /\ ingress[i] = "free"
    /\ ingress' = [ingress EXCEPT ![i] = "live"]
    /\ UNCHANGED source

Retire(i) ==
    /\ ingress[i] = "live"
    /\ i # source
    /\ ingress' = [ingress EXCEPT ![i] = "archived"]
    /\ UNCHANGED source

TurnOn(i) ==
    /\ source = NoId
    /\ ingress[i] = "live"
    /\ source' = i
    /\ UNCHANGED ingress

TurnOff ==
    /\ source # NoId
    /\ source' = NoId
    /\ UNCHANGED ingress

StreamNext ==
    \/ \E i \in IngressId : Register(i) \/ Retire(i) \/ TurnOn(i)
    \/ TurnOff

StreamSpec == StreamInit /\ [][StreamNext]_streamVars
=============================================================================
