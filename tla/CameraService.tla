---------------------------- MODULE CameraService ----------------------------
(***************************************************************************)
(* The running service: the transitions of CameraControl together with     *)
(* runtime.py's publisher thread and shutdown, the entity built by         *)
(* entity/builder.py, and main.py's `finally` block.                       *)
(*                                                                         *)
(* Three parties publish the entity: the publisher thread once a second,   *)
(* a transition as its last step (on_change = publish_now), and main() at  *)
(* the end (publish_offline).  A publish reads the control state once per  *)
(* contributor, without the transition lock, and sends what it has read    *)
(* later.  Lattice (external) shows the last entity it received.           *)
(***************************************************************************)
EXTENDS CameraControl

VARIABLES
    stopping,  \* Runtime._stop
    overtime,  \* _shutdown has returned 1: the publisher outlasted the join
    pub,       \* what the publisher thread is doing
    draft,     \* the entity it is building
    shown,     \* the entity Lattice shows
    signedOff  \* main() has tried to publish the offline entity

serviceVars == <<stopping, overtime, pub, draft, shown, signedOff>>
allVars == <<vars, serviceVars>>

PublisherSteps == {"none", "wait", "sensor", "media", "catalog", "send", "done"}

(* What an entity says of the stream: the sensor's operational state, the  *)
(* Media item, the task catalog, and whether it is the offline one.        *)
Entity == [ on : BOOLEAN, media : MaybeId,
            offers : {"none", "Start", "Stop"}, offline : BOOLEAN ]

NotPublished == [on |-> FALSE, media |-> NoId, offers |-> "none", offline |-> FALSE]

(* Mutant of Offered: Start and Stop are both offered, whatever the state. *)
OfferedBoth(on) == "StartAndStop"

(* TaskHandler.offered_task_urls                                           *)
Offered(on) == IF on THEN "Stop" ELSE "Start"

(* EntityBuilder.build() with no change of state between its reads.        *)
Current == [ on |-> desiredOn, media |-> info,
             offers |-> Offered(desiredOn), offline |-> FALSE ]

(* build(offline=True): the sensor is OFF; Media and the catalog are built *)
(* as ever, their contributors do not look at ctx.offline.                 *)
Offline == [Current EXCEPT !.on = FALSE, !.offline = TRUE]

ServiceTypeOK ==
    /\ stopping \in BOOLEAN
    /\ overtime \in BOOLEAN
    /\ pub \in PublisherSteps
    /\ draft \in Entity
    /\ shown \in Entity
    /\ signedOff \in BOOLEAN

ServiceInit ==
    /\ Init
    /\ stopping = FALSE
    /\ overtime = FALSE
    /\ pub = "none"
    /\ draft = NotPublished
    /\ shown = NotPublished
    /\ signedOff = FALSE

-----------------------------------------------------------------------------
(* The publisher thread.                                                   *)

(* Mutant of PublisherTick: the tick waits for the transition lock.        *)
PublisherTickWaits ==
    /\ pub = "wait"
    /\ holder = NoThread
    /\ pub' = IF stopping THEN "done" ELSE "sensor"
    /\ UNCHANGED <<vars, stopping, overtime, draft, shown, signedOff>>

(* `while not self._stop.wait(1)`                                          *)
PublisherTick ==
    /\ pub = "wait"
    /\ pub' = IF stopping THEN "done" ELSE "sensor"
    /\ UNCHANGED <<vars, stopping, overtime, draft, shown, signedOff>>

(* The contributors, in their order; each takes a snapshot of its own.     *)
Reads(from, to, field, value) ==
    /\ pub = from
    /\ draft' = [draft EXCEPT ![field] = value]
    /\ pub' = to
    /\ UNCHANGED <<vars, stopping, overtime, shown, signedOff>>

ReadSensor == Reads("sensor", "media", "on", desiredOn)
ReadMedia == Reads("media", "catalog", "media", info)
ReadCatalog == Reads("catalog", "send", "offers", Offered(desiredOn))

(* PublishEntity is an upsert of the whole entity.  When it raises, by its *)
(* 1 s timeout for one, Lattice may have taken it; _tick catches the error.*)
SendOk ==
    /\ pub = "send"
    /\ shown' = draft
    /\ draft' = NotPublished
    /\ pub' = "wait"
    /\ UNCHANGED <<vars, stopping, overtime, signedOff>>

(* Mutant of SendRaises: the error ends the publisher thread.              *)
SendRaisesEnds ==
    /\ pub = "send"
    /\ "publish" \in Faults
    /\ shown' \in {shown, draft}
    /\ draft' = NotPublished
    /\ pub' = "done"
    /\ UNCHANGED <<vars, stopping, overtime, signedOff>>

SendRaises ==
    /\ pub = "send"
    /\ "publish" \in Faults
    /\ shown' \in {shown, draft}
    /\ draft' = NotPublished
    /\ pub' = "wait"
    /\ UNCHANGED <<vars, stopping, overtime, signedOff>>

PublisherStep ==
    PublisherTick \/ ReadSensor \/ ReadMedia \/ ReadCatalog \/ SendOk \/ SendRaises

-----------------------------------------------------------------------------
(* The transitions publish as their last step.                             *)

PublishingTransition(t) ==
    /\ \/ AdvertiseOk(t) /\ shown' = Current
       \/ AdvertiseRaises(t) /\ shown' \in {shown, Current}
    /\ UNCHANGED <<stopping, overtime, pub, draft, signedOff>>

OtherTransitionStep(t) ==
    /\ pc[t] # "advertise"
    /\ TransitionStep(t)
    /\ UNCHANGED serviceVars

-----------------------------------------------------------------------------
(* main() and Runtime.run().                                               *)

(* run() starts the publisher before the workers.                          *)
RunService ==
    /\ Serve
    /\ pub' = "wait"
    /\ UNCHANGED <<stopping, overtime, draft, shown, signedOff>>

(* SIGTERM or SIGINT: the handler only sets the stop event.                *)
Signal ==
    /\ phase = "serve"
    /\ stopping' = TRUE
    /\ UNCHANGED <<vars, overtime, pub, draft, shown, signedOff>>

(* Mutant of JoinAndShutdown: the publisher is not joined.                 *)
ShutdownAtOnce ==
    /\ stopping
    /\ Terminate
    /\ UNCHANGED serviceVars

(* _shutdown joins the publisher, but for 30 s only.  Time is not told     *)
(* here: any tick that is still running may be one the join gives up on;   *)
(* the wait between ticks ends at once.  control.shutdown() is next either *)
(* way, and the tick goes on beside it.                                    *)
JoinAndShutdown ==
    /\ stopping
    /\ pub # "wait"
    /\ overtime' = (pub # "done")
    /\ Terminate
    /\ UNCHANGED <<stopping, pub, draft, shown, signedOff>>

CleanupDone == ShutdownDone /\ UNCHANGED serviceVars

(* publish_offline never raises.                                           *)
PublishOffline ==
    /\ phase = "exit"
    /\ ~signedOff
    /\ signedOff' = TRUE
    /\ \/ shown' = Offline
       \/ "publish" \in Faults /\ UNCHANGED shown
    /\ UNCHANGED <<vars, stopping, overtime, pub, draft>>

(* A new process starts from nothing; Lattice shows what it last received. *)
ServiceLost ==
    /\ stopping' = FALSE
    /\ overtime' = FALSE
    /\ pub' = "none"
    /\ draft' = NotPublished
    /\ signedOff' = FALSE
    /\ UNCHANGED shown

ServiceRestart == signedOff /\ Restart /\ ServiceLost

ServiceCrash == (Crash \/ PowerLoss) /\ ServiceLost

(* Ctrl-C during the boot, perhaps in the middle of main's own publish.    *)
ServiceInterrupt ==
    /\ Interrupt
    /\ shown' \in IF pc[Main] = "advertise" THEN {shown, Current} ELSE {shown}
    /\ UNCHANGED <<stopping, overtime, pub, draft, signedOff>>

MainServiceStep ==
    \/ (BootRecover \/ InitialStart) /\ UNCHANGED serviceVars
    \/ RunService
    \/ JoinAndShutdown
    \/ CleanupDone
    \/ PublishOffline

(* The kernel, systemd and MediaMTX go their own way under the service.    *)
WorldStep ==
    \/ WriteBack /\ UNCHANGED <<controlVars, worldVars>>
    \/ MediaMtxRestarts
    \/ LateCommand

ServiceNext ==
    \/ PublisherStep
    \/ \E t \in Thread : PublishingTransition(t) \/ OtherTransitionStep(t)
    \/ IngressProgress /\ UNCHANGED serviceVars
    \/ MainServiceStep
    \/ Signal
    \/ \E t \in Worker, transition \in {"start", "stop"} :
        Request(t, transition) /\ UNCHANGED serviceVars
    \/ ServiceInterrupt \/ ServiceRestart \/ ServiceCrash
    \/ WorldStep /\ UNCHANGED serviceVars

ServiceSpec == ServiceInit /\ [][ServiceNext]_allVars

(* Only the publisher is fair: it is scheduled, and its publishes do not   *)
(* fail for ever.  The transitions may hang in a call as long as they like.*)
PublisherFairness ==
    /\ WF_allVars(PublisherStep)
    /\ SF_allVars(SendOk)

PublisherSpec == ServiceSpec /\ PublisherFairness

-----------------------------------------------------------------------------
(* Properties.                                                             *)

(* The offline entity is the last word of the process, with one exception: *)
(* a tick that was sending when the join gave up on it, in which case      *)
(* _shutdown said so, may still put its draft in its place (what it sends  *)
(* has expired by then: PublishTiming!NoGhost).  The publisher does not    *)
(* tick again, and a transition queued for the lock is refused before its  *)
(* own publish.                                                            *)
OfflineIsFinal ==
    [][phase = "exit" /\ phase' = "exit" /\ shown.offline /\ ~shown'.offline
        => overtime /\ stopping /\ pub = "send" /\ shown' = draft]_allVars

(* contributors.py:42-44: in the final publish "every component reports    *)
(* the camera as off/offline", so no video is advertised.                  *)
OfflineAdvertisesNothing == shown.offline => shown.media = NoId

(* The heartbeat never waits for a transition: while the service runs the  *)
(* publisher keeps publishing even if a transition hangs for ever in a     *)
(* call, holding the transition lock (control.py:26-34).                   *)
Heartbeat == []<>(pub = "send" \/ phase # "serve" \/ stopping)

(* A failed, torn or overtaken publish heals: once the control has come to *)
(* rest the entity shows its state, whatever was published before.         *)
AtRest == phase = "serve" /\ ~stopping /\ holder = NoThread
EntityCatchesUp == <>[]AtRest => <>[](shown = Current)
=============================================================================
