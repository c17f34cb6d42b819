------------------------- MODULE CameraServiceProofs -------------------------
(***************************************************************************)
(* What the running service promises.  It is the control with a publisher  *)
(* beside it, so whatever is proved of the control holds of it too.        *)
(***************************************************************************)
EXTENDS CameraService, CameraRecoveryProofs

-----------------------------------------------------------------------------
(* The service implements the control.                                     *)

LEMMA ServiceSteps == [ServiceNext]_allVars => [Next]_vars
<1> SUFFICES ASSUME [ServiceNext]_allVars PROVE Next \/ UNCHANGED vars
  OBVIOUS
<1>1. CASE PublisherStep \/ Signal \/ PublishOffline
  BY <1>1 DEF PublisherStep, PublisherTick, ReadSensor, ReadMedia, ReadCatalog, Reads, SendOk,
              SendRaises, Signal, PublishOffline
<1>2. ASSUME NEW t \in Thread, PublishingTransition(t) \/ OtherTransitionStep(t)
      PROVE  Next
  BY <1>2 DEF PublishingTransition, OtherTransitionStep, TransitionStep, Next
<1>3. CASE IngressProgress /\ UNCHANGED serviceVars
  BY <1>3 DEF Next
<1>4. CASE MainServiceStep
  BY <1>1, <1>4 DEF MainServiceStep, RunService, JoinAndShutdown, CleanupDone, MainStep, Next
<1>5. CASE \E t \in Worker, transition \in {"start", "stop"} :
             Request(t, transition) /\ UNCHANGED serviceVars
  BY <1>5 DEF Next
<1>6. CASE ServiceInterrupt \/ ServiceRestart \/ ServiceCrash
  BY <1>6 DEF ServiceInterrupt, ServiceRestart, ServiceCrash, Next
<1>7. CASE WorldStep /\ UNCHANGED serviceVars
  BY <1>7 DEF WorldStep, Next
<1>8. CASE UNCHANGED allVars
  BY <1>8 DEF allVars
<1>9. QED
  BY <1>1, <1>2, <1>3, <1>4, <1>5, <1>6, <1>7, <1>8 DEF ServiceNext

(* Publishing disturbs nothing: every behaviour of the service is one of   *)
(* the control, so the control's theorems are the service's.               *)
THEOREM ServiceImplementsControl == ServiceSpec => Spec
<1>1. ServiceInit => Init
  BY DEF ServiceInit
<1>2. QED
  BY <1>1, ServiceSteps, PTL DEF ServiceSpec, Spec

(* Of the running service as of the bare control, entities being published *)
(* at any moment: as long as commands work MediaMTX pushes only at the live*)
(* ingress the process owns, follows the intent, and the stream is the one *)
(* CameraStream promises.                                                  *)
THEOREM ServiceStreams ==
    ASSUME CommandsWork
    PROVE  ServiceSpec => []PushesAtOwnLive /\ ProducerFollowsIntent /\ ImplementsStream
BY CommandsWork, ServiceImplementsControl, StreamIsLive, ProducerFollows, StreamImplemented

LEMMA ServiceStrong == ServiceSpec => [](Strong /\ FreshInv)
BY ServiceImplementsControl, FreshInvariant, PTL

-----------------------------------------------------------------------------
(* Types.                                                                  *)

(* What is published is an entity.                                         *)
LEMMA EntitiesTyped ==
    ASSUME ControlTypeOK
    PROVE  Current \in Entity /\ Offline \in Entity /\ NotPublished \in Entity
BY DEF ControlTypeOK, IngressTypeOK, MaybeId, Current, Offline, NotPublished, Offered, Entity

(* Each read of the publisher fills one field of its draft.                *)
LEMMA ReadsTyped ==
    ASSUME ControlTypeOK, ServiceTypeOK, ReadSensor \/ ReadMedia \/ ReadCatalog
    PROVE  draft' \in Entity /\ pub' \in PublisherSteps
<1> USE DEF ControlTypeOK, IngressTypeOK, MaybeId, ServiceTypeOK, Entity, PublisherSteps, Reads
<1>1. CASE ReadSensor
  BY <1>1 DEF ReadSensor
<1>2. CASE ReadMedia
  BY <1>2 DEF ReadMedia
<1>3. CASE ReadCatalog
  BY <1>3 DEF ReadCatalog, Offered
<1>4. QED
  BY <1>1, <1>2, <1>3

(* Type correctness of the service's own state, and of what Lattice shows. *)
THEOREM ServiceTypes == ServiceSpec => []ServiceTypeOK
<1>1. ServiceInit => ServiceTypeOK
  <2> SUFFICES ASSUME ServiceInit PROVE ServiceTypeOK
    OBVIOUS
  <2>1. NotPublished \in Entity
    BY DEF NotPublished, Entity, MaybeId
  <2>2. QED
    BY <2>1 DEF ServiceInit, ServiceTypeOK, PublisherSteps
<1>2. ControlTypeOK /\ ServiceTypeOK /\ [ServiceNext]_allVars => ServiceTypeOK'
  <2> SUFFICES ASSUME ControlTypeOK, ServiceTypeOK, [ServiceNext]_allVars PROVE ServiceTypeOK'
    OBVIOUS
  <2>0. Current \in Entity /\ Offline \in Entity /\ NotPublished \in Entity
    BY EntitiesTyped
  <2>1. CASE PublisherTick \/ SendOk \/ SendRaises
    BY <2>0, <2>1 DEF PublisherTick, SendOk, SendRaises, ServiceTypeOK, PublisherSteps
  <2>2. CASE ReadSensor \/ ReadMedia \/ ReadCatalog
    <3>1. UNCHANGED <<stopping, overtime, shown, signedOff>>
      BY <2>2 DEF ReadSensor, ReadMedia, ReadCatalog, Reads
    <3>2. QED
      BY <2>2, <3>1, ReadsTyped DEF ServiceTypeOK
  <2>3. ASSUME NEW t \in Thread, PublishingTransition(t) \/ OtherTransitionStep(t)
        PROVE  ServiceTypeOK'
    BY <2>0, <2>3 DEF PublishingTransition, OtherTransitionStep, serviceVars, ServiceTypeOK
  <2>4. CASE MainServiceStep \/ Signal
    BY <2>0, <2>4 DEF MainServiceStep, RunService, JoinAndShutdown, CleanupDone, PublishOffline,
                      Signal, serviceVars, ServiceTypeOK, PublisherSteps
  <2>5. CASE ServiceInterrupt \/ ServiceRestart \/ ServiceCrash
    BY <2>0, <2>5 DEF ServiceInterrupt, ServiceRestart, ServiceCrash, ServiceLost, ServiceTypeOK,
                      PublisherSteps
  <2>6. CASE UNCHANGED serviceVars
    BY <2>6 DEF serviceVars, ServiceTypeOK
  <2>7. QED
    BY <2>1, <2>2, <2>3, <2>4, <2>5, <2>6 DEF ServiceNext, PublisherStep, allVars
<1>3. Strong => ControlTypeOK
  BY DEF Strong
<1>4. QED
  BY <1>1, <1>2, <1>3, ServiceStrong, PTL DEF ServiceSpec

-----------------------------------------------------------------------------
(* The last word.                                                          *)

(* The publisher is started by run(); once the shutdown has begun it has   *)
(* ended, or _shutdown has said that it outlasted the join.  Then it has   *)
(* the stop event to end it after the tick it is in.                       *)
PublisherInv ==
    /\ phase \in {"boot", "recover", "start"} => pub = "none"
    /\ phase \in {"shutdown", "exit"} => pub \in {"none", "done"} \/ (overtime /\ stopping)

LEMMA PublisherKept == ControlTypeOK /\ PublisherInv /\ [ServiceNext]_allVars => PublisherInv'
<1> SUFFICES ASSUME ControlTypeOK, PublisherInv, [ServiceNext]_allVars PROVE PublisherInv'
  OBVIOUS
<1>1. CASE PublisherStep
  <2>1. pub \notin {"none", "done"} /\ UNCHANGED <<phase, stopping, overtime>>
    BY <1>1 DEF PublisherStep, PublisherTick, ReadSensor, ReadMedia, ReadCatalog, Reads, SendOk,
                SendRaises, vars, worldVars
  <2>2. QED
    BY <2>1 DEF PublisherInv
<1>2. ASSUME NEW t \in Thread, PublishingTransition(t) \/ OtherTransitionStep(t)
      PROVE  UNCHANGED <<phase, pub, overtime, stopping>>
  <2>1. UNCHANGED phase
    BY <1>2, TransitionTouches DEF PublishingTransition, OtherTransitionStep, TransitionStep
  <2>2. QED
    BY <1>2, <2>1 DEF PublishingTransition, OtherTransitionStep, serviceVars
<1>3. CASE (BootRecover \/ InitialStart) /\ UNCHANGED serviceVars
  BY <1>3 DEF BootRecover, InitialStart, MainCalls, serviceVars, PublisherInv
<1>4. CASE RunService
  BY <1>4 DEF RunService, Serve, MainCalls, PublisherInv
<1>5. CASE JoinAndShutdown \/ CleanupDone
  BY <1>5 DEF JoinAndShutdown, CleanupDone, Terminate, ShutdownDone, MainCalls, serviceVars,
              PublisherInv
<1>6. CASE ServiceInterrupt
  BY <1>6 DEF ServiceInterrupt, Interrupt, PublisherInv
<1>7. CASE ServiceRestart \/ ServiceCrash
  BY <1>7 DEF ServiceRestart, ServiceCrash, Restart, Crash, PowerLoss, NewProcess, ServiceLost,
              PublisherInv
<1>8. CASE \/ IngressProgress /\ UNCHANGED serviceVars
           \/ PublishOffline \/ Signal
           \/ \E t \in Worker, transition \in {"start", "stop"} :
                Request(t, transition) /\ UNCHANGED serviceVars
           \/ WorldStep /\ UNCHANGED serviceVars
           \/ UNCHANGED allVars
  <2>1. UNCHANGED <<phase, pub, overtime>> /\ (stopping => stopping')
    BY <1>8 DEF IngressProgress, PublishOffline, Signal, Request, WorldStep, MediaMtxRestarts,
                LateCommand, serviceVars, worldVars, vars, allVars
  <2>2. QED
    BY <2>1 DEF PublisherInv
<1>9. QED
  BY <1>1, <1>2, <1>3, <1>4, <1>5, <1>6, <1>7, <1>8 DEF ServiceNext, MainServiceStep, PublisherInv

(* The offline entity is the last word of the process, unless _shutdown    *)
(* reported that the publisher outlasted the join: then the one tick that  *)
(* was still sending, and nothing else, can put its draft in its place.    *)
(* No transition gets to its publish any more, and main() publishes once.  *)
THEOREM OfflineStays == ServiceSpec => OfflineIsFinal
<1>1. ServiceInit => PublisherInv
  BY DEF ServiceInit, Init, PublisherInv
<1>2. Strong /\ PublisherInv /\ [ServiceNext]_allVars =>
        [phase = "exit" /\ phase' = "exit" /\ shown.offline /\ ~shown'.offline
            => overtime /\ stopping /\ pub = "send" /\ shown' = draft]_allVars
  <2> SUFFICES ASSUME Strong, PublisherInv, [ServiceNext]_allVars, shown.offline,
                      phase = "exit", phase' = "exit", ~shown'.offline
               PROVE  overtime /\ stopping /\ pub = "send" /\ shown' = draft
    OBVIOUS
  <2>0. shown' # shown
    OBVIOUS
  <2>1. CASE PublisherStep
    BY <2>0, <2>1 DEF PublisherStep, PublisherTick, ReadSensor, ReadMedia, ReadCatalog, Reads,
                      SendOk, SendRaises, PublisherInv
  <2>2. ASSUME NEW t \in Thread PROVE ~PublishingTransition(t)
    <3>1. pc[t] # "advertise"
      BY DEF Strong, ShutdownInv, Thread
    <3>2. QED
      BY <3>1 DEF PublishingTransition, AdvertiseOk, AdvertiseRaises
  <2>3. ~PublishOffline
    BY <2>0 DEF PublishOffline, Offline, Current
  <2>4. ~ServiceInterrupt
    BY DEF ServiceInterrupt, Interrupt
  <2>5. QED
    BY <2>0, <2>1, <2>2, <2>3, <2>4
       DEF ServiceNext, MainServiceStep, OtherTransitionStep, RunService, JoinAndShutdown,
           CleanupDone, Signal, ServiceRestart, ServiceCrash, ServiceLost, serviceVars, allVars
<1>3. Strong => ControlTypeOK
  BY DEF Strong
<1>4. QED
  BY <1>1, <1>2, <1>3, ServiceStrong, PublisherKept, PTL DEF ServiceSpec, OfflineIsFinal
=============================================================================
