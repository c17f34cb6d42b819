-------------------------- MODULE CameraStreamProofs --------------------------
(***************************************************************************)
(* CameraControl implements CameraStream, for every set of ingress ids and *)
(* workers and any number of requests, as long as no command fails or is   *)
(* given up on: VideoManager, the disk, the publishes and the process may  *)
(* fail in every way.                                                      *)
(***************************************************************************)
EXTENDS CameraControlProofs

CommandsWork == Faults \cap {"command", "timeout"} = {}

-----------------------------------------------------------------------------
(* What is known was registered.                                           *)

(* No place that remembers an ingress names one that was never registered. *)
KnownInv == \A i \in {info, fresh, record, disk, card} : i # NoId => server[i] # "free"

(* Every step of VideoIngress keeps KnownInv.                              *)
LEMMA IngressStepKnown ==
    ASSUME IngressTypeOK, KnownInv, IngressStep
    PROVE  KnownInv'
<1> USE NoIdAssumption DEF IngressTypeOK, KnownInv, MaybeId, Archive
<1>1. CASE RegisterOk \/ RegisterRaises
  BY <1>1 DEF RegisterOk, RegisterRaises
<1>2. CASE Persist
  BY <1>2 DEF Persist, Store
<1>3. CASE WriteTargetOk \/ WriteTargetRaises
  BY <1>3 DEF WriteTargetOk, WriteTargetRaises
<1>4. CASE UndoOk \/ UndoRaises
  BY <1>4 DEF UndoOk, UndoRaises, ArchiveRaises
<1>5. CASE Unrecord \/ Forget \/ Disown \/ Unorphan
  BY <1>5 DEF Unrecord, Forget, Disown, Unorphan, ClearRecord, Store
<1>6. CASE DeleteOk \/ DeleteRaises
  BY <1>6 DEF DeleteOk, DeleteRaises, ArchiveRaises
<1>7. CASE RecoverOk \/ RecoverRaises
  BY <1>7 DEF RecoverOk, RecoverRaises, ArchiveRaises
<1> QED
  BY <1>1, <1>2, <1>3, <1>4, <1>5, <1>6, <1>7 DEF IngressStep

(* What a step of a transition does to the ingress: nothing, or it calls   *)
(* VideoIngress or takes its result.                                       *)
LEMMA TransitionTouches ==
    ASSUME NEW t \in Thread, TransitionStep(t)
    PROVE  /\ UNCHANGED <<server, info, fresh, record, disk, card, flushError, target, phase>>
           /\ UNCHANGED call \/ Create \/ Delete \/ Recover \/ Return
BY DEF TransitionStep, AcquireStart, Leftover, Register, StartCommandOk,
       StartCommandRaises, Unregister, AcquireStop, StopCommandOk, StopCommandRaises,
       ArchiveIngress, AcquireRecover, RecoverIngress, AcquireShutdown,
       ShutdownPipeline, ShutdownIngress, AdvertiseOk, AdvertiseRaises, Release,
       Invoke, Returned, Create, Delete, Recover, Return, ingressVars, worldVars

(* Every step keeps KnownInv.                                              *)
LEMMA KnownInvKept ==
    ASSUME ControlTypeOK, KnownInv, [Next]_vars
    PROVE  KnownInv'
<1> USE DEF KnownInv
<1>0. IngressTypeOK
  BY DEF ControlTypeOK
<1>1. ASSUME UNCHANGED <<server, info, fresh, record, disk, card>> PROVE KnownInv'
  BY <1>1
<1>2. CASE \E t \in Thread : TransitionStep(t)
  BY <1>1, <1>2, TransitionTouches
<1>3. CASE IngressProgress
  BY <1>0, <1>3, IngressStepKnown DEF IngressProgress
<1>4. CASE Restart \/ Crash
  BY <1>4 DEF Restart, Crash, NewProcess, IngressLost
<1>5. CASE PowerLoss
  BY <1>5 DEF PowerLoss, AfterPowerLoss, NewProcess, IngressLost
<1>6. CASE Interrupt
  BY <1>0, <1>6, NoIdAssumption
     DEF Interrupt, IngressInterrupted, IngressTypeOK, MaybeId, Archive
<1>7. CASE \/ MainStep \/ Terminate \/ MediaMtxRestarts \/ LateCommand
           \/ \E t \in Worker, transition \in {"start", "stop"} : Request(t, transition)
  BY <1>1, <1>7 DEF MainStep, BootRecover, InitialStart, Serve, ShutdownDone, Terminate,
                    MainCalls, MediaMtxRestarts, LateCommand, Request, ingressVars
<1>8. CASE WriteBack
  BY <1>8 DEF WriteBack
<1>9. CASE UNCHANGED vars
  BY <1>1, <1>9 DEF vars, ingressVars
<1> QED
  BY <1>2, <1>3, <1>4, <1>5, <1>6, <1>7, <1>8, <1>9 DEF Next

-----------------------------------------------------------------------------
(* The inductive invariant.                                                *)

(* The source of a stream that is on is the owned ingress, and live.       *)
SourceInv == desiredOn => producer = info /\ info # NoId /\ server[info] = "live"

(* delete() runs with the stream off; what create() registers is live.     *)
CallInv ==
    /\ call \in {"delete", "forget", "disown"} => ~desiredOn
    /\ call \in {"persist", "write"} => fresh # NoId /\ server[fresh] = "live"

(* Where thread t is tells what is owned and which call can be running.    *)
Place(t) ==
    /\ pc[t] # "unregister"
    /\ pc[t] \in {"leftover", "archive", "archiving"} =>
        ~desiredOn /\ call \in {"idle", "delete", "forget", "disown", "ok", "error"}
    /\ pc[t] = "leftover" /\ call = "ok" => info = NoId
    /\ pc[t] = "register" =>
        call \in {"idle", "create", "persist", "write", "undo", "unrecord", "ok", "error"}
    /\ pc[t] = "register" /\ call = "idle" => desiredOn \/ info = NoId
    /\ pc[t] = "register" /\ call = "ok" => info # NoId /\ server[info] = "live"
    /\ pc[t] = "command" => call = "idle" /\ info # NoId /\ server[info] = "live"

PlaceInv == \A t \in Thread : Place(t)

(* Before run() the workers are not there, and the stream is off until the *)
(* initial start has run its command.                                      *)
BootInv ==
    /\ phase \in {"boot", "recover", "start"} => \A w \in Worker : pc[w] = "idle"
    /\ phase \in {"boot", "recover"} =>
        pc[Main] \in {"idle", "recover", "recovering", "release"} /\ ~desiredOn
    /\ phase = "start" /\ desiredOn => pc[Main] \in {"advertise", "release", "idle"}

(* A Stop that is still to come, from a process that died in it, finds the *)
(* stream off: the command that turns it on again replaces the late one.   *)
LateInv == desiredOn => late # "stop"

StreamInv == SourceInv /\ CallInv /\ PlaceInv /\ BootInv /\ LateInv

Strong == ControlTypeOK /\ InsideHolds /\ RecordInv /\ ShutdownInv /\ KnownInv

(* A thread that moves inside the lock is alone there, and no call runs    *)
(* but on its behalf.                                                      *)
LEMMA Alone ==
    ASSUME Strong, NEW t \in Thread, TransitionStep(t)
    PROVE  /\ \A s \in Thread \ {t} : pc[s] \notin Inside /\ pc'[s] = pc[s]
           /\ pc[t] \notin Calling => call = "idle"
<1>1. NoThread \notin Thread
  BY ThreadAssumption DEF Thread
<1>2. \A s \in Thread \ {t} : pc[s] \notin Inside /\ pc'[s] = pc[s]
  <2>1. "release" \in Inside
    BY DEF Inside
  <2> QED
    BY <1>1, <2>1, TransitionMoves DEF Strong, InsideHolds
<1>3. ASSUME pc[t] \notin Calling PROVE call = "idle"
  <2>1. Calling \subseteq Inside
    BY DEF Calling, Inside, InStart, InStop, InShutdown
  <2> QED
    BY <1>2, <1>3, <2>1 DEF Strong, ShutdownInv
<1> QED
  BY <1>2, <1>3

(* A step of a transition keeps StreamInv.                                 *)
LEMMA TransitionKeeps ==
    ASSUME CommandsWork, Strong, StreamInv, NEW t \in Thread, TransitionStep(t)
    PROVE  StreamInv'
<1> USE DEF StreamInv
<1>0. ControlTypeOK /\ IngressTypeOK /\ OwnedIsRecorded /\ Place(t)
  BY DEF Strong, ControlTypeOK, RecordInv, PlaceInv
<1>1. \A s \in Thread \ {t} : pc[s] \notin Inside /\ pc'[s] = pc[s]
  BY Alone
<1>2. pc[t] \notin Calling => call = "idle"
  BY Alone
<1>3. \A job : ~CommandFails(job)
  BY DEF CommandsWork, CommandFails
<1>4. /\ SourceInv' /\ CallInv' /\ Place(t)' /\ LateInv'
      /\ desiredOn' => desiredOn \/ (pc[t] = "command" /\ pc'[t] = "advertise")
  <2> USE DEF SourceInv, CallInv, LateInv, Place, Calling, Goto, Finish
  <2>1. CASE AcquireStart(t)
    BY <1>0, <1>2, <2>1 DEF AcquireStart, Acquire, ControlTypeOK, ingressVars, worldVars
  <2>2. CASE AcquireStop(t)
    BY <1>0, <1>2, <2>2 DEF AcquireStop, Acquire, ControlTypeOK, ingressVars, worldVars
  <2>3. CASE AcquireShutdown(t)
    BY <1>0, <1>2, <2>3 DEF AcquireShutdown, Acquire, ControlTypeOK, ingressVars, worldVars
  <2>4. CASE AcquireRecover(t)
    BY <1>0, <1>2, <2>4 DEF AcquireRecover, ControlTypeOK, ingressVars, worldVars
  <2>5. CASE Release(t) \/ AdvertiseOk(t) \/ AdvertiseRaises(t)
    BY <1>0, <2>5 DEF Release, AdvertiseOk, AdvertiseRaises, ControlTypeOK,
        ingressVars, worldVars
  <2>6. CASE StartCommandOk(t) \/ StartCommandRaises(t)
    BY <1>0, <1>2, <1>3, <2>6 DEF StartCommandOk, StartCommandRaises, Commanded,
        OwnedIsRecorded, ControlTypeOK, ingressVars
  <2>7. CASE StopCommandOk(t) \/ StopCommandRaises(t)
    BY <1>0, <1>2, <1>3, <2>7 DEF StopCommandOk, StopCommandRaises, Commanded,
        ControlTypeOK, ingressVars
  <2>8. CASE ShutdownPipeline(t)
    BY <1>0, <1>2, <1>3, <2>8 DEF ShutdownPipeline, Commanded, ControlTypeOK, ingressVars
  <2>9. CASE Leftover(t)
    BY <1>0, <2>9 DEF Leftover, Invoke, Returned, Delete, Return, ControlTypeOK,
        controlVars, worldVars
  <2>10. CASE Register(t)
    BY <1>0, <2>10 DEF Register, Invoke, Returned, Create, Return, ControlTypeOK,
        controlVars, worldVars
  <2>11. CASE Unregister(t)
    BY <1>0, <2>11 DEF Unregister, Invoke, Returned
  <2>12. CASE ArchiveIngress(t)
    BY <1>0, <2>12 DEF ArchiveIngress, Invoke, Returned, Delete, Return, ControlTypeOK,
        controlVars, worldVars
  <2>13. CASE ShutdownIngress(t)
    BY <1>0, <2>13 DEF ShutdownIngress, Invoke, Returned, Delete, Return, ControlTypeOK,
        controlVars, worldVars
  <2>14. CASE RecoverIngress(t)
    BY <1>0, <2>14 DEF RecoverIngress, Invoke, Returned, Recover, Return, ControlTypeOK,
        controlVars, worldVars
  <2> QED
    BY <2>1, <2>2, <2>3, <2>4, <2>5, <2>6, <2>7, <2>8, <2>9, <2>10, <2>11, <2>12, <2>13, <2>14
       DEF TransitionStep
<1>5. PlaceInv'
  <2>1. ASSUME NEW s \in Thread \ {t} PROVE Place(s)'
    BY <1>1, <2>1 DEF Place, Inside, InStart, InStop, InShutdown
  <2> QED
    BY <1>4, <2>1 DEF PlaceInv
<1>6. BootInv'
  <2>1. ASSUME phase \in {"boot", "recover", "start"} PROVE t = Main
    BY <2>1, TransitionCalls DEF Strong, BootInv, Thread
  <2>2. \A w \in Worker : w # Main /\ w \in Thread
    BY ThreadAssumption DEF Thread
  <2>3. /\ pc[t] \in {"recover", "recovering"} => pc'[t] \in {"recovering", "release"}
        /\ pc[t] \in {"advertise", "release"} => pc'[t] \in {"release", "idle"}
    <3>1. pc[t] \in {"recover", "recovering", "advertise", "release"} =>
            \/ AcquireRecover(t) \/ RecoverIngress(t)
            \/ AdvertiseOk(t) \/ AdvertiseRaises(t) \/ Release(t)
      BY DEF TransitionStep, AcquireStart, Leftover, Register, StartCommandOk,
             StartCommandRaises, Unregister, AcquireStop, StopCommandOk, StopCommandRaises,
             ArchiveIngress, AcquireShutdown, ShutdownPipeline, ShutdownIngress, Invoke, Returned
    <3> QED
      BY <1>0, <3>1 DEF AcquireRecover, RecoverIngress, AdvertiseOk, AdvertiseRaises, Release,
             Invoke, Returned, Goto, Finish, ControlTypeOK, controlVars
  <2>4. pc[t] # "idle"
    BY TransitionCalls DEF Strong
  <2>5. UNCHANGED phase
    BY TransitionTouches
  <2> QED
    BY <1>1, <1>4, <2>1, <2>2, <2>3, <2>4, <2>5 DEF BootInv
<1> QED
  BY <1>4, <1>5, <1>6

(* So does a step inside VideoIngress.                                     *)
LEMMA ProgressKeeps ==
    ASSUME Strong, StreamInv, IngressProgress
    PROVE  StreamInv'
<1> USE DEF StreamInv
<1>0. /\ IngressTypeOK /\ UNCHANGED <<controlVars, worldVars>>
      /\ call \in {"create", "persist", "write", "undo", "unrecord", "recover", "unorphan"}
            => info = NoId /\ ~desiredOn
  BY DEF Strong, ControlTypeOK, RecordInv, SourceInv, IngressProgress
<1> USE NoIdAssumption DEF SourceInv, CallInv, LateInv, PlaceInv, Place, IngressTypeOK, MaybeId,
        controlVars, worldVars
<1>1. CASE RegisterOk \/ RegisterRaises
  BY <1>0, <1>1 DEF RegisterOk, RegisterRaises, BootInv
<1>2. CASE Persist
  BY <1>0, <1>2 DEF Persist, BootInv
<1>3. CASE WriteTargetOk \/ WriteTargetRaises
  BY <1>0, <1>3 DEF WriteTargetOk, WriteTargetRaises, BootInv
<1>4. CASE UndoOk \/ UndoRaises
  BY <1>0, <1>4 DEF UndoOk, UndoRaises, BootInv
<1>5. CASE Unrecord \/ Forget \/ Disown \/ Unorphan
  BY <1>0, <1>5 DEF Unrecord, Forget, Disown, Unorphan, BootInv
<1>6. CASE DeleteOk \/ DeleteRaises
  BY <1>0, <1>6 DEF DeleteOk, DeleteRaises, BootInv
<1>7. CASE RecoverOk \/ RecoverRaises
  BY <1>0, <1>7 DEF RecoverOk, RecoverRaises, BootInv
<1> QED
  BY <1>1, <1>2, <1>3, <1>4, <1>5, <1>6, <1>7 DEF IngressProgress, IngressStep

(* An interrupt of a boot that has turned the stream on breaks no command  *)
(* off: the start command is behind it.                                    *)
LEMMA InterruptLetsGo ==
    ASSUME BootInv, Interrupt, desiredOn
    PROVE  UNCHANGED <<producer, late, desiredOn>>
<1>1. \A t \in Thread : pc[t] \in {"advertise", "release", "idle"}
  BY DEF Interrupt, BootInv, Thread
<1> QED
  BY <1>1 DEF Interrupt, CommandLetGo

(* So does a step of main, a request, a signal, MediaMTX, or a death.      *)
LEMMA MainKeeps ==
    ASSUME Strong, StreamInv,
           \/ MainStep \/ Terminate \/ Interrupt \/ Restart \/ Crash \/ PowerLoss
           \/ WriteBack /\ UNCHANGED <<controlVars, worldVars>>
           \/ MediaMtxRestarts \/ LateCommand
           \/ \E t \in Worker, transition \in {"start", "stop"} : Request(t, transition)
    PROVE  StreamInv'
<1> USE DEF StreamInv
<1>0. /\ ControlTypeOK /\ IngressTypeOK /\ OwnedIsRecorded
      /\ \A w \in Worker : w # Main /\ w \in Thread
      /\ Main \in Thread
  BY ThreadAssumption DEF Strong, ControlTypeOK, RecordInv, Thread
<1>1. CASE MainStep \/ Terminate
  <2>1. ASSUME NEW from, NEW to, NEW transition \in {"recover", "start", "idle", "shutdown"},
               MainCalls(from, to, transition)
        PROVE  /\ SourceInv' /\ CallInv' /\ PlaceInv' /\ LateInv'
               /\ \A w \in Worker : pc'[w] = pc[w]
               /\ phase = from /\ phase' = to /\ pc'[Main] = transition
               /\ UNCHANGED desiredOn
    BY <1>0, <2>1 DEF MainCalls, Goto, SourceInv, CallInv, LateInv, PlaceInv, Place, ControlTypeOK,
                      ingressVars
  <2>2. CASE BootRecover
    BY <2>1, <2>2 DEF BootRecover, BootInv
  <2>3. CASE InitialStart
    BY <2>1, <2>3 DEF InitialStart, BootInv
  <2>4. CASE Serve
    BY <2>1, <2>4 DEF Serve, BootInv
  <2>5. CASE ShutdownDone \/ Terminate
    BY <2>1, <2>5 DEF ShutdownDone, Terminate, BootInv
  <2> QED
    BY <1>1, <2>2, <2>3, <2>4, <2>5 DEF MainStep
<1>2. CASE Restart \/ Crash \/ PowerLoss
  <2>1. NewProcess /\ LateInv'
    BY <1>2 DEF Restart, Crash, PowerLoss, NewProcess, LateInv
  <2> QED
    BY <1>0, <2>1 DEF NewProcess, IngressLost, SourceInv, CallInv, LateInv, PlaceInv, Place, BootInv
<1>3. CASE Interrupt
  <2>1. \A w \in Worker : pc'[w] = "idle"
    BY <1>0, <1>3 DEF Interrupt, BootInv, ControlTypeOK
  <2>2. pc'[Main] = "shutdown" /\ phase' = "shutdown" /\ call' = "idle" /\ LateInv'
    BY <1>0, <1>3, InterruptLetsGo DEF Interrupt, IngressInterrupted, ControlTypeOK, LateInv
  <2>3. ASSUME desiredOn
        PROVE  /\ producer' = producer
               /\ \A i \in IngressId : server[i] = "live" => server'[i] = "live"
    <3>1. producer' = producer
      BY <1>3, <2>3, InterruptLetsGo
    <3>2. call \notin {"undo", "delete", "recover"}
      BY <2>3 DEF Strong, RecordInv, SourceInv, CallInv
    <3> QED
      BY <1>0, <1>3, <3>1, <3>2 DEF Interrupt, IngressInterrupted, IngressTypeOK
  <2>4. SourceInv'
    BY <1>0, <1>3, <2>3 DEF Interrupt, IngressInterrupted, SourceInv, IngressTypeOK, MaybeId
  <2> QED
    BY <2>1, <2>2, <2>4 DEF CallInv, PlaceInv, Place, BootInv, Thread
<1>4. CASE MediaMtxRestarts \/ LateCommand
  BY <1>0, <1>4 DEF MediaMtxRestarts, LateCommand, Commanded, OwnedIsRecorded, SourceInv,
                    CallInv, LateInv, PlaceInv, Place, BootInv, ControlTypeOK, controlVars,
                    ingressVars
<1>5. CASE WriteBack /\ UNCHANGED <<controlVars, worldVars>>
  BY <1>5 DEF WriteBack, SourceInv, CallInv, LateInv, PlaceInv, Place, BootInv, controlVars,
              worldVars
<1>6. CASE \E t \in Worker, transition \in {"start", "stop"} : Request(t, transition)
  BY <1>0, <1>6 DEF Request, SourceInv, CallInv, LateInv, PlaceInv, Place, BootInv, ControlTypeOK,
                    ingressVars
<1> QED
  BY <1>1, <1>2, <1>3, <1>4, <1>5, <1>6

(* Every reachable state satisfies it.                                     *)
LEMMA StreamInvariant ==
    ASSUME CommandsWork
    PROVE  Spec => [](Strong /\ StreamInv)
<1>1. Init => RecordInv /\ KnownInv /\ StreamInv
  <2> SUFFICES ASSUME Init PROVE RecordInv /\ KnownInv /\ StreamInv
    OBVIOUS
  <2>1. RecordInv /\ KnownInv
    BY DEF Init, IngressInit, RecordInv, OwnedIsRecorded, KnownInv
  <2>2. SourceInv /\ CallInv /\ LateInv
    BY DEF Init, IngressInit, SourceInv, CallInv, LateInv
  <2>3. PlaceInv /\ BootInv
    BY DEF Init, PlaceInv, Place, BootInv, Thread
  <2> QED
    BY <2>1, <2>2, <2>3 DEF StreamInv
<1>2. Strong /\ StreamInv /\ [Next]_vars => RecordInv' /\ KnownInv' /\ StreamInv'
  <2> SUFFICES ASSUME Strong, StreamInv, [Next]_vars PROVE RecordInv' /\ KnownInv' /\ StreamInv'
    OBVIOUS
  <2>1. RecordInv' /\ KnownInv'
    BY RecordInvKept, KnownInvKept DEF Strong
  <2>2. UNCHANGED vars => StreamInv'
    BY DEF vars, ingressVars, controlVars, worldVars, StreamInv, SourceInv, CallInv, LateInv,
           PlaceInv, Place, BootInv
  <2> QED
    BY <2>1, <2>2, TransitionKeeps, ProgressKeeps, MainKeeps DEF Next
<1> QED
  BY <1>1, <1>2, ShutdownInvariant, PTL DEF Spec, Strong

(* While the stream is on MediaMTX pushes at the ingress the process owns, *)
(* and it is live, whatever fails but the commands.                        *)
THEOREM StreamIsLive ==
    ASSUME CommandsWork
    PROVE  Spec => []PushesAtOwnLive
<1>1. Strong /\ StreamInv => PushesAtOwnLive
  BY DEF StreamInv, SourceInv, PushesAtOwnLive
<1> QED
  BY <1>1, StreamInvariant, PTL

(* MediaMTX runs exactly while the stream is desired on, from the moment   *)
(* it does until the process dies or is interrupted in a start command.    *)
THEOREM ProducerFollows ==
    ASSUME CommandsWork
    PROVE  Spec => ProducerFollowsIntent
<1> DEFINE Agree == desiredOn <=> producer # NoId
<1>1. ASSUME Strong, StreamInv, [Next]_vars, Agree, late = "none"
      PROVE  Agree' \/ phase' = "boot"
  <2>0. /\ \A job : ~CommandFails(job)
        /\ desiredOn => target # NoId
    BY <1>1 DEF CommandsWork, CommandFails, Strong, RecordInv, OwnedIsRecorded, StreamInv, SourceInv
  <2>1. ASSUME UNCHANGED <<desiredOn, producer>> PROVE Agree'
    BY <1>1, <2>1
  <2>2. ASSUME NEW t \in Thread, TransitionStep(t) PROVE Agree'
    <3>1. CASE StartCommandOk(t)
      BY <1>1, <3>1 DEF StartCommandOk, Commanded, Strong, RecordInv, OwnedIsRecorded, StreamInv,
                        PlaceInv, Place
    <3>2. CASE StopCommandOk(t) \/ ShutdownPipeline(t)
      BY <2>0, <3>2 DEF StopCommandOk, ShutdownPipeline, Commanded
    <3>3. CASE ~StartCommandOk(t) /\ ~StopCommandOk(t) /\ ~ShutdownPipeline(t)
      BY <2>0, <2>1, <2>2, <3>3
         DEF TransitionStep, AcquireStart, Leftover, Register, StartCommandRaises, Unregister,
             AcquireStop, StopCommandRaises, ArchiveIngress, AcquireRecover, RecoverIngress,
             AcquireShutdown, ShutdownIngress, AdvertiseOk, AdvertiseRaises, Release,
             Invoke, Returned, controlVars, worldVars
    <3> QED
      BY <3>1, <3>2, <3>3
  <2>3. CASE Restart \/ Crash \/ PowerLoss
    BY <2>3 DEF Restart, Crash, PowerLoss, NewProcess
  <2>4. CASE Interrupt
    BY <1>1, <2>4, InterruptLetsGo DEF Interrupt, CommandLetGo, StreamInv
  <2>5. CASE MediaMtxRestarts \/ LateCommand
    BY <1>1, <2>0, <2>5 DEF MediaMtxRestarts, LateCommand, controlVars
  <2>6. CASE \/ MainStep \/ Terminate \/ IngressProgress
             \/ WriteBack /\ UNCHANGED <<controlVars, worldVars>>
             \/ \E t \in Worker, transition \in {"start", "stop"} : Request(t, transition)
             \/ UNCHANGED vars
    BY <2>1, <2>6 DEF MainStep, BootRecover, InitialStart, Serve, ShutdownDone, Terminate,
                      MainCalls, IngressProgress, Request, vars, controlVars, worldVars
  <2> QED
    BY <1>1, <2>2, <2>3, <2>4, <2>5, <2>6 DEF Next
<1>2. Strong /\ StreamInv /\ [Next]_vars
      => [(desiredOn <=> producer # NoId) /\ late = "none"
            => (desiredOn' <=> producer' # NoId) \/ phase' = "boot"]_vars
  BY <1>1
<1> QED
  BY <1>2, StreamInvariant, PTL DEF Spec, ProducerFollowsIntent

-----------------------------------------------------------------------------
(* The refinement.                                                         *)

Source == IF desiredOn THEN producer ELSE NoId

(* The steps of CameraStream, in terms of the control.                     *)
StreamStep ==
    \/ UNCHANGED <<server, Source>>
    \/ /\ UNCHANGED Source
       /\ \E i \in IngressId :
            \/ server[i] = "free" /\ server' = [server EXCEPT ![i] = "live"]
            \/ server[i] = "live" /\ i # Source /\ server' = [server EXCEPT ![i] = "archived"]
    \/ /\ UNCHANGED server
       /\ \/ Source = NoId /\ Source' \in IngressId /\ server[Source'] = "live"
          \/ Source # NoId /\ Source' = NoId

LEMMA StreamStepMaps ==
    ASSUME StreamStep
    PROVE  [Stream!StreamNext]_(Stream!streamVars)
BY DEF StreamStep, Source, Stream!StreamNext, Stream!streamVars, Stream!Register,
       Stream!Retire, Stream!TurnOn, Stream!TurnOff

(* Archiving what is known, with the stream off, is a Retire or a stutter. *)
LEMMA ArchiveMaps ==
    ASSUME IngressTypeOK, NEW i \in MaybeId, i # NoId => server[i] # "free", Archive(i),
           Source = NoId, UNCHANGED Source
    PROVE  StreamStep
<1> USE DEF IngressTypeOK, Archive
<1>1. CASE i = NoId
  BY <1>1, NoIdAssumption DEF StreamStep
<1>2. CASE i # NoId /\ server[i] = "live"
  BY <1>2, NoIdAssumption DEF StreamStep, MaybeId
<1>3. CASE i # NoId /\ server[i] = "archived"
  <2>1. server' = server
    BY <1>3, NoIdAssumption DEF MaybeId
  <2> QED
    BY <2>1 DEF StreamStep
<1> QED
  BY <1>1, <1>2, <1>3 DEF MaybeId

(* Every step of the control is one of CameraStream's.                     *)
LEMMA StepMaps ==
    ASSUME CommandsWork, Strong, StreamInv, [Next]_vars
    PROVE  StreamStep
<1>0. /\ IngressTypeOK /\ SourceInv /\ CallInv /\ PlaceInv /\ OwnedIsRecorded
      /\ call \in {"undo", "delete", "recover"} => Source = NoId
      /\ desiredOn => Source = target /\ Source # NoId
  BY DEF Strong, ControlTypeOK, StreamInv, RecordInv, SourceInv, CallInv, Source, OwnedIsRecorded
<1>1. ASSUME UNCHANGED <<server, desiredOn, producer>> PROVE StreamStep
  BY <1>1 DEF StreamStep, Source
<1>2. ASSUME NEW t \in Thread, TransitionStep(t) PROVE StreamStep
  <2>1. UNCHANGED server
    BY <1>2, TransitionTouches
  <2>2. CASE StartCommandOk(t)
    <3>1. info # NoId /\ info \in IngressId /\ target = info /\ server[info] = "live"
      BY <1>0, <2>2 DEF StartCommandOk, PlaceInv, Place, OwnedIsRecorded, IngressTypeOK, MaybeId
    <3>2. Source' = info /\ (desiredOn => Source = info) /\ (~desiredOn => Source = NoId)
      BY <1>0, <2>2, <3>1 DEF StartCommandOk, Commanded, Source, SourceInv
    <3> QED
      BY <2>1, <3>1, <3>2 DEF StreamStep
  <2>3. CASE StopCommandOk(t) \/ ShutdownPipeline(t)
    BY <2>1, <2>3 DEF StopCommandOk, ShutdownPipeline, StreamStep, Source
  <2>4. ~StartCommandRaises(t) /\ ~StopCommandRaises(t)
    BY DEF CommandsWork, CommandFails, StartCommandRaises, StopCommandRaises
  <2>5. CASE ~StartCommandOk(t) /\ ~StopCommandOk(t) /\ ~ShutdownPipeline(t)
    BY <1>1, <1>2, <2>1, <2>4, <2>5
       DEF TransitionStep, AcquireStart, Leftover, Register, Unregister, AcquireStop,
           ArchiveIngress, AcquireRecover, RecoverIngress, AcquireShutdown, ShutdownIngress,
           AdvertiseOk, AdvertiseRaises, Release, Invoke, Returned, controlVars, worldVars
  <2> QED
    BY <2>2, <2>3, <2>5
<1>3. CASE IngressProgress
  <2>1. UNCHANGED <<desiredOn, producer, Source>>
    BY <1>3 DEF IngressProgress, controlVars, worldVars, Source
  <2>2. CASE RegisterOk \/ RegisterRaises
    BY <2>1, <2>2 DEF RegisterOk, RegisterRaises, StreamStep
  <2>3. CASE UndoOk \/ UndoRaises
    BY <1>0, <1>1, <2>1, <2>3, ArchiveMaps
       DEF UndoOk, UndoRaises, ArchiveRaises, Strong, KnownInv, IngressTypeOK
  <2>4. CASE DeleteOk \/ DeleteRaises
    BY <1>0, <1>1, <2>1, <2>4, ArchiveMaps
       DEF DeleteOk, DeleteRaises, ArchiveRaises, Strong, KnownInv, IngressTypeOK
  <2>5. CASE RecoverOk \/ RecoverRaises
    BY <1>0, <1>1, <2>1, <2>5, ArchiveMaps
       DEF RecoverOk, RecoverRaises, ArchiveRaises, Strong, KnownInv, IngressTypeOK
  <2>6. CASE \/ Persist \/ WriteTargetOk \/ WriteTargetRaises
             \/ Unrecord \/ Forget \/ Disown \/ Unorphan
    BY <1>1, <2>1, <2>6
       DEF Persist, WriteTargetOk, WriteTargetRaises, Unrecord, Forget, Disown, Unorphan
  <2> QED
    BY <1>3, <2>2, <2>3, <2>4, <2>5, <2>6 DEF IngressProgress, IngressStep
<1>4. CASE Restart \/ Crash \/ PowerLoss
  BY <1>4 DEF Restart, Crash, PowerLoss, NewProcess, IngressLost, StreamStep, Source
<1>5. CASE Interrupt
  <2>1. UNCHANGED Source
    BY <1>5, InterruptLetsGo DEF Interrupt, Source, StreamInv
  <2>2. \/ UNCHANGED server
        \/ \E i \in IngressId : server[i] = "free" /\ server' = [server EXCEPT ![i] = "live"]
        \/ call = "undo" /\ Archive(fresh)
        \/ call = "delete" /\ Archive(info)
        \/ call = "recover" /\ Archive(record)
    BY <1>5 DEF Interrupt, IngressInterrupted
  <2>3. CASE \/ UNCHANGED server
             \/ \E i \in IngressId : server[i] = "free" /\ server' = [server EXCEPT ![i] = "live"]
    BY <2>1, <2>3 DEF StreamStep
  <2>4. CASE \/ call = "undo" /\ Archive(fresh)
             \/ call = "delete" /\ Archive(info)
             \/ call = "recover" /\ Archive(record)
    BY <1>0, <2>1, <2>4, ArchiveMaps DEF Strong, KnownInv, IngressTypeOK
  <2> QED
    BY <2>2, <2>3, <2>4
<1>6. CASE MediaMtxRestarts \/ LateCommand
  BY <1>0, <1>6 DEF MediaMtxRestarts, LateCommand, Commanded, StreamInv, Strong, ControlTypeOK,
                    StreamStep, Source, controlVars, ingressVars
<1>7. CASE \/ MainStep \/ Terminate
           \/ WriteBack /\ UNCHANGED <<controlVars, worldVars>>
           \/ \E t \in Worker, transition \in {"start", "stop"} : Request(t, transition)
           \/ UNCHANGED vars
  BY <1>1, <1>7 DEF MainStep, BootRecover, InitialStart, Serve, ShutdownDone, Terminate,
                    MainCalls, WriteBack, Request, vars, ingressVars, controlVars, worldVars
<1> QED
  BY <1>2, <1>3, <1>4, <1>5, <1>6, <1>7 DEF Next

(* The control implements CameraStream: no interleaving of tasks, failures *)
(* of VideoManager, the disk or a publish, crashes, interrupts and power   *)
(* losses ever archives the ingress the video goes to, turns on a dead     *)
(* one, or moves the stream from one ingress to another without a stop.    *)
THEOREM StreamImplemented ==
    ASSUME CommandsWork
    PROVE  Spec => ImplementsStream
<1>1. Init => Stream!StreamInit
  BY DEF Init, IngressInit, Stream!StreamInit
<1>2. Strong /\ StreamInv /\ [Next]_vars => [Stream!StreamNext]_(Stream!streamVars)
  BY StepMaps, StreamStepMaps
<1> QED
  BY <1>1, <1>2, StreamInvariant, PTL DEF Spec, ImplementsStream, Stream!StreamSpec
=============================================================================
