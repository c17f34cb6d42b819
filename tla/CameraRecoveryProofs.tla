------------------------- MODULE CameraRecoveryProofs -------------------------
(***************************************************************************)
(* What failures leave behind in CameraControl: where an ingress can be    *)
(* orphaned, that none leaks while VideoManager answers, and that a        *)
(* transition repairs what failed commands before it have left.  For every *)
(* set of ids and workers and any number of requests; what each theorem    *)
(* asks of the faults is its assumption.                                   *)
(***************************************************************************)
EXTENDS CameraStreamProofs

-----------------------------------------------------------------------------
(* The local `info` of create(), and what has been archived.               *)

(* create() holds a registered ingress from its answer to its end, and the *)
(* record names it from _persist on; and a record or an owned ingress is   *)
(* forgotten only after VideoManager has archived it.                      *)
FreshInv ==
    /\ call \notin {"persist", "write", "undo", "unrecord"} => fresh = NoId
    /\ call \in {"persist", "write"} => fresh # NoId /\ server[fresh] = "live"
    /\ call \in {"write", "undo", "unrecord"} => record = fresh
    /\ call = "unrecord" /\ fresh # NoId => server[fresh] = "archived"
    /\ call = "unorphan" /\ record # NoId => server[record] = "archived"

(* Every step inside VideoIngress keeps FreshInv.                          *)
LEMMA IngressStepFresh ==
    ASSUME IngressTypeOK, RecordInv, FreshInv, IngressStep
    PROVE  FreshInv'
<1> USE NoIdAssumption DEF IngressTypeOK, FreshInv, MaybeId
<1>1. CASE RegisterOk \/ RegisterRaises
  BY <1>1 DEF RegisterOk, RegisterRaises
<1>2. CASE Persist
  BY <1>2 DEF Persist, Store
<1>3. CASE WriteTargetOk \/ WriteTargetRaises
  BY <1>3 DEF WriteTargetOk, WriteTargetRaises
<1>4. CASE UndoOk \/ UndoRaises
  BY <1>4 DEF UndoOk, UndoRaises, Archive
<1>5. CASE Unrecord \/ Forget \/ Disown \/ Unorphan
  BY <1>5 DEF Unrecord, Forget, Disown, Unorphan, ClearRecord, Store
<1>6. CASE DeleteOk \/ DeleteRaises
  BY <1>6 DEF DeleteOk, DeleteRaises, Archive
<1>7. CASE RecoverOk \/ RecoverRaises
  BY <1>7 DEF RecoverOk, RecoverRaises, Archive
<1> QED
  BY <1>1, <1>2, <1>3, <1>4, <1>5, <1>6, <1>7 DEF IngressStep

(* So does every other step.                                               *)
LEMMA FreshInvKept ==
    ASSUME ControlTypeOK, RecordInv, FreshInv, [Next]_vars
    PROVE  FreshInv'
<1> USE DEF FreshInv
<1>0. IngressTypeOK
  BY DEF ControlTypeOK
<1>1. ASSUME UNCHANGED ingressVars \/ Create \/ Delete \/ Recover \/ Return \/ WriteBack
      PROVE  FreshInv'
  BY <1>1 DEF Create, Delete, Recover, Return, WriteBack, ingressVars
<1>2. ASSUME NEW t \in Thread, TransitionStep(t) PROVE FreshInv'
  BY <1>1, <1>2, TransitionTouches DEF ingressVars
<1>3. CASE IngressProgress
  BY <1>0, <1>3, IngressStepFresh DEF IngressProgress
<1>4. CASE Restart \/ Crash \/ PowerLoss
  BY <1>4 DEF Restart, Crash, PowerLoss, NewProcess, IngressLost
<1>5. CASE Interrupt
  BY <1>5 DEF Interrupt, IngressInterrupted
<1>6. CASE \/ MainStep \/ Terminate \/ MediaMtxRestarts \/ LateCommand
           \/ \E t \in Worker, transition \in {"start", "stop"} : Request(t, transition)
           \/ UNCHANGED vars
  BY <1>1, <1>6 DEF MainStep, BootRecover, InitialStart, Serve, ShutdownDone, Terminate,
                    MainCalls, MediaMtxRestarts, LateCommand, Request, vars
<1> QED
  BY <1>1, <1>2, <1>3, <1>4, <1>5, <1>6 DEF Next

(* It holds in every reachable state, whatever fails.                      *)
LEMMA FreshInvariant == Spec => [](Strong /\ FreshInv)
<1>1. Init => RecordInv /\ KnownInv /\ FreshInv
  BY DEF Init, IngressInit, RecordInv, OwnedIsRecorded, KnownInv, FreshInv
<1>2. Strong /\ FreshInv /\ [Next]_vars => RecordInv' /\ KnownInv' /\ FreshInv'
  BY RecordInvKept, KnownInvKept, FreshInvKept DEF Strong
<1> QED
  BY <1>1, <1>2, ShutdownInvariant, PTL DEF Spec, Strong

-----------------------------------------------------------------------------
(* Orphans.                                                                *)

(* The gaps of OrphanOnlyThroughGaps, of one step and one ingress.         *)
Gap(i) ==
    \/ call = "create" /\ call' # "persist"
    \/ call = "persist" /\ fresh = i /\ phase' \in {"boot", "shutdown"}
    \/ call = "persist" /\ fresh # i
    \/ flushError /\ record = i /\ disk # i /\ phase' = "boot"
    \/ flushError /\ record # i /\ disk = i
    \/ card # disk /\ disk = i /\ disk' # i /\ phase' = "boot"

(* A step inside VideoIngress orphans an ingress only through a gap.       *)
LEMMA IngressStepOrphans ==
    ASSUME IngressTypeOK, RecordInv, FreshInv, IngressStep,
           NEW i \in IngressId, ~Orphan(i), Orphan(i)'
    PROVE  Gap(i)
<1> USE NoIdAssumption DEF IngressTypeOK, RecordInv, OwnedIsRecorded, FreshInv, MaybeId,
        Orphan, Gap
<1>1. CASE RegisterOk \/ RegisterRaises
  BY <1>1 DEF RegisterOk, RegisterRaises
<1>2. CASE Persist
  BY <1>2 DEF Persist, Store
<1>3. CASE WriteTargetOk \/ WriteTargetRaises
  BY <1>3 DEF WriteTargetOk, WriteTargetRaises
<1>4. CASE UndoOk \/ UndoRaises
  BY <1>4 DEF UndoOk, UndoRaises, Archive, ArchiveRaises
<1>5. CASE Unrecord \/ Forget \/ Disown \/ Unorphan
  <2>1. UNCHANGED server /\ server[i] = "live"
    BY <1>5 DEF Unrecord, Forget, Disown, Unorphan
  <2>2. i # record \/ Disown
    BY <1>5, <2>1 DEF Unrecord, Forget, Disown, Unorphan
  <2>3. i = disk /\ i # record => flushError
    OBVIOUS
  <2> QED
    BY <1>5, <2>1, <2>2, <2>3 DEF Unrecord, Forget, Disown, Unorphan
<1>6. CASE DeleteOk \/ DeleteRaises
  BY <1>6 DEF DeleteOk, DeleteRaises, Archive, ArchiveRaises
<1>7. CASE RecoverOk \/ RecoverRaises
  BY <1>7 DEF RecoverOk, RecoverRaises, Archive, ArchiveRaises
<1> QED
  BY <1>1, <1>2, <1>3, <1>4, <1>5, <1>6, <1>7 DEF IngressStep

(* After the shutdown no call is running.                                  *)
LEMMA QuietAtExit ==
    ASSUME Strong, phase = "exit"
    PROVE  call = "idle"
<1>1. \A t \in Thread : pc[t] \in {"idle", "start", "stop", "release"}
  BY DEF Strong, ShutdownInv, Thread
<1> QED
  BY <1>1 DEF Strong, ShutdownInv, Calling

(* An ingress is orphaned only through the gaps listed with the property:  *)
(* in particular never by clearing a record, by a failed delete or undo, by*)
(* two transitions one after the other, or by a death or an interrupt that *)
(* finds the record written.                                               *)
THEOREM OrphansAppearInGaps == Spec => OrphanOnlyThroughGaps
<1>1. ASSUME Strong, FreshInv, [Next]_vars, NEW i \in IngressId, ~Orphan(i), Orphan(i)'
      PROVE  Gap(i)
  <2>0. IngressTypeOK /\ RecordInv /\ OwnedIsRecorded
    BY <1>1 DEF Strong, ControlTypeOK, RecordInv
  <2>1. ~UNCHANGED <<server, info, fresh, record, disk>>
    BY <1>1 DEF Orphan
  <2>2. CASE IngressProgress
    BY <1>1, <2>0, <2>2, IngressStepOrphans DEF IngressProgress
  <2>3. CASE Restart
    <3>1. fresh = NoId
      BY <1>1, <2>3, QuietAtExit DEF Restart, FreshInv
    <3> QED
      BY <1>1, <2>0, <2>3, <3>1, NoIdAssumption
         DEF Restart, NewProcess, IngressLost, RecordInv, OwnedIsRecorded, Orphan, Gap
  <2>4. CASE Crash \/ PowerLoss
    <3>1. /\ phase' = "boot" /\ server' = server /\ record' = disk'
          /\ disk' = disk \/ card # disk
      BY <2>4 DEF Crash, PowerLoss, AfterPowerLoss, NewProcess, IngressLost
    <3>2. i \in {info, fresh, record}  \/ i = disk
      BY <1>1, <3>1 DEF Orphan
    <3>3. CASE i = fresh
      BY <1>1, <2>0, <3>1, <3>3, NoIdAssumption DEF FreshInv, RecordInv, Orphan, Gap
    <3>4. CASE i # fresh
      BY <1>1, <2>0, <3>1, <3>2, <3>4, NoIdAssumption
         DEF RecordInv, OwnedIsRecorded, Orphan, Gap
    <3> QED
      BY <3>3, <3>4
  <2>5. CASE Interrupt
    <3>1. /\ phase' = "shutdown" /\ call' = "idle"
          /\ UNCHANGED <<info, record, disk>>
      BY <2>5 DEF Interrupt, IngressInterrupted
    <3>2. call = "create" \/ (server'[i] = "live" => server[i] = "live")
      BY <2>0, <2>5 DEF Interrupt, IngressInterrupted, Archive, IngressTypeOK
    <3> QED
      BY <1>1, <2>0, <2>5, <3>1, <3>2, NoIdAssumption
         DEF Interrupt, IngressInterrupted, Archive, IngressTypeOK, FreshInv, Orphan, Gap
  <2>6. ~\E t \in Thread : TransitionStep(t)
    BY <2>1, TransitionTouches
  <2>7. ~\/ MainStep \/ Terminate \/ MediaMtxRestarts \/ LateCommand
         \/ \E t \in Worker, transition \in {"start", "stop"} : Request(t, transition)
         \/ WriteBack
         \/ UNCHANGED vars
    BY <2>1 DEF MainStep, BootRecover, InitialStart, Serve, ShutdownDone, Terminate,
                MainCalls, MediaMtxRestarts, LateCommand, Request, WriteBack, vars, ingressVars
  <2> QED
    BY <1>1, <2>2, <2>3, <2>4, <2>5, <2>6, <2>7 DEF Next
<1>2. Strong /\ FreshInv /\ [Next]_vars
      => [\A i \in IngressId : ~Orphan(i) /\ Orphan(i)' =>
            \/ call = "create" /\ call' # "persist"
            \/ call = "persist" /\ fresh = i /\ phase' \in {"boot", "shutdown"}
            \/ call = "persist" /\ fresh # i
            \/ flushError /\ record = i /\ disk # i /\ phase' = "boot"
            \/ flushError /\ record # i /\ disk = i
            \/ card # disk /\ disk = i /\ disk' # i /\ phase' = "boot"]_vars
  BY <1>1 DEF Gap
<1> QED
  BY <1>2, FreshInvariant, PTL DEF Spec, OrphanOnlyThroughGaps

-----------------------------------------------------------------------------
(* Leaks.                                                                  *)

(* VideoManager answers and the daemon runs until its shutdown.  The disk, *)
(* the SRT_TARGET file, the commands and the publishes may still fail.     *)
VideoManagerAnswers == Faults \cap {"refused", "lost", "crash", "interrupt", "power"} = {}

NotLive == info # NoId => server[info] # "live"

(* The strengthening: main takes its shutdown step by step, and when it    *)
(* leaves it the owned ingress has been archived.                          *)
DrainInv ==
    /\ pc[Main] \in {"shutdown", "halting", "archiving"} => phase = "shutdown"
    /\ phase = "shutdown" =>
        pc[Main] \in {"shutdown", "halting", "archiving", "release", "idle"}
    /\ pc[Main] = "archiving" => call \in {"idle", "delete", "forget", "disown", "ok", "error"}
    /\ pc[Main] = "archiving" /\ call \in {"ok", "error"} => NotLive
    /\ phase \in {"shutdown", "exit"} /\ pc[Main] \in {"release", "idle"} => NotLive

LeakInv == NoLeak /\ DrainInv

(* A step of a transition: main's own, or one that changes nothing here.   *)
LEMMA TransitionDrains ==
    ASSUME Strong, FreshInv, DrainInv, NEW t \in Thread, TransitionStep(t)
    PROVE  DrainInv'
<1> USE DEF DrainInv, NotLive
<1>0. /\ UNCHANGED <<server, info, fresh, record, disk, card, flushError, target, phase>>
      /\ UNCHANGED call \/ Create \/ Delete \/ Recover \/ Return
      /\ pc \in [Thread -> {"idle"} \cup Waiting \cup Inside]
  BY TransitionTouches DEF Strong, ControlTypeOK
<1>1. \A s \in Thread \ {t} : pc[s] \notin Inside /\ pc'[s] = pc[s]
  BY Alone
<1>2. CASE t # Main
  <2>1. pc'[Main] = pc[Main] /\ pc[Main] \notin Inside
    BY <1>1, <1>2 DEF Thread
  <2> QED
    BY <1>0, <2>1 DEF Inside, InShutdown
<1>3. CASE t = Main
  <2>1. CASE pc[Main] = "shutdown"
    <3>1. pc'[Main] \in {"halting", "archiving"} /\ call' = call /\ call = "idle"
      BY <1>0, <1>3, <2>1, Alone
         DEF TransitionStep, AcquireStart, Leftover, Register, StartCommandOk,
             StartCommandRaises, Unregister, AcquireStop, StopCommandOk, StopCommandRaises,
             ArchiveIngress, AcquireRecover, RecoverIngress, AcquireShutdown,
             ShutdownPipeline, ShutdownIngress, AdvertiseOk, AdvertiseRaises, Release,
             Invoke, Returned, Goto, ingressVars, Calling
    <3> QED
      BY <1>0, <2>1, <3>1
  <2>2. CASE pc[Main] = "halting"
    <3>1. pc'[Main] = "archiving" /\ call' = call /\ call = "idle"
      BY <1>0, <1>3, <2>2, Alone
         DEF TransitionStep, AcquireStart, Leftover, Register, StartCommandOk,
             StartCommandRaises, Unregister, AcquireStop, StopCommandOk, StopCommandRaises,
             ArchiveIngress, AcquireRecover, RecoverIngress, AcquireShutdown,
             ShutdownPipeline, ShutdownIngress, AdvertiseOk, AdvertiseRaises, Release,
             Invoke, Returned, Goto, ingressVars, Calling
    <3> QED
      BY <1>0, <2>2, <3>1
  <2>3. CASE pc[Main] = "archiving"
    <3>1. ShutdownIngress(Main)
      BY <1>3, <2>3
         DEF TransitionStep, AcquireStart, Leftover, Register, StartCommandOk,
             StartCommandRaises, Unregister, AcquireStop, StopCommandOk, StopCommandRaises,
             ArchiveIngress, AcquireRecover, RecoverIngress, AcquireShutdown,
             ShutdownPipeline, AdvertiseOk, AdvertiseRaises, Release, Invoke, Returned
    <3>2. CASE Invoke(Main, "archiving", Delete)
      BY <1>0, <2>3, <3>2 DEF Invoke, Delete, controlVars
    <3>3. CASE ~Invoke(Main, "archiving", Delete)
      <4>1. call \in {"ok", "error"} /\ call' = "idle" /\ pc'[Main] = "release"
        BY <1>0, <1>3, <3>1, <3>3 DEF ShutdownIngress, Returned, Return, Finish
      <4> QED
        BY <1>0, <2>3, <4>1
    <3> QED
      BY <3>2, <3>3
  <2>4. CASE pc[Main] \notin {"shutdown", "halting", "archiving"}
    <3>1. pc'[Main] \notin {"shutdown", "halting", "archiving"}
      BY <1>0, <1>3, <2>4
         DEF TransitionStep, AcquireStart, Leftover, Register, StartCommandOk,
             StartCommandRaises, Unregister, AcquireStop, StopCommandOk, StopCommandRaises,
             ArchiveIngress, AcquireRecover, RecoverIngress, AcquireShutdown,
             ShutdownPipeline, ShutdownIngress, AdvertiseOk, AdvertiseRaises, Release,
             Invoke, Returned, Goto, Finish, controlVars
    <3>2. ASSUME phase \in {"shutdown", "exit"} PROVE pc[Main] = "release" /\ pc'[Main] = "idle"
      BY <1>3, <2>4, <3>2, TransitionCalls DEF Strong, ShutdownInv
    <3> QED
      BY <1>0, <3>1, <3>2
  <2> QED
    BY <2>1, <2>2, <2>3, <2>4
<1> QED
  BY <1>2, <1>3

(* A step inside VideoIngress: nothing that is live is let go.             *)
LEMMA ProgressLeaksNothing ==
    ASSUME VideoManagerAnswers, Strong, FreshInv, LeakInv, IngressProgress
    PROVE  LeakInv'
<1>0. IngressTypeOK /\ RecordInv /\ UNCHANGED <<controlVars, worldVars>>
  BY DEF Strong, ControlTypeOK, IngressProgress
<1>1. NoLeak'
  <2> USE <1>0, NoIdAssumption
      DEF LeakInv, NoLeak, IngressTypeOK, RecordInv, FreshInv, MaybeId, VideoManagerAnswers
  <2>1. CASE RegisterOk \/ RegisterRaises
    BY <2>1 DEF RegisterOk, RegisterRaises
  <2>2. CASE Persist \/ WriteTargetRaises
    BY <2>2 DEF Persist, WriteTargetRaises
  <2>3. CASE WriteTargetOk
    BY <2>3 DEF WriteTargetOk
  <2>4. CASE UndoOk \/ UndoRaises
    BY <2>4 DEF UndoOk, UndoRaises, Archive, ArchiveRaises
  <2>5. CASE Unrecord \/ Forget \/ Disown \/ Unorphan
    BY <2>5 DEF Unrecord, Forget, Disown, Unorphan
  <2>6. CASE DeleteOk \/ DeleteRaises
    BY <2>6 DEF DeleteOk, DeleteRaises, Archive, ArchiveRaises
  <2>7. CASE RecoverOk \/ RecoverRaises
    BY <2>7 DEF RecoverOk, RecoverRaises, Archive, ArchiveRaises
  <2> QED
    BY <2>1, <2>2, <2>3, <2>4, <2>5, <2>6, <2>7 DEF IngressProgress, IngressStep
<1>2. DrainInv'
  <2>1. call # "idle"
    BY DEF IngressProgress, IngressStep, RegisterOk, RegisterRaises, Persist,
           WriteTargetOk, WriteTargetRaises, UndoOk, UndoRaises, Unrecord, DeleteOk,
           DeleteRaises, Forget, Disown, RecoverOk, RecoverRaises, Unorphan
  <2>2. ~(phase \in {"shutdown", "exit"} /\ pc[Main] \in {"release", "idle"})
    BY <2>1 DEF Strong, ShutdownInv, Thread, Calling
  <2>3. ASSUME pc[Main] = "archiving"
        PROVE  /\ call' \in {"idle", "delete", "forget", "disown", "ok", "error"}
               /\ call' \in {"ok", "error"} => NotLive'
    <3>1. DeleteOk \/ DeleteRaises \/ Forget \/ Disown
      BY <2>3 DEF LeakInv, DrainInv, IngressProgress, IngressStep, RegisterOk, RegisterRaises,
           Persist, WriteTargetOk, WriteTargetRaises, UndoOk, UndoRaises, Unrecord, RecoverOk,
           RecoverRaises, Unorphan
    <3> QED
      BY <3>1, <1>0 DEF DeleteOk, DeleteRaises, Forget, Disown, Archive, ArchiveRaises,
           VideoManagerAnswers, NotLive
  <2> QED
    BY <1>0, <2>2, <2>3 DEF LeakInv, DrainInv, controlVars, worldVars
<1> QED
  BY <1>1, <1>2 DEF LeakInv

(* The steps of main and of the processes around it.                       *)
LEMMA MainLeaksNothing ==
    ASSUME VideoManagerAnswers, Strong, FreshInv, LeakInv,
           \/ MainStep \/ Terminate \/ Interrupt \/ Restart \/ Crash \/ PowerLoss
           \/ WriteBack /\ UNCHANGED <<controlVars, worldVars>>
           \/ MediaMtxRestarts \/ LateCommand
           \/ \E t \in Worker, transition \in {"start", "stop"} : Request(t, transition)
    PROVE  LeakInv'
<1> USE DEF LeakInv, NoLeak, DrainInv, NotLive
<1>0. ControlTypeOK /\ Main \in Thread /\ Main \notin Worker
  BY ThreadAssumption DEF Strong, Thread
<1>1. CASE MainStep \/ Terminate
  <2>1. ASSUME NEW from, NEW to, NEW transition, MainCalls(from, to, transition)
        PROVE  /\ phase = from /\ pc[Main] = "idle" /\ phase' = to /\ pc'[Main] = transition
               /\ UNCHANGED ingressVars
    BY <1>0, <2>1 DEF MainCalls, Goto, ControlTypeOK
  <2>2. CASE BootRecover \/ InitialStart \/ Serve
    BY <2>1, <2>2 DEF BootRecover, InitialStart, Serve, ingressVars
  <2>3. CASE Terminate
    BY <2>1, <2>3 DEF Terminate, ingressVars
  <2>4. CASE ShutdownDone
    BY <2>1, <2>4 DEF ShutdownDone, ingressVars
  <2> QED
    BY <1>1, <2>2, <2>3, <2>4 DEF MainStep
<1>2. CASE Restart
  <2>1. call = "idle" /\ pc[Main] = "idle"
    BY <1>2, QuietAtExit DEF Restart, Strong, ShutdownInv
  <2>2. /\ UNCHANGED server /\ info' = NoId /\ fresh' = NoId /\ fresh = NoId
        /\ phase' = "boot" /\ pc'[Main] = "idle" /\ phase = "exit"
    BY <1>0, <1>2, <2>1 DEF Restart, NewProcess, IngressLost, FreshInv
  <2> QED
    BY <2>1, <2>2, NoIdAssumption
<1>3. ~Interrupt /\ ~Crash /\ ~PowerLoss
  BY DEF VideoManagerAnswers, Interrupt, Crash, PowerLoss
<1>4. CASE MediaMtxRestarts \/ LateCommand
  BY <1>4 DEF MediaMtxRestarts, LateCommand, controlVars, ingressVars
<1>5. CASE WriteBack /\ UNCHANGED <<controlVars, worldVars>>
  BY <1>5 DEF WriteBack, controlVars, worldVars
<1>6. CASE \E t \in Worker, transition \in {"start", "stop"} : Request(t, transition)
  <2>1. UNCHANGED <<ingressVars, phase>> /\ pc'[Main] = pc[Main]
    BY <1>0, <1>6 DEF Request, ControlTypeOK
  <2> QED
    BY <2>1 DEF ingressVars
<1> QED
  BY <1>1, <1>2, <1>3, <1>4, <1>5, <1>6

(* No ingress leaks while VideoManager answers and the daemon is not       *)
(* killed: at every moment the only live ingress is the one owned or being *)
(* registered, through failing files, commands and publishes, any number   *)
(* of transitions, a shutdown and the next process.                        *)
THEOREM NothingLeaks ==
    ASSUME VideoManagerAnswers
    PROVE  Spec => []NoLeak
<1>1. Init => LeakInv
  BY DEF Init, IngressInit, LeakInv, NoLeak, DrainInv, NotLive, Thread
<1>2. Strong /\ FreshInv /\ LeakInv /\ [Next]_vars => LeakInv'
  <2> SUFFICES ASSUME Strong, FreshInv, LeakInv, [Next]_vars PROVE LeakInv'
    OBVIOUS
  <2>1. ASSUME NEW t \in Thread, TransitionStep(t) PROVE LeakInv'
    BY <2>1, TransitionDrains, TransitionTouches DEF LeakInv, NoLeak
  <2>2. CASE UNCHANGED vars
    BY <2>2 DEF vars, ingressVars, controlVars, worldVars, LeakInv, NoLeak, DrainInv, NotLive
  <2> QED
    BY <2>1, <2>2, ProgressLeaksNothing, MainLeaksNothing DEF Next
<1>3. LeakInv => NoLeak
  BY DEF LeakInv
<1> QED
  BY <1>1, <1>2, <1>3, FreshInvariant, PTL DEF Spec

-----------------------------------------------------------------------------
(* Repairs.                                                                *)

(* An answer of VideoManager is not lost: what it refuses has not happened.*)
(* Without it the theorem would be false.  A Start of a stream that is on  *)
(* whose command fails archives the ingress; when that answer is lost, the *)
(* id is kept, and the next Start takes the archived ingress for its own.  *)
AnswersArrive == "lost" \notin Faults

(* Main was interrupted during the boot: it only shuts down from there on, *)
(* and the workers find the control closed.                                *)
Interrupted ==
    /\ closed
    /\ phase \in {"shutdown", "exit"}
    /\ \A t \in Thread :
        pc[t] \in {"idle", "start", "stop", "shutdown", "halting", "archiving", "release"}

(* The owned ingress is live, except on the last steps of a delete().      *)
OwnLive == info # NoId => server[info] = "live" \/ call \in {"forget", "disown"} \/ Interrupted

(* Where thread t is tells which call can be running, and what the         *)
(* commands of its transition have brought about.                          *)
Spot(t) ==
    /\ pc[t] = "register" =>
        call \in {"idle", "create", "persist", "write", "undo", "unrecord", "ok", "error"}
    /\ pc[t] = "register" /\ call = "ok" => info # NoId
    /\ pc[t] = "command" => call = "idle" /\ info # NoId
    /\ pc[t] \in {"leftover", "unregister", "archive", "archiving"} =>
        call \in {"idle", "delete", "forget", "disown", "ok", "error"}
    /\ pc[t] = "archive" =>
        /\ ~desiredOn /\ producer = NoId /\ late = "none"
        /\ call = "ok" => info = NoId
    /\ pc[t] = "advertise" =>
        /\ call = "idle" /\ late = "none"
        /\ IF desiredOn THEN producer = info /\ info # NoId ELSE producer = NoId /\ info = NoId

SpotInv == \A t \in Thread : Spot(t)

(* The workers are not there before run().                                 *)
WorkersWait == phase \in {"boot", "recover", "start"} => \A w \in Worker : pc[w] = "idle"

HealInv == OwnLive /\ SpotInv /\ WorkersWait

(* A step of a transition keeps HealInv.                                   *)
LEMMA TransitionRepairs ==
    ASSUME Strong, HealInv, NEW t \in Thread, TransitionStep(t)
    PROVE  HealInv'
<1>0. /\ ControlTypeOK /\ OwnedIsRecorded /\ Spot(t)
      /\ UNCHANGED <<server, info, fresh, record, disk, card, flushError, target, phase>>
      /\ UNCHANGED call \/ Create \/ Delete \/ Recover \/ Return
      /\ UNCHANGED closed
  BY TransitionTouches, TransitionCalls DEF Strong, RecordInv, HealInv, SpotInv
<1>1. \A s \in Thread \ {t} : pc[s] \notin Inside /\ pc'[s] = pc[s]
  BY Alone
<1>2. pc[t] \notin Calling => call = "idle"
  BY Alone
<1>3. Spot(t)'
  <2> USE DEF Spot, Calling, Goto, Finish
  <2>1. CASE AcquireStart(t)
    BY <1>0, <1>2, <2>1 DEF AcquireStart, Acquire, ControlTypeOK, ingressVars, worldVars
  <2>2. CASE AcquireStop(t)
    BY <1>0, <1>2, <2>2 DEF AcquireStop, Acquire, ControlTypeOK, ingressVars, worldVars
  <2>3. CASE AcquireShutdown(t)
    BY <1>0, <1>2, <2>3 DEF AcquireShutdown, Acquire, ControlTypeOK, ingressVars, worldVars
  <2>4. CASE AcquireRecover(t)
    BY <1>0, <1>2, <2>4 DEF AcquireRecover, ControlTypeOK, ingressVars, worldVars
  <2>5. CASE Release(t) \/ AdvertiseOk(t) \/ AdvertiseRaises(t)
    BY <1>0, <2>5 DEF Release, AdvertiseOk, AdvertiseRaises, ControlTypeOK
  <2>6. CASE StartCommandOk(t) \/ StartCommandRaises(t)
    BY <1>0, <1>2, <2>6 DEF StartCommandOk, StartCommandRaises, Commanded, OwnedIsRecorded,
        ControlTypeOK, ingressVars
  <2>7. CASE StopCommandOk(t) \/ StopCommandRaises(t)
    BY <1>0, <1>2, <2>7 DEF StopCommandOk, StopCommandRaises, Commanded, ControlTypeOK,
        ingressVars
  <2>8. CASE ShutdownPipeline(t)
    BY <1>0, <1>2, <2>8 DEF ShutdownPipeline, ControlTypeOK, ingressVars
  <2>9. CASE Leftover(t) \/ Unregister(t)
    BY <1>0, <2>9 DEF Leftover, Unregister, Invoke, Returned, Delete, Return, ControlTypeOK,
        controlVars, worldVars
  <2>10. CASE Register(t)
    BY <1>0, <2>10 DEF Register, Invoke, Returned, Create, Return, ControlTypeOK,
        controlVars, worldVars
  <2>11. CASE ArchiveIngress(t)
    BY <1>0, <2>11 DEF ArchiveIngress, Invoke, Returned, Delete, Return, ControlTypeOK,
        controlVars, worldVars
  <2>12. CASE ShutdownIngress(t)
    BY <1>0, <2>12 DEF ShutdownIngress, Invoke, Returned, Delete, Return, ControlTypeOK,
        controlVars, worldVars
  <2>13. CASE RecoverIngress(t)
    BY <1>0, <2>13 DEF RecoverIngress, Invoke, Returned, ControlTypeOK, controlVars, worldVars
  <2> QED
    BY <2>1, <2>2, <2>3, <2>4, <2>5, <2>6, <2>7, <2>8, <2>9, <2>10, <2>11, <2>12, <2>13
       DEF TransitionStep
<1>4. SpotInv'
  <2>1. ASSUME NEW s \in Thread \ {t} PROVE Spot(s)'
    BY <1>1, <2>1 DEF Spot, Inside, InStart, InStop, InShutdown
  <2> QED
    BY <1>3, <2>1 DEF SpotInv
<1>5. OwnLive'
  <2>1. call \in {"forget", "disown"} => call' = call
    BY <1>0 DEF Create, Delete, Recover, Return
  <2>2. ASSUME Interrupted PROVE Interrupted'
    <3>1. pc'[t] \in {"idle", "start", "stop", "shutdown", "halting", "archiving", "release"}
      BY <1>0, <2>2
         DEF Interrupted, ControlTypeOK, TransitionStep, AcquireStart, Leftover, Register,
             StartCommandOk, StartCommandRaises, Unregister, AcquireStop, StopCommandOk,
             StopCommandRaises, ArchiveIngress, AcquireRecover, RecoverIngress, AcquireShutdown,
             ShutdownPipeline, ShutdownIngress, AdvertiseOk, AdvertiseRaises, Release,
             Invoke, Returned, Goto, Finish, controlVars
    <3> QED
      BY <1>0, <1>1, <2>2, <3>1 DEF Interrupted
  <2> QED
    BY <1>0, <2>1, <2>2 DEF HealInv, OwnLive
<1>6. WorkersWait'
  <2>1. ASSUME phase \in {"boot", "recover", "start"} PROVE t \notin Worker
    BY <2>1, TransitionCalls DEF Strong, HealInv, WorkersWait
  <2> QED
    BY <1>0, <1>1, <2>1 DEF HealInv, WorkersWait, Thread
<1> QED
  BY <1>4, <1>5, <1>6 DEF HealInv

(* So does a step inside VideoIngress.                                     *)
LEMMA ProgressRepairs ==
    ASSUME AnswersArrive, Strong, FreshInv, HealInv, IngressProgress
    PROVE  HealInv'
<1>0. /\ IngressTypeOK /\ RecordInv /\ UNCHANGED <<controlVars, worldVars>>
  BY DEF Strong, ControlTypeOK, IngressProgress
<1>1. OwnLive'
  <2>1. Interrupted => Interrupted'
    BY <1>0 DEF Interrupted, controlVars, worldVars
  <2> USE <1>0, <2>1, NoIdAssumption
      DEF HealInv, OwnLive, IngressTypeOK, RecordInv, FreshInv, MaybeId, AnswersArrive
  <2> HIDE DEF Interrupted
  <2>2. CASE RegisterOk \/ RegisterRaises
    BY <2>2 DEF RegisterOk, RegisterRaises
  <2>3. CASE Persist \/ WriteTargetOk \/ WriteTargetRaises
    BY <2>3 DEF Persist, WriteTargetOk, WriteTargetRaises
  <2>4. CASE UndoOk \/ UndoRaises
    BY <2>4 DEF UndoOk, UndoRaises
  <2>5. CASE Unrecord \/ Forget \/ Disown \/ Unorphan
    BY <2>5 DEF Unrecord, Forget, Disown, Unorphan
  <2>6. CASE DeleteOk \/ DeleteRaises
    BY <2>6 DEF DeleteOk, DeleteRaises, ArchiveRaises
  <2>7. CASE RecoverOk \/ RecoverRaises
    BY <2>7 DEF RecoverOk, RecoverRaises
  <2> QED
    BY <2>2, <2>3, <2>4, <2>5, <2>6, <2>7 DEF IngressProgress, IngressStep
<1>2. ASSUME NEW t \in Thread, Spot(t) PROVE Spot(t)'
  <2> USE <1>0, <1>2 DEF Spot, FreshInv, controlVars, worldVars
  <2>1. CASE RegisterOk \/ RegisterRaises
    BY <2>1 DEF RegisterOk, RegisterRaises
  <2>2. CASE Persist \/ WriteTargetOk \/ WriteTargetRaises
    BY <2>2 DEF Persist, WriteTargetOk, WriteTargetRaises
  <2>3. CASE UndoOk \/ UndoRaises
    BY <2>3 DEF UndoOk, UndoRaises
  <2>4. CASE Unrecord \/ Forget \/ Disown \/ Unorphan
    BY <2>4 DEF Unrecord, Forget, Disown, Unorphan
  <2>5. CASE DeleteOk \/ DeleteRaises
    BY <2>5 DEF DeleteOk, DeleteRaises
  <2>6. CASE RecoverOk \/ RecoverRaises
    BY <2>6 DEF RecoverOk, RecoverRaises
  <2> QED
    BY <2>1, <2>2, <2>3, <2>4, <2>5, <2>6 DEF IngressProgress, IngressStep
<1>3. WorkersWait'
  BY <1>0 DEF HealInv, WorkersWait, controlVars, worldVars
<1> QED
  BY <1>1, <1>2, <1>3 DEF HealInv, SpotInv

(* So does a step of main, a request, a signal, MediaMTX, or a death.      *)
LEMMA MainRepairs ==
    ASSUME Strong, HealInv,
           \/ MainStep \/ Terminate \/ Interrupt \/ Restart \/ Crash \/ PowerLoss
           \/ WriteBack /\ UNCHANGED <<controlVars, worldVars>>
           \/ MediaMtxRestarts \/ LateCommand
           \/ \E t \in Worker, transition \in {"start", "stop"} : Request(t, transition)
    PROVE  HealInv'
<1> USE DEF HealInv
<1>0. /\ ControlTypeOK /\ IngressTypeOK /\ OwnedIsRecorded
      /\ \A w \in Worker : w # Main /\ w \in Thread
      /\ Main \in Thread
  BY ThreadAssumption DEF Strong, ControlTypeOK, RecordInv, Thread
<1>1. CASE MainStep \/ Terminate
  <2>1. ASSUME NEW from, NEW to, NEW transition \in {"recover", "start", "idle", "shutdown"},
               MainCalls(from, to, transition)
        PROVE  /\ SpotInv' /\ UNCHANGED ingressVars
               /\ phase = from /\ phase' = to /\ pc'[Main] = transition
               /\ \A w \in Worker : pc'[w] = pc[w]
    BY <1>0, <2>1 DEF MainCalls, Goto, SpotInv, Spot, ControlTypeOK, ingressVars
  <2>2. CASE BootRecover \/ InitialStart \/ Serve
    <3>1. ~Interrupted /\ UNCHANGED ingressVars /\ SpotInv'
      BY <2>1, <2>2 DEF BootRecover, InitialStart, Serve, Interrupted
    <3>2. WorkersWait'
      BY <2>1, <2>2 DEF BootRecover, InitialStart, Serve, WorkersWait
    <3> QED
      BY <3>1, <3>2 DEF OwnLive, ingressVars
  <2>3. CASE Terminate
    <3>1. ~Interrupted /\ UNCHANGED ingressVars /\ SpotInv' /\ WorkersWait'
      BY <2>1, <2>3 DEF Terminate, Interrupted, WorkersWait
    <3> QED
      BY <3>1 DEF OwnLive, ingressVars
  <2>4. CASE ShutdownDone
    <3>1. UNCHANGED <<ingressVars, closed>> /\ SpotInv' /\ WorkersWait'
      BY <2>1, <2>4 DEF ShutdownDone, WorkersWait
    <3>2. Interrupted => Interrupted'
      BY <2>1, <2>4, <3>1 DEF ShutdownDone, Interrupted, Thread
    <3> QED
      BY <3>1, <3>2 DEF OwnLive, ingressVars
  <2> QED
    BY <1>1, <2>2, <2>3, <2>4 DEF MainStep
<1>2. CASE Restart \/ Crash \/ PowerLoss
  <2>1. NewProcess
    BY <1>2 DEF Restart, Crash, PowerLoss
  <2> QED
    BY <1>0, <2>1 DEF NewProcess, IngressLost, OwnLive, SpotInv, Spot, WorkersWait
<1>3. CASE Interrupt
  <2>1. \A w \in Worker : pc'[w] = "idle"
    BY <1>0, <1>3 DEF Interrupt, WorkersWait, ControlTypeOK
  <2>2. pc'[Main] = "shutdown" /\ phase' = "shutdown" /\ closed'
    BY <1>0, <1>3 DEF Interrupt, ControlTypeOK
  <2> QED
    BY <2>1, <2>2 DEF OwnLive, Interrupted, SpotInv, Spot, WorkersWait, Thread
<1>4. CASE MediaMtxRestarts \/ LateCommand
  <2>1. UNCHANGED <<ingressVars, controlVars, phase>>
    BY <1>4 DEF MediaMtxRestarts, LateCommand
  <2>2. ASSUME NEW t \in Thread, Spot(t) PROVE Spot(t)'
    BY <1>0, <1>4, <2>1, <2>2 DEF MediaMtxRestarts, LateCommand, Commanded, OwnedIsRecorded, Spot,
                          controlVars, ingressVars
  <2> QED
    BY <2>1, <2>2 DEF OwnLive, Interrupted, SpotInv, WorkersWait, controlVars, ingressVars
<1>5. CASE WriteBack /\ UNCHANGED <<controlVars, worldVars>>
  BY <1>5 DEF WriteBack, OwnLive, Interrupted, SpotInv, Spot, WorkersWait, controlVars, worldVars
<1>6. CASE \E t \in Worker, transition \in {"start", "stop"} : Request(t, transition)
  <2>1. PICK w \in Worker, transition \in {"start", "stop"} : Request(w, transition)
    BY <1>6
  <2>2. /\ pc'[w] = transition /\ \A s \in Thread \ {w} : pc'[s] = pc[s]
        /\ UNCHANGED <<ingressVars, desiredOn, closed, phase, producer, late>>
        /\ phase \in {"serve", "shutdown", "exit"}
    BY <1>0, <2>1 DEF Request, ControlTypeOK
  <2>3. Interrupted => Interrupted'
    BY <2>2 DEF Interrupted
  <2>4. SpotInv'
    BY <2>2 DEF SpotInv, Spot, ingressVars
  <2> QED
    BY <2>2, <2>3, <2>4 DEF OwnLive, WorkersWait, ingressVars
<1> QED
  BY <1>1, <1>2, <1>3, <1>4, <1>5, <1>6

(* A repeated Start or Stop repairs: whatever became of the commands       *)
(* before it, failed, given up on or late, and of the process, one that    *)
(* gets to its publish has MediaMTX pushing at the owned ingress, which is *)
(* live, or MediaMTX down and nothing owned.                               *)
THEOREM TransitionsRepair ==
    ASSUME AnswersArrive
    PROVE  Spec => []TransitionHeals
<1>1. Init => HealInv
  BY DEF Init, IngressInit, HealInv, OwnLive, SpotInv, Spot, WorkersWait, Thread
<1>2. Strong /\ FreshInv /\ HealInv /\ [Next]_vars => HealInv'
  <2> SUFFICES ASSUME Strong, FreshInv, HealInv, [Next]_vars PROVE HealInv'
    OBVIOUS
  <2>1. CASE UNCHANGED vars
    BY <2>1 DEF vars, ingressVars, controlVars, worldVars, HealInv, OwnLive, Interrupted,
                SpotInv, Spot, WorkersWait
  <2> QED
    BY <2>1, TransitionRepairs, ProgressRepairs, MainRepairs DEF Next
<1>3. Strong /\ HealInv => TransitionHeals
  <2> SUFFICES ASSUME Strong, HealInv, NEW t \in Thread, pc[t] = "advertise"
               PROVE  IF desiredOn THEN producer = info /\ info # NoId /\ server[info] = "live"
                                   ELSE producer = NoId /\ info = NoId
    BY DEF TransitionHeals
  <2>1. ~Interrupted
    BY DEF Interrupted
  <2> QED
    BY <2>1 DEF HealInv, OwnLive, SpotInv, Spot
<1> QED
  BY <1>1, <1>2, <1>3, FreshInvariant, PTL DEF Spec
=============================================================================
