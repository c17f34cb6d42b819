------------------------- MODULE CameraControlProofs -------------------------
(***************************************************************************)
(* Theorems about CameraControl, for every set of ingress ids, every set   *)
(* of worker threads, every set of faults and any number of requests.      *)
(***************************************************************************)
EXTENDS CameraControl, TLAPS

-----------------------------------------------------------------------------
(* Types.                                                                  *)

(* Every step inside VideoIngress keeps its types.                         *)
LEMMA IngressStepTyped ==
    ASSUME IngressTypeOK, IngressStep
    PROVE  IngressTypeOK'
<1> USE DEF IngressTypeOK, MaybeId, CallSteps
<1>1. CASE RegisterOk \/ RegisterRaises
  BY <1>1 DEF RegisterOk, RegisterRaises
<1>2. CASE Persist
  BY <1>2 DEF Persist, Store
<1>3. CASE WriteTargetOk \/ WriteTargetRaises
  BY <1>3 DEF WriteTargetOk, WriteTargetRaises
<1>4. CASE UndoOk \/ UndoRaises
  BY <1>4 DEF UndoOk, UndoRaises, Archive, ArchiveRaises
<1>5. CASE Unrecord \/ Forget \/ Disown \/ Unorphan
  BY <1>5 DEF Unrecord, Forget, Disown, Unorphan, ClearRecord, Store
<1>6. CASE DeleteOk \/ DeleteRaises
  BY <1>6 DEF DeleteOk, DeleteRaises, Archive, ArchiveRaises
<1>7. CASE RecoverOk \/ RecoverRaises
  BY <1>7 DEF RecoverOk, RecoverRaises, Archive, ArchiveRaises
<1> QED
  BY <1>1, <1>2, <1>3, <1>4, <1>5, <1>6, <1>7 DEF IngressStep

(* So does calling it, taking its result, and writing its record back.     *)
LEMMA IngressCallTyped ==
    ASSUME IngressTypeOK, Create \/ Delete \/ Recover \/ Return \/ WriteBack
    PROVE  IngressTypeOK'
BY DEF IngressTypeOK, MaybeId, CallSteps, Create, Delete, Recover, Return, WriteBack

(* So do the ends a call can come to with its process.                     *)
LEMMA IngressEndTyped ==
    ASSUME IngressTypeOK,
           \/ IngressLost /\ UNCHANGED <<disk, card>>
           \/ IngressLost /\ disk' \in AfterPowerLoss /\ card' = disk'
           \/ IngressInterrupted
    PROVE  IngressTypeOK'
<1> USE DEF IngressTypeOK, MaybeId, CallSteps
<1>1. CASE IngressLost /\ UNCHANGED <<disk, card>>
  BY <1>1 DEF IngressLost
<1>2. CASE IngressLost /\ disk' \in AfterPowerLoss /\ card' = disk'
  BY <1>2 DEF IngressLost, AfterPowerLoss
<1>3. CASE IngressInterrupted
  BY <1>3 DEF IngressInterrupted, Archive
<1> QED
  BY <1>1, <1>2, <1>3

(* A step of a transition keeps the types.                                 *)
LEMMA TransitionTyped ==
    ASSUME ControlTypeOK, NEW t \in Thread, TransitionStep(t)
    PROVE  ControlTypeOK'
<1> USE DEF ControlTypeOK, Waiting, Inside, InStart, InStop, InShutdown
<1>0. UNCHANGED ingressVars => IngressTypeOK'
  BY DEF IngressTypeOK, ingressVars
<1>1. CASE AcquireStart(t) \/ AcquireStop(t) \/ AcquireShutdown(t) \/ AcquireRecover(t)
  BY <1>0, <1>1 DEF AcquireStart, AcquireStop, AcquireShutdown, AcquireRecover,
                    Acquire, Goto, Finish, worldVars
<1>2. CASE Release(t)
  BY <1>0, <1>2 DEF Release, Goto, worldVars
<1>3. CASE StartCommandOk(t) \/ StartCommandRaises(t)
  BY <1>0, <1>3 DEF StartCommandOk, StartCommandRaises, Commanded, CommandFails, Goto,
                    IngressTypeOK, MaybeId
<1>4. CASE StopCommandOk(t) \/ StopCommandRaises(t) \/ ShutdownPipeline(t)
  BY <1>0, <1>4 DEF StopCommandOk, StopCommandRaises, ShutdownPipeline, Commanded,
                    CommandFails, Goto, Finish, MaybeId
<1>5. CASE AdvertiseOk(t) \/ AdvertiseRaises(t)
  BY <1>0, <1>5 DEF AdvertiseOk, AdvertiseRaises, Finish, worldVars
<1>6. CASE Leftover(t) \/ Register(t) \/ Unregister(t)
  BY <1>6, IngressCallTyped
     DEF Leftover, Register, Unregister, Invoke, Returned, Goto, Finish,
         controlVars, worldVars
<1>7. CASE ArchiveIngress(t) \/ RecoverIngress(t) \/ ShutdownIngress(t)
  BY <1>7, IngressCallTyped
     DEF ArchiveIngress, RecoverIngress, ShutdownIngress, Invoke, Returned, Goto, Finish,
         controlVars, worldVars
<1> QED
  BY <1>1, <1>2, <1>3, <1>4, <1>5, <1>6, <1>7 DEF TransitionStep

(* So does a step of main(), of the process, of MediaMTX, or a request.    *)
LEMMA MainTyped ==
    ASSUME ControlTypeOK,
           \/ MainStep \/ Terminate \/ Interrupt \/ Restart \/ Crash \/ PowerLoss
           \/ WriteBack /\ UNCHANGED <<controlVars, worldVars>>
           \/ MediaMtxRestarts \/ LateCommand
           \/ \E t \in Worker, transition \in {"start", "stop"} : Request(t, transition)
    PROVE  ControlTypeOK'
<1> USE DEF ControlTypeOK, Waiting, Thread
<1>0. UNCHANGED ingressVars => IngressTypeOK'
  BY DEF IngressTypeOK, ingressVars
<1>1. CASE MainStep \/ Terminate
  BY <1>0, <1>1 DEF MainStep, BootRecover, InitialStart, Serve, ShutdownDone, Terminate,
                    MainCalls, Goto, Phases
<1>2. CASE Restart \/ Crash \/ PowerLoss
  BY <1>2, IngressEndTyped
     DEF Restart, Crash, PowerLoss, NewProcess, Commanded, CommandLetGo, Phases, MaybeId
<1>3. CASE Interrupt
  BY <1>3, IngressEndTyped DEF Interrupt, CommandLetGo, Phases, MaybeId
<1>4. CASE MediaMtxRestarts \/ LateCommand
  BY <1>0, <1>4 DEF MediaMtxRestarts, LateCommand, Commanded, controlVars, IngressTypeOK, MaybeId
<1>5. CASE WriteBack /\ UNCHANGED <<controlVars, worldVars>>
  BY <1>5, IngressCallTyped DEF controlVars, worldVars
<1>6. CASE \E t \in Worker, transition \in {"start", "stop"} : Request(t, transition)
  BY <1>0, <1>6 DEF Request
<1> QED
  BY <1>1, <1>2, <1>3, <1>4, <1>5, <1>6

(* Every state of CameraControl and of VideoIngress is well typed.         *)
THEOREM TypeCorrect == Spec => []ControlTypeOK
<1>1. Init => ControlTypeOK
  <2> SUFFICES ASSUME Init PROVE ControlTypeOK
    OBVIOUS
  <2>1. IngressTypeOK
    BY DEF Init, IngressInit, IngressTypeOK, MaybeId, CallSteps
  <2>2. holder \in Thread \cup {NoThread} /\ phase \in Phases /\ producer \in MaybeId
    BY DEF Init, Phases, MaybeId
  <2>3. /\ pc \in [Thread -> {"idle"} \cup Waiting \cup Inside]
        /\ result \in [Thread -> {"none", "ok", "error"}]
    BY DEF Init
  <2>4. requests \in Nat
    BY DEF Init
  <2> QED
    BY <2>1, <2>2, <2>3, <2>4 DEF Init, ControlTypeOK
<1>2. ControlTypeOK /\ [Next]_vars => ControlTypeOK'
  <2> SUFFICES ASSUME ControlTypeOK, [Next]_vars PROVE ControlTypeOK'
    OBVIOUS
  <2>1. CASE \E t \in Thread : TransitionStep(t)
    BY <2>1, TransitionTyped
  <2>2. CASE IngressProgress
    BY <2>2, IngressStepTyped DEF IngressProgress, ControlTypeOK, controlVars, worldVars
  <2>3. CASE UNCHANGED vars
    BY <2>3 DEF vars, ingressVars, controlVars, worldVars, ControlTypeOK, IngressTypeOK
  <2> QED
    BY <2>1, <2>2, <2>3, MainTyped DEF Next
<1> QED
  BY <1>1, <1>2, PTL DEF Spec

-----------------------------------------------------------------------------
(* Mutual exclusion.                                                       *)

(* A thread inside the lock is its holder: the inductive form.             *)
InsideHolds == \A t \in Thread : pc[t] \in Inside => holder = t

(* A step of a transition moves its own thread only: into the free lock,   *)
(* from one call to the next inside it, or out of it.                      *)
LEMMA TransitionMoves ==
    ASSUME ControlTypeOK, NEW t \in Thread, TransitionStep(t)
    PROVE  /\ \A s \in Thread \ {t} : pc'[s] = pc[s]
           /\ \/ holder = NoThread /\ holder' = t
              \/ pc[t] \in Inside /\ holder' = holder
              \/ pc[t] = "release" /\ pc'[t] = "idle" /\ holder' = NoThread
<1> USE DEF ControlTypeOK, Inside, InStart, InStop, InShutdown
<1>1. CASE AcquireStart(t) \/ AcquireStop(t) \/ AcquireShutdown(t) \/ AcquireRecover(t)
  BY <1>1 DEF AcquireStart, AcquireStop, AcquireShutdown, AcquireRecover,
              Acquire, Goto, Finish
<1>2. CASE Release(t)
  BY <1>2 DEF Release, Goto
<1>3. CASE StartCommandOk(t) \/ StartCommandRaises(t)
  BY <1>3 DEF StartCommandOk, StartCommandRaises, Goto
<1>4. CASE StopCommandOk(t) \/ StopCommandRaises(t) \/ ShutdownPipeline(t)
  BY <1>4 DEF StopCommandOk, StopCommandRaises, ShutdownPipeline, Goto, Finish
<1>5. CASE AdvertiseOk(t) \/ AdvertiseRaises(t)
  BY <1>5 DEF AdvertiseOk, AdvertiseRaises, Finish
<1>6. CASE Leftover(t) \/ Register(t) \/ Unregister(t)
  BY <1>6 DEF Leftover, Register, Unregister, Invoke, Returned, Goto, Finish, controlVars
<1>7. CASE ArchiveIngress(t) \/ RecoverIngress(t) \/ ShutdownIngress(t)
  BY <1>7 DEF ArchiveIngress, RecoverIngress, ShutdownIngress, Invoke, Returned,
              Goto, Finish, controlVars
<1> QED
  BY <1>1, <1>2, <1>3, <1>4, <1>5, <1>6, <1>7 DEF TransitionStep

(* Every step keeps it: entering the lock needs it free, leaving frees it. *)
LEMMA InsideHoldsKept ==
    ASSUME ControlTypeOK, InsideHolds, [Next]_vars
    PROVE  InsideHolds'
<1> USE DEF InsideHolds
<1>1. ASSUME NEW t \in Thread, TransitionStep(t) PROVE InsideHolds'
  <2>1. NoThread \notin Thread /\ "idle" \notin Inside
    BY ThreadAssumption DEF Thread, Inside, InStart, InStop, InShutdown
  <2>2. "release" \in Inside
    BY DEF Inside
  <2> QED
    BY <1>1, <2>1, <2>2, TransitionMoves
<1>2. CASE IngressProgress
  BY <1>2 DEF IngressProgress, controlVars
<1>3. CASE MainStep \/ Terminate
  BY <1>3 DEF ControlTypeOK, Thread, MainStep, BootRecover, InitialStart, Serve, ShutdownDone,
              Terminate, MainCalls, Goto, Inside, InStart, InStop, InShutdown
<1>4. CASE \E t \in Worker, transition \in {"start", "stop"} : Request(t, transition)
  BY <1>4 DEF ControlTypeOK, Request, Inside, InStart, InStop, InShutdown
<1>5. CASE Restart \/ Crash \/ PowerLoss
  BY <1>5 DEF Restart, Crash, PowerLoss, NewProcess, Inside, InStart, InStop, InShutdown
<1>6. CASE \/ MediaMtxRestarts \/ LateCommand
           \/ WriteBack /\ UNCHANGED <<controlVars, worldVars>>
  BY <1>6 DEF MediaMtxRestarts, LateCommand, controlVars
<1>7. CASE Interrupt
  <2>1. \A s \in Thread \ {Main} : pc'[s] = pc[s]
    BY <1>7 DEF Interrupt, ControlTypeOK
  <2>2. pc'[Main] \notin Inside /\ Main \in Thread
    BY <1>7 DEF Interrupt, ControlTypeOK, Thread, Inside, InStart, InStop, InShutdown
  <2> QED
    BY <1>7, <2>1, <2>2 DEF Interrupt
<1>8. CASE UNCHANGED vars
  BY <1>8 DEF vars, controlVars
<1> QED
  BY <1>1, <1>2, <1>3, <1>4, <1>5, <1>6, <1>7, <1>8 DEF Next

(* Transitions never overlap, however many workers there are and whatever  *)
(* fails: every path out of a transition releases the lock it took, and    *)
(* none of the others does.                                                *)
THEOREM MutualExclusion == Spec => []Serialised
<1>1. Init => InsideHolds
  BY DEF Init, InsideHolds, Inside, InStart, InStop, InShutdown
<1>2. ControlTypeOK /\ InsideHolds /\ [Next]_vars => InsideHolds'
  BY InsideHoldsKept
<1>3. InsideHolds => Serialised
  BY DEF InsideHolds, Serialised
<1> QED
  BY <1>1, <1>2, <1>3, TypeCorrect, PTL DEF Spec

-----------------------------------------------------------------------------
(* What the process owns is written down.                                  *)

(* The strengthening: the file equals the memory unless its last write     *)
(* failed; a call that registers, undoes or recovers an ingress runs only  *)
(* while none is owned, and one that deletes it forgets it archived; and   *)
(* from _persist to the ownership the record names `fresh`.                *)
RecordInv ==
    /\ OwnedIsRecorded
    /\ disk = record \/ flushError
    /\ call \in {"create", "persist", "write", "undo", "unrecord", "recover", "unorphan"}
        => info = NoId
    /\ call \in {"delete", "forget", "disown"} => info # NoId
    /\ call \in {"forget", "disown"} => server[info] = "archived"
    /\ call = "write" => record = fresh

(* Every step keeps it; only calls into VideoIngress can disturb it.       *)
LEMMA RecordInvKept ==
    ASSUME ControlTypeOK, RecordInv, [Next]_vars
    PROVE  RecordInv'
<1> USE NoIdAssumption
    DEF ControlTypeOK, IngressTypeOK, MaybeId, RecordInv, OwnedIsRecorded
<1>0. ASSUME UNCHANGED ingressVars PROVE RecordInv'
  BY <1>0 DEF ingressVars
<1>1. ASSUME Create \/ Delete \/ Recover \/ Return \/ WriteBack PROVE RecordInv'
  BY <1>1 DEF Create, Delete, Recover, Return, WriteBack
<1>2. CASE IngressProgress
  <2>1. CASE RegisterOk \/ RegisterRaises
    BY <2>1 DEF RegisterOk, RegisterRaises
  <2>2. CASE Persist
    BY <2>2 DEF Persist, Store
  <2>3. CASE WriteTargetOk \/ WriteTargetRaises
    BY <2>3 DEF WriteTargetOk, WriteTargetRaises
  <2>4. CASE UndoOk \/ UndoRaises
    BY <2>4 DEF UndoOk, UndoRaises
  <2>5. CASE Unrecord \/ Forget \/ Disown \/ Unorphan
    BY <2>5 DEF Unrecord, Forget, Disown, Unorphan, ClearRecord, Store
  <2>6. CASE DeleteOk \/ DeleteRaises
    BY <2>6 DEF DeleteOk, DeleteRaises, Archive, ArchiveRaises
  <2>7. CASE RecoverOk \/ RecoverRaises
    BY <2>7 DEF RecoverOk, RecoverRaises
  <2> QED
    BY <1>2, <2>1, <2>2, <2>3, <2>4, <2>5, <2>6, <2>7 DEF IngressProgress, IngressStep
<1>3. ASSUME NEW t \in Thread, TransitionStep(t) PROVE RecordInv'
  <2>1. \/ UNCHANGED ingressVars
        \/ Create \/ Delete \/ Recover \/ Return
    BY <1>3 DEF TransitionStep, AcquireStart, Leftover, Register, StartCommandOk,
                StartCommandRaises, Unregister, AcquireStop, StopCommandOk, StopCommandRaises,
                ArchiveIngress, AcquireRecover, RecoverIngress, AcquireShutdown,
                ShutdownPipeline, ShutdownIngress, AdvertiseOk, AdvertiseRaises, Release,
                Invoke, Returned
  <2> QED
    BY <1>0, <1>1, <2>1
<1>4. CASE Restart \/ Crash \/ PowerLoss
  BY <1>4 DEF Restart, Crash, PowerLoss, NewProcess, IngressLost
<1>5. CASE Interrupt
  BY <1>5 DEF Interrupt, IngressInterrupted, Archive
<1>6. CASE \/ MainStep \/ Terminate \/ MediaMtxRestarts \/ LateCommand
           \/ \E t \in Worker, transition \in {"start", "stop"} : Request(t, transition)
  BY <1>0, <1>6 DEF MainStep, BootRecover, InitialStart, Serve, ShutdownDone, Terminate,
                    MainCalls, MediaMtxRestarts, LateCommand, Request
<1>7. CASE UNCHANGED vars
  BY <1>0, <1>7 DEF vars
<1> QED
  BY <1>1, <1>2, <1>3, <1>4, <1>5, <1>6, <1>7 DEF Next

(* The ingress a process owns is named by its record and by the SRT_TARGET *)
(* file at every moment, through failures of every kind, and the record is *)
(* on disk unless its last write failed: a crash finds it there, and       *)
(* MediaMTX restarting by itself pushes at it.                             *)
THEOREM OwnedRecorded == Spec => []OwnedIsRecorded
<1>1. Init => RecordInv
  BY DEF Init, IngressInit, RecordInv, OwnedIsRecorded
<1>2. ControlTypeOK /\ RecordInv /\ [Next]_vars => RecordInv'
  BY RecordInvKept
<1>3. RecordInv => OwnedIsRecorded
  BY DEF RecordInv
<1> QED
  BY <1>1, <1>2, <1>3, TypeCorrect, PTL DEF Spec

-----------------------------------------------------------------------------
(* After the shutdown.                                                     *)

(* Where a thread is while a call into VideoIngress can be running.        *)
Calling == {"leftover", "register", "unregister", "archive", "recovering", "archiving"}

(* The strengthening: the control is closed from Terminate on; a call runs *)
(* only on behalf of a thread; the workers never run main's transitions;   *)
(* and once main has had the lock for its shutdown they are outside it, or *)
(* about to leave it because they found the control closed.                *)
ShutdownInv ==
    /\ phase \in {"shutdown", "exit"} => closed
    /\ phase = "exit" => pc[Main] = "idle"
    /\ call # "idle" => \E t \in Thread : pc[t] \in Calling
    /\ \A w \in Worker : pc[w] \notin {"recover", "shutdown"}
    /\ phase \in {"shutdown", "exit"} /\ pc[Main] # "shutdown" =>
        \A w \in Worker : pc[w] \in {"idle", "start", "stop", "release"}

(* A thread that starts a transition of its own, or leaves one, makes no   *)
(* call; a thread that makes calls goes on only with their result.         *)
LEMMA TransitionCalls ==
    ASSUME ControlTypeOK, NEW t \in Thread, TransitionStep(t)
    PROVE  /\ \/ call' = "idle" \/ pc'[t] \in Calling
              \/ call' = call /\ pc[t] \notin Calling
           /\ pc'[t] \notin {"recover", "shutdown"}
           /\ UNCHANGED <<closed, phase>>
           /\ pc[t] # "idle"
           /\ closed /\ pc[t] \in {"start", "stop"} => pc'[t] = "release"
           /\ pc[t] = "release" => pc'[t] = "idle"
<1> USE DEF ControlTypeOK, Calling
<1>1. CASE AcquireStart(t) \/ AcquireStop(t) \/ AcquireShutdown(t) \/ AcquireRecover(t)
  BY <1>1 DEF AcquireStart, AcquireStop, AcquireShutdown, AcquireRecover,
              Acquire, Goto, Finish, ingressVars, worldVars
<1>2. CASE Release(t)
  BY <1>2 DEF Release, Goto, ingressVars, worldVars
<1>3. CASE StartCommandOk(t) \/ StartCommandRaises(t)
  BY <1>3 DEF StartCommandOk, StartCommandRaises, Goto, ingressVars
<1>4. CASE StopCommandOk(t) \/ StopCommandRaises(t) \/ ShutdownPipeline(t)
  BY <1>4 DEF StopCommandOk, StopCommandRaises, ShutdownPipeline, Goto, Finish, ingressVars
<1>5. CASE AdvertiseOk(t) \/ AdvertiseRaises(t)
  BY <1>5 DEF AdvertiseOk, AdvertiseRaises, Finish, ingressVars, worldVars
<1>6. CASE Leftover(t) \/ Register(t) \/ Unregister(t)
  BY <1>6 DEF Leftover, Register, Unregister, Invoke, Returned, Return, Goto, Finish,
              controlVars, worldVars
<1>7. CASE ArchiveIngress(t) \/ RecoverIngress(t) \/ ShutdownIngress(t)
  BY <1>7 DEF ArchiveIngress, RecoverIngress, ShutdownIngress, Invoke, Returned, Return,
              Goto, Finish, controlVars, worldVars
<1> QED
  BY <1>1, <1>2, <1>3, <1>4, <1>5, <1>6, <1>7 DEF TransitionStep

(* Every step keeps it; the hard one is main taking the lock.              *)
LEMMA ShutdownInvKept ==
    ASSUME ControlTypeOK, InsideHolds, ShutdownInv, [Next]_vars
    PROVE  ShutdownInv'
<1> USE ThreadAssumption DEF ShutdownInv, Thread
<1>1. ASSUME NEW t \in Thread, TransitionStep(t) PROVE ShutdownInv'
  <2>1. \A s \in Thread \ {t} : pc'[s] = pc[s]
    BY <1>1, TransitionMoves
  <2>2. call' # "idle" => \E s \in Thread : pc'[s] \in Calling
    BY <1>1, <2>1, TransitionCalls
  <2>3. \A w \in Worker : pc'[w] \notin {"recover", "shutdown"}
    BY <1>1, <2>1, TransitionCalls
  <2>4. phase' = "exit" => pc'[Main] = "idle"
    BY <1>1, <2>1, TransitionCalls
  <2>5. ASSUME phase \in {"shutdown", "exit"}, pc'[Main] # "shutdown"
        PROVE  \A w \in Worker : pc'[w] \in {"idle", "start", "stop", "release"}
    <3>1. CASE t # Main
      BY <1>1, <2>1, <2>5, <3>1, TransitionCalls
    <3>2. CASE t = Main /\ pc[Main] # "shutdown"
      BY <2>1, <2>5, <3>2
    <3>3. CASE t = Main /\ pc[Main] = "shutdown"
      <4>1. holder = NoThread
        BY <1>1, <3>3, TransitionMoves DEF Inside, InStart, InStop, InShutdown
      <4>2. \A w \in Worker : pc[w] \in {"idle"} \cup Waiting
        BY <4>1 DEF InsideHolds, ControlTypeOK
      <4> QED
        BY <2>1, <3>3, <4>2 DEF Waiting
    <3> QED
      BY <3>1, <3>2, <3>3
  <2> QED
    BY <1>1, <2>2, <2>3, <2>4, <2>5, TransitionCalls
<1>2. CASE IngressProgress
  BY <1>2 DEF IngressProgress, controlVars, worldVars, IngressStep, RegisterOk, RegisterRaises,
              Persist, WriteTargetOk, WriteTargetRaises, UndoOk, UndoRaises, Unrecord, DeleteOk,
              DeleteRaises, Forget, Disown, RecoverOk, RecoverRaises, Unorphan
<1>3. CASE MainStep \/ Terminate
  <2>1. ASSUME NEW from, NEW to, NEW transition, MainCalls(from, to, transition)
        PROVE  /\ phase = from /\ pc[Main] = "idle" /\ phase' = to /\ UNCHANGED call
               /\ pc'[Main] = transition
               /\ \A s \in Thread \ {Main} : pc'[s] = pc[s]
    BY <2>1 DEF MainCalls, Goto, ingressVars, ControlTypeOK
  <2>2. pc[Main] = "idle" /\ UNCHANGED call
    BY <1>3, <2>1 DEF MainStep, BootRecover, InitialStart, Serve, ShutdownDone, Terminate
  <2>3. \A s \in Thread \ {Main} : pc'[s] = pc[s]
    BY <1>3, <2>1 DEF MainStep, BootRecover, InitialStart, Serve, ShutdownDone, Terminate
  <2>4. CASE BootRecover \/ InitialStart \/ Serve
    BY <2>1, <2>2, <2>3, <2>4 DEF BootRecover, InitialStart, Serve, Calling
  <2>5. CASE Terminate
    BY <2>1, <2>2, <2>3, <2>5 DEF Terminate, Calling
  <2>6. CASE ShutdownDone
    BY <2>1, <2>2, <2>3, <2>6 DEF ShutdownDone, Calling
  <2> QED
    BY <1>3, <2>4, <2>5, <2>6 DEF MainStep
<1>4. CASE \E t \in Worker, transition \in {"start", "stop"} : Request(t, transition)
  BY <1>4 DEF ControlTypeOK, Request, ingressVars, Calling
<1>5. CASE Restart \/ Crash \/ PowerLoss
  BY <1>5 DEF Restart, Crash, PowerLoss, NewProcess, IngressLost
<1>6. CASE \/ MediaMtxRestarts \/ LateCommand
           \/ WriteBack /\ UNCHANGED <<controlVars, worldVars>>
  BY <1>6 DEF MediaMtxRestarts, LateCommand, WriteBack, controlVars, worldVars, ingressVars
<1>7. CASE Interrupt
  <2>1. \A w \in Worker : pc'[w] = pc[w]
    BY <1>7 DEF Interrupt, ControlTypeOK
  <2> QED
    BY <1>7, <2>1 DEF Interrupt, IngressInterrupted, ControlTypeOK
<1>8. CASE UNCHANGED vars
  BY <1>8 DEF vars, controlVars, ingressVars, worldVars
<1> QED
  BY <1>1, <1>2, <1>3, <1>4, <1>5, <1>6, <1>7, <1>8 DEF Next

(* The strengthening and what it needs hold in every reachable state.      *)
LEMMA ShutdownInvariant == Spec => [](ControlTypeOK /\ InsideHolds /\ ShutdownInv)
<1>1. Init => InsideHolds /\ ShutdownInv
  BY ThreadAssumption
     DEF Init, IngressInit, Thread, InsideHolds, ShutdownInv, Inside, InStart, InStop, InShutdown
<1>2. ControlTypeOK /\ InsideHolds /\ ShutdownInv /\ [Next]_vars => InsideHolds' /\ ShutdownInv'
  BY InsideHoldsKept, ShutdownInvKept
<1> QED
  BY <1>1, <1>2, TypeCorrect, PTL DEF Spec

(* Nothing comes back to life after the shutdown: whatever was queued for  *)
(* the lock, in whatever order it gets it, and whatever fails.             *)
THEOREM NothingRevives == Spec => NoRevival
<1> DEFINE Quiet == UNCHANGED <<desiredOn, server, info, record, disk, target>>
<1>1. ASSUME ControlTypeOK, ShutdownInv, [Next]_vars, phase = "exit", phase' = "exit"
      PROVE  Quiet
  <2>1. closed /\ pc[Main] = "idle"
    BY <1>1 DEF ShutdownInv
  <2>2. \A t \in Thread : pc[t] \in {"idle", "start", "stop", "release"}
    BY <1>1, <2>1 DEF ShutdownInv, Thread
  <2>3. call = "idle"
    BY <1>1, <2>2 DEF ShutdownInv, Calling
  <2>4. ASSUME NEW t \in Thread, TransitionStep(t) PROVE Quiet
    <3>1. AcquireStart(t) \/ AcquireStop(t) \/ Release(t)
      BY <2>2, <2>4 DEF TransitionStep, AcquireStart, Leftover, Register, StartCommandOk,
                  StartCommandRaises, Unregister, AcquireStop, StopCommandOk,
                  StopCommandRaises, ArchiveIngress, AcquireRecover, RecoverIngress,
                  AcquireShutdown, ShutdownPipeline, ShutdownIngress, AdvertiseOk,
                  AdvertiseRaises, Release, Invoke, Returned
    <3> QED
      BY <3>1 DEF AcquireStart, AcquireStop, Release, ingressVars
  <2>5. ~IngressProgress
    BY <2>3 DEF IngressProgress, IngressStep, RegisterOk, RegisterRaises, Persist,
                WriteTargetOk, WriteTargetRaises, UndoOk, UndoRaises, Unrecord, DeleteOk,
                DeleteRaises, Forget, Disown, RecoverOk, RecoverRaises, Unorphan
  <2>6. ~MainStep /\ ~Terminate /\ ~Interrupt /\ ~Restart /\ ~Crash /\ ~PowerLoss
    BY <1>1 DEF MainStep, BootRecover, InitialStart, Serve, ShutdownDone, Terminate,
                MainCalls, Interrupt, Restart, Crash, PowerLoss, NewProcess
  <2>7. ASSUME \/ MediaMtxRestarts \/ LateCommand
               \/ WriteBack /\ UNCHANGED <<controlVars, worldVars>>
               \/ \E t \in Worker, transition \in {"start", "stop"} : Request(t, transition)
               \/ UNCHANGED vars
        PROVE  Quiet
    BY <2>7 DEF MediaMtxRestarts, LateCommand, WriteBack, Request, vars, ingressVars, controlVars
  <2> QED
    BY <1>1, <2>4, <2>5, <2>6, <2>7 DEF Next
<1>2. ControlTypeOK /\ ShutdownInv /\ [Next]_vars
      => [phase = "exit" /\ phase' = "exit" => Quiet]_vars
  BY <1>1
<1> QED
  BY <1>2, ShutdownInvariant, PTL DEF Spec, NoRevival
=============================================================================
