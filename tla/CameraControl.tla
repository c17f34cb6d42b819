---------------------------- MODULE CameraControl ----------------------------
(***************************************************************************)
(* camera/control.py over camera/ingress.py: the transitions start, stop,  *)
(* recover and shutdown, run by the main thread (main.py) and by the task  *)
(* worker threads, each holding the transition lock.  MediaMTX, driven by  *)
(* the shell commands of camera/pipeline.py, is external: `producer` is    *)
(* the ingress it pushes at.                                               *)
(*                                                                         *)
(* A step of this module is one remote call, command or local write of     *)
(* control.py; the steps inside VideoIngress are those of that module.     *)
(* The code's start() up to the first of them is one step, AcquireStart:   *)
(* the state it reads changes only under the transition lock, except       *)
(* `closed`, and a shutdown that closes the control right after the check  *)
(* still waits for the lock.                                               *)
(***************************************************************************)
EXTENDS VideoIngress, Naturals

CONSTANTS
    Worker,       \* task worker threads of the TaskHandler
    Main,         \* the main thread
    NoThread,     \* the transition lock is free
    MaxRequests   \* Start/Stop tasks in a behaviour (a bound)

ASSUME ThreadAssumption == Main \notin Worker /\ NoThread \notin Worker \cup {Main}
ASSUME MaxRequestsAssumption == MaxRequests \in Nat

Thread == Worker \cup {Main}

VARIABLES
    desiredOn,     \* CameraControl._desired_on
    inTransition,  \* CameraControl._in_transition
    closed,        \* CameraControl._closed
    holder,        \* the thread inside `with self._transition_lock`
    pc,            \* what each thread is doing
    result,        \* how each thread's last transition ended
    phase,         \* how far main() has got
    producer,      \* the ingress MediaMTX pushes at, NoId when it is stopped
    late,          \* the command systemd has yet to carry out, though given up on
    requests       \* Start/Stop tasks so far

controlVars == <<desiredOn, inTransition, closed, holder, pc, result>>
worldVars == <<phase, producer, late, requests>>
vars == <<ingressVars, controlVars, worldVars>>

(* Waiting for the transition lock, to run the transition of that name.    *)
Waiting == {"start", "stop", "recover", "shutdown"}

(* Inside the lock, at the call that is running.                           *)
InStart == {"leftover", "register", "command", "unregister"}
InStop == {"halt", "archive"}
InShutdown == {"halting", "archiving"}
Inside == InStart \cup InStop \cup InShutdown \cup {"advertise", "recovering", "release"}

Phases == {"boot", "recover", "start", "serve", "shutdown", "exit"}

ControlTypeOK ==
    /\ IngressTypeOK
    /\ desiredOn \in BOOLEAN
    /\ inTransition \in BOOLEAN
    /\ closed \in BOOLEAN
    /\ holder \in Thread \cup {NoThread}
    /\ pc \in [Thread -> {"idle"} \cup Waiting \cup Inside]
    /\ result \in [Thread -> {"none", "ok", "error"}]
    /\ phase \in Phases
    /\ producer \in MaybeId
    /\ late \in {"none", "start", "stop"}
    /\ requests \in Nat

Init ==
    /\ IngressInit
    /\ desiredOn = FALSE
    /\ inTransition = FALSE
    /\ closed = FALSE
    /\ holder = NoThread
    /\ pc = [t \in Thread |-> "idle"]
    /\ result = [t \in Thread |-> "none"]
    /\ phase = "boot"
    /\ producer = NoId
    /\ late = "none"
    /\ requests = 0

-----------------------------------------------------------------------------
(* Moving one thread.                                                      *)

Goto(t, step) == pc' = [pc EXCEPT ![t] = step] /\ UNCHANGED result

(* The transition ends with r; what is left is to leave the with-block.    *)
Finish(t, r) ==
    /\ pc' = [pc EXCEPT ![t] = "release"]
    /\ result' = [result EXCEPT ![t] = r]

(* Mutant of Acquire: the lock is not waited for.                          *)
AcquireAtOnce(t) ==
    /\ holder' = t
    /\ inTransition' = TRUE

(* with self._transition_lock, self._transitioning()                       *)
Acquire(t) ==
    /\ holder = NoThread
    /\ holder' = t
    /\ inTransition' = TRUE

(* Mutant of Release: a way out of the transition that keeps the lock.     *)
ReleaseKeepsLock(t) ==
    /\ pc[t] = "release"
    /\ inTransition' = FALSE
    /\ Goto(t, "idle")
    /\ UNCHANGED <<ingressVars, desiredOn, closed, holder, worldVars>>

Release(t) ==
    /\ pc[t] = "release"
    /\ holder' = NoThread
    /\ inTransition' = FALSE
    /\ Goto(t, "idle")
    /\ UNCHANGED <<ingressVars, desiredOn, closed, worldVars>>

(* Thread t calls an operation of VideoIngress, and later takes its result.*)
Invoke(t, step, Operation) ==
    /\ pc[t] = step
    /\ Operation
    /\ UNCHANGED <<controlVars, worldVars>>

Returned(t, step, outcome) ==
    /\ pc[t] = step
    /\ call = outcome
    /\ Return
    /\ UNCHANGED <<desiredOn, inTransition, closed, holder, worldVars>>

-----------------------------------------------------------------------------
(* start()                                                                 *)

(* Mutant of AcquireStart: start() without _ensure_open.                   *)
AcquireStartReopens(t) ==
    /\ pc[t] = "start"
    /\ Acquire(t)
    /\ \/ ~desiredOn /\ info # NoId /\ Goto(t, "leftover")
       \/ (desiredOn \/ info = NoId) /\ Goto(t, "register")
    /\ UNCHANGED <<ingressVars, desiredOn, closed, worldVars>>

(* Mutant of AcquireStart: a leftover ingress is reused.                   *)
AcquireStartReuses(t) ==
    /\ pc[t] = "start"
    /\ Acquire(t)
    /\ \/ closed /\ Finish(t, "error")
       \/ ~closed /\ Goto(t, "register")
    /\ UNCHANGED <<ingressVars, desiredOn, closed, worldVars>>

(* _ensure_open, then: an ingress kept by a Stop whose archive failed is   *)
(* archived first; otherwise create() is next.                             *)
AcquireStart(t) ==
    /\ pc[t] = "start"
    /\ Acquire(t)
    /\ \/ closed /\ Finish(t, "error")
       \/ ~closed /\ ~desiredOn /\ info # NoId /\ Goto(t, "leftover")
       \/ ~closed /\ (desiredOn \/ info = NoId) /\ Goto(t, "register")
    /\ UNCHANGED <<ingressVars, desiredOn, closed, worldVars>>

Leftover(t) ==
    \/ Invoke(t, "leftover", Delete)
    \/ Returned(t, "leftover", "ok") /\ Goto(t, "register")
    \/ Returned(t, "leftover", "error") /\ Finish(t, "error")

(* Mutant of Register: a Start of a stream that is on runs no command.     *)
RegisterSkipsCommand(t) ==
    \/ Invoke(t, "register", Create)
    \/ Returned(t, "register", "ok") /\ Goto(t, IF desiredOn THEN "advertise" ELSE "command")
    \/ Returned(t, "register", "error") /\ Finish(t, "error")

Register(t) ==
    \/ Invoke(t, "register", Create)
    \/ Returned(t, "register", "ok") /\ Goto(t, "command")
    \/ Returned(t, "register", "error") /\ Finish(t, "error")

(* A command that works has been carried out after any command before it:  *)
(* systemd runs one job of a unit at a time, the newest replaces the rest. *)
Commanded(ingress) == producer' = ingress /\ late' = "none"

(* A command fails: it was not run, or got no further than stopping        *)
(* MediaMTX; or it was given up on, and is still carried out some time.    *)
CommandFails(job) ==
    /\ producer' \in {producer, NoId}
    /\ \/ "command" \in Faults /\ UNCHANGED late
       \/ "timeout" \in Faults /\ late' = job

(* Mutant of StartCommandOk: the intent is not recorded.                   *)
StartCommandOkForgets(t) ==
    /\ pc[t] = "command"
    /\ Commanded(target)
    /\ Goto(t, "advertise")
    /\ UNCHANGED <<ingressVars, desiredOn, inTransition, closed, holder, phase, requests>>

(* The start command restarts MediaMTX, which reads the SRT_TARGET file.   *)
StartCommandOk(t) ==
    /\ pc[t] = "command"
    /\ Commanded(target)
    /\ desiredOn' = TRUE
    /\ Goto(t, "advertise")
    /\ UNCHANGED <<ingressVars, inTransition, closed, holder, phase, requests>>

(* Mutant of StartCommandRaises: the command is tried until it works.      *)
StartCommandRetried(t) ==
    /\ pc[t] = "command"
    /\ CommandFails("start")
    /\ UNCHANGED <<ingressVars, controlVars, phase, requests>>

StartCommandRaises(t) ==
    /\ pc[t] = "command"
    /\ CommandFails("start")
    /\ Goto(t, "unregister")
    /\ UNCHANGED <<ingressVars, desiredOn, inTransition, closed, holder, phase, requests>>

(* _archive_best_effort("pipeline start failed"), then the error is raised.*)
Unregister(t) ==
    \/ Invoke(t, "unregister", Delete)
    \/ \E outcome \in {"ok", "error"} :
        Returned(t, "unregister", outcome) /\ Finish(t, "error")

(* _publish: on_change = Runtime.publish_now, the last step of start and   *)
(* of stop.  A failure fails the transition and changes nothing else here. *)
AdvertiseOk(t) ==
    /\ pc[t] = "advertise"
    /\ Finish(t, "ok")
    /\ UNCHANGED <<ingressVars, desiredOn, inTransition, closed, holder, worldVars>>

AdvertiseRaises(t) ==
    /\ pc[t] = "advertise"
    /\ "publish" \in Faults
    /\ Finish(t, "error")
    /\ UNCHANGED <<ingressVars, desiredOn, inTransition, closed, holder, worldVars>>

-----------------------------------------------------------------------------
(* stop()                                                                  *)

(* Mutant of AcquireStop: the ingress is archived, MediaMTX goes on.       *)
AcquireStopArchives(t) ==
    /\ pc[t] = "stop"
    /\ Acquire(t)
    /\ \/ closed /\ Finish(t, "error")
       \/ ~closed /\ Goto(t, "archive")
    /\ UNCHANGED <<ingressVars, desiredOn, closed, worldVars>>

AcquireStop(t) ==
    /\ pc[t] = "stop"
    /\ Acquire(t)
    /\ \/ closed /\ Finish(t, "error")
       \/ ~closed /\ Goto(t, "halt")
    /\ UNCHANGED <<ingressVars, desiredOn, closed, worldVars>>

StopCommandOk(t) ==
    /\ pc[t] = "halt"
    /\ Commanded(NoId)
    /\ desiredOn' = FALSE
    /\ Goto(t, "archive")
    /\ UNCHANGED <<ingressVars, inTransition, closed, holder, phase, requests>>

StopCommandRaises(t) ==
    /\ pc[t] = "halt"
    /\ CommandFails("stop")
    /\ Finish(t, "error")
    /\ UNCHANGED <<ingressVars, desiredOn, inTransition, closed, holder, phase, requests>>

(* A failed archive fails the Stop: no publish, the ingress id is kept.    *)
ArchiveIngress(t) ==
    \/ Invoke(t, "archive", Delete)
    \/ Returned(t, "archive", "ok") /\ Goto(t, "advertise")
    \/ Returned(t, "archive", "error") /\ Finish(t, "error")

-----------------------------------------------------------------------------
(* recover() and shutdown(), called by main() only.                        *)

(* recover does not mark a transition.                                     *)
AcquireRecover(t) ==
    /\ pc[t] = "recover"
    /\ holder = NoThread
    /\ holder' = t
    /\ Goto(t, "recovering")
    /\ UNCHANGED <<ingressVars, desiredOn, inTransition, closed, worldVars>>

RecoverIngress(t) ==
    \/ Invoke(t, "recovering", Recover)
    \/ Returned(t, "recovering", "ok") /\ Finish(t, "ok")

(* `closed` was set before the wait for the lock: see Terminate.           *)
AcquireShutdown(t) ==
    /\ pc[t] = "shutdown"
    /\ Acquire(t)
    /\ Goto(t, IF desiredOn THEN "halting" ELSE "archiving")
    /\ UNCHANGED <<ingressVars, desiredOn, closed, worldVars>>

(* A failed stop command is only logged.                                   *)
ShutdownPipeline(t) ==
    /\ pc[t] = "halting"
    /\ Commanded(NoId) \/ CommandFails("stop")
    /\ desiredOn' = FALSE
    /\ Goto(t, "archiving")
    /\ UNCHANGED <<ingressVars, inTransition, closed, holder, phase, requests>>

(* _archive_best_effort("shutdown"): a failure is only logged.             *)
ShutdownIngress(t) ==
    \/ Invoke(t, "archiving", Delete)
    \/ \E outcome \in {"ok", "error"} :
        Returned(t, "archiving", outcome) /\ Finish(t, "ok")

TransitionStep(t) ==
    \/ AcquireStart(t) \/ Leftover(t) \/ Register(t)
    \/ StartCommandOk(t) \/ StartCommandRaises(t) \/ Unregister(t)
    \/ AcquireStop(t) \/ StopCommandOk(t) \/ StopCommandRaises(t) \/ ArchiveIngress(t)
    \/ AcquireRecover(t) \/ RecoverIngress(t)
    \/ AcquireShutdown(t) \/ ShutdownPipeline(t) \/ ShutdownIngress(t)
    \/ AdvertiseOk(t) \/ AdvertiseRaises(t) \/ Release(t)

-----------------------------------------------------------------------------
(* main(): recover, the initial start, serve until SIGTERM, shutdown.      *)

MainCalls(from, to, transition) ==
    /\ phase = from
    /\ pc[Main] = "idle"
    /\ phase' = to
    /\ Goto(Main, transition)
    /\ UNCHANGED <<ingressVars, desiredOn, inTransition, holder, producer, late, requests>>

BootRecover == MainCalls("boot", "recover", "recover") /\ UNCHANGED closed

(* _initial_start: its failure is logged, the service goes on.             *)
InitialStart == MainCalls("recover", "start", "start") /\ UNCHANGED closed

(* runtime.run(): signal handlers are installed, the workers are started.  *)
Serve == MainCalls("start", "serve", "idle") /\ UNCHANGED closed

(* SIGTERM ends run(); control.shutdown() closes the control at once.      *)
Terminate == MainCalls("serve", "shutdown", "shutdown") /\ closed' = TRUE

(* shutdown() has returned.  The daemon threads live until the process     *)
(* ends, so a task worker can still be waiting for the lock.               *)
ShutdownDone == MainCalls("shutdown", "exit", "idle") /\ UNCHANGED closed

(* A task worker is told to run Start or Stop, on its own thread.  The     *)
(* stream loop checks the stop event before it handles a message, so one   *)
(* that passed the check can still start a worker during the shutdown.     *)
Request(t, transition) ==
    /\ phase \in {"serve", "shutdown", "exit"}
    /\ pc[t] = "idle"
    /\ requests < MaxRequests
    /\ requests' = requests + 1
    /\ pc' = [pc EXCEPT ![t] = transition]
    /\ result' = [result EXCEPT ![t] = "none"]
    /\ UNCHANGED <<ingressVars, desiredOn, inTransition, closed, holder, phase, producer, late>>

(* The daemon lets go of the command it is running, if any: it is not      *)
(* carried out, or no further than stopping MediaMTX, or systemd still     *)
(* carries it out some time later.                                         *)
CommandLetGo ==
    \/ UNCHANGED <<producer, late>>
    \/ /\ \/ late' = "start" /\ \E t \in Thread : pc[t] = "command"
          \/ late' = "stop" /\ \E t \in Thread : pc[t] \in {"halt", "halting"}
       /\ producer' \in {producer, NoId}

(* Ctrl-C before run() has installed its handlers: KeyboardInterrupt leaves*)
(* the transition main is in, and main's `finally` shuts the control down. *)
Interrupt ==
    /\ "interrupt" \in Faults
    /\ phase \in {"boot", "recover", "start"}
    /\ phase' = "shutdown"
    /\ closed' = TRUE
    /\ pc' = [pc EXCEPT ![Main] = "shutdown"]
    /\ holder' = IF holder = Main THEN NoThread ELSE holder
    /\ inTransition' = FALSE
    /\ IngressInterrupted
    /\ CommandLetGo
    /\ UNCHANGED <<desiredOn, result, requests>>

(* The process is gone and systemd starts it again (Restart=always).       *)
NewProcess ==
    /\ IngressLost
    /\ desiredOn' = FALSE
    /\ inTransition' = FALSE
    /\ closed' = FALSE
    /\ holder' = NoThread
    /\ pc' = [t \in Thread |-> "idle"]
    /\ result' = [t \in Thread |-> "none"]
    /\ phase' = "boot"
    /\ UNCHANGED requests

Restart ==
    /\ phase = "exit"
    /\ UNCHANGED <<disk, card, producer, late>>
    /\ NewProcess

Crash ==
    /\ "crash" \in Faults
    /\ CommandLetGo
    /\ UNCHANGED <<disk, card>>
    /\ NewProcess

(* The MediaMTX unit is never enabled: it is down after a reboot.          *)
PowerLoss ==
    /\ "power" \in Faults
    /\ disk' \in AfterPowerLoss
    /\ card' = disk'
    /\ Commanded(NoId)
    /\ NewProcess

(* systemd restarts a MediaMTX that died; it reads the SRT_TARGET file.    *)
MediaMtxRestarts ==
    /\ producer # NoId
    /\ producer' = target
    /\ UNCHANGED <<ingressVars, controlVars, phase, late, requests>>

(* systemd carries out a command the daemon has given up on.               *)
LateCommand ==
    /\ late # "none"
    /\ Commanded(IF late = "start" THEN target ELSE NoId)
    /\ UNCHANGED <<ingressVars, controlVars, phase, requests>>

MainStep == BootRecover \/ InitialStart \/ Serve \/ ShutdownDone

IngressProgress == IngressStep /\ UNCHANGED <<controlVars, worldVars>>

Next ==
    \/ \E t \in Thread : TransitionStep(t)
    \/ IngressProgress
    \/ MainStep
    \/ Terminate
    \/ \E t \in Worker, transition \in {"start", "stop"} : Request(t, transition)
    \/ Interrupt
    \/ Restart \/ Crash \/ PowerLoss
    \/ WriteBack /\ UNCHANGED <<controlVars, worldVars>>
    \/ MediaMtxRestarts \/ LateCommand

Spec == Init /\ [][Next]_vars

(* Threads that can move do move: each is scheduled by the OS, and every   *)
(* remote call and command has a timeout (30 s).  Nothing is assumed of    *)
(* signals, tasks, crashes and restarts, nor of who gets the lock.         *)
Fairness ==
    /\ \A t \in Thread : WF_vars(TransitionStep(t))
    /\ WF_vars(IngressProgress)
    /\ WF_vars(MainStep)

FairSpec == Spec /\ Fairness

-----------------------------------------------------------------------------
(* Properties that hold whatever fails.                                    *)

(* Transitions never overlap: two threads are never both inside the        *)
(* transition lock.  VideoIngress relies on it (ingress.py:28-30).         *)
Serialised == \A s, t \in Thread : pc[s] \in Inside /\ pc[t] \in Inside => s = t

(* The ingress a process owns is named by its record and by the SRT_TARGET *)
(* file, and the record is on disk unless its last write failed: a crash   *)
(* can be recovered from, and MediaMTX comes up pointing at it.  create()  *)
(* persists, then writes the target, then takes ownership; delete()        *)
(* archives, then forgets the record, then disowns, and may be interrupted *)
(* before the last step.                                                   *)
OwnedIsRecorded ==
    info # NoId =>
        /\ target = info
        /\ \/ record = info /\ (disk = info \/ flushError)
           \/ record = NoId /\ server[info] = "archived"

(* Nothing the daemon or the next boot can reach names i, and it is live.  *)
Orphan(i) == server[i] = "live" /\ i \notin {info, fresh, record, disk}

(* An ingress is orphaned only through the gaps the code has: the answer   *)
(* of its registration was lost, or main was interrupted waiting for it;   *)
(* the process ended before the record was written; or create() overwrote  *)
(* the one record while it still named it, because an earlier archive of   *)
(* it had failed: after a failed recovery the initial Start does so, where *)
(* ingress.py:15-16 says the record is kept for the next boot.  A write of *)
(* the state file that failed adds two: the process ends and with it the   *)
(* record that was only in memory, or a later write drops the older record *)
(* the file still held.  A power loss adds one: it can undo a write that   *)
(* worked, the file is not fsynced.  Clearing a record never orphans an    *)
(* ingress: the archive has succeeded by then.  And no end of the process  *)
(* orphans an ingress whose record was written.                            *)
OrphanOnlyThroughGaps ==
    [][\A i \in IngressId : ~Orphan(i) /\ Orphan(i)' =>
        \/ call = "create" /\ call' # "persist"
        \/ call = "persist" /\ fresh = i /\ phase' \in {"boot", "shutdown"}
        \/ call = "persist" /\ fresh # i
        \/ flushError /\ record = i /\ disk # i /\ phase' = "boot"
        \/ flushError /\ record # i /\ disk = i
        \/ card # disk /\ disk = i /\ disk' # i /\ phase' = "boot"
      ]_vars

(* Once shutdown() has returned nothing comes back to life: a Start queued *)
(* behind it neither registers an ingress nor turns the stream on, and a   *)
(* Stop changes nothing either (control.py:42-45).                         *)
NoRevival ==
    [][phase = "exit" /\ phase' = "exit" =>
        UNCHANGED <<desiredOn, server, info, record, disk, target>>]_vars

-----------------------------------------------------------------------------
(* Properties of an environment with fewer faults.                         *)

(* "Never push at a dead stream" (control.py:36): while the stream is      *)
(* desired on, MediaMTX pushes at the ingress this process owns, and it is *)
(* live.  Holds as long as no command fails or is given up on, whatever    *)
(* VideoManager, the disk, the publishes and the process itself do.        *)
PushesAtOwnLive ==
    desiredOn => producer # NoId /\ producer = info /\ server[producer] = "live"

(* Once MediaMTX runs exactly when the stream is desired on, it stays so   *)
(* until the process dies, or is interrupted in its first start command    *)
(* and leaves that to be carried out later.                                *)
ProducerFollowsIntent ==
    [][(desiredOn <=> producer # NoId) /\ late = "none"
        => (desiredOn' <=> producer' # NoId) \/ phase' = "boot"]_vars

(* The stream the control implements: its source is the ingress MediaMTX   *)
(* pushes at while the stream is desired on.  A MediaMTX left running with *)
(* the stream off, by a crash, pushes at nothing the control vouches for.  *)
Stream == INSTANCE CameraStream WITH
    ingress <- server,
    source <- IF desiredOn THEN producer ELSE NoId

(* Every behaviour of the control is one of CameraStream: no interleaving  *)
(* of tasks, failures, crashes and restarts archives the ingress the video *)
(* goes to, turns on a dead one, or moves the stream without stopping it.  *)
(* Holds as long as no command fails or is given up on.                    *)
ImplementsStream == Stream!StreamSpec

(* Whatever became of the commands before it, failed, given up on or late: *)
(* a Start that gets to its publish has MediaMTX pushing at the ingress    *)
(* this process owns, which is live, and a Stop that does has MediaMTX     *)
(* down and owns nothing.  A repeated Start or Stop therefore repairs, as  *)
(* long as the answers of VideoManager arrive: an ingress whose archiving  *)
(* looked like a failure is still owned, and the next Start reuses it.     *)
TransitionHeals ==
    \A t \in Thread : pc[t] = "advertise" =>
        IF desiredOn THEN producer = info /\ info # NoId /\ server[info] = "live"
                     ELSE producer = NoId /\ info = NoId

(* The same sentence, only of a stream that is on: a stop command failing  *)
(* at shutdown is accepted by the code (control.py:188-189, best effort).  *)
NeverPushAtDead == desiredOn /\ producer # NoId => server[producer] = "live"

(* No ingress leaks as long as VideoManager answers and the daemon is not  *)
(* killed: the only live ingress is the one owned or being registered.     *)
NoLeak == \A i \in IngressId : server[i] = "live" => i \in {info, fresh}

(* A transition that was asked for ends: the lock is always released, and  *)
(* no error path leaves it held.                                           *)
TransitionsEnd == \A t \in Thread : pc[t] \in Waiting ~> pc[t] = "idle"

(* SIGTERM is followed by the end of the cleanup (unless the daemon dies). *)
ShutdownEnds == closed ~> (phase = "exit" \/ ~closed)
=============================================================================
