------------------------------ MODULE TaskAgent ------------------------------
(***************************************************************************)
(* tasking/handler.py: the tasks of the camera agent.  A reader thread     *)
(* takes messages off the ListenAsAgent stream (the loop is TaskStream);   *)
(* each Execute is run by a worker thread of its own, which reports the    *)
(* task's progress.                                                        *)
(*                                                                         *)
(* Lattice's TaskManager is external.  It holds a status and a status      *)
(* version for each task, ignores an update whose version is not strictly  *)
(* greater (lattice/tasks.py:73-74), and raises the version itself when    *)
(* the operator asks to cancel or to complete the task.  DONE_NOT_OK is    *)
(* written with its error code, FAILED or CANCELLED.                       *)
(***************************************************************************)
EXTENDS TaskStream, Sequences

CONSTANTS
    Task,            \* the tasks assigned to the camera
    Unsupported,     \* those whose type URL the handler does not know
    Operator,        \* what the operator may ask: "cancel", "complete"
    MaxAsks,         \* how often, of one task (a bound)
    AgentFaults      \* what may fail, see AgentFaultKinds

AgentFaultKinds == {
    "refused",     \* an UpdateStatus fails and has no effect
    "lost",        \* an UpdateStatus is applied but the caller sees an error
    "resync",      \* a GetTask fails
    "action",      \* Start or Stop raises
    "disconnect",  \* the stream breaks
    "stop",        \* SIGTERM: the runtime stops its workers
    "crash" }      \* the daemon dies, or its next process takes over

ASSUME AgentFaultsAssumption == AgentFaults \subseteq AgentFaultKinds
ASSUME UnsupportedAssumption == Unsupported \subseteq Task
ASSUME OperatorAssumption == Operator \subseteq {"cancel", "complete"} /\ MaxAsks \in Nat

VARIABLES
    held,         \* TaskManager: status and version of each task
    asked,        \* TaskManager: requests of the operator, to cancel or complete each task
    sent,         \* TaskManager: tasks sent on the present stream
    stream,       \* messages on their way to the reader, heartbeats left out
    reader,       \* the reader thread: what it does, for which run of which task
    pc,           \* each worker thread; "idle" when the task is not in _active
    run,          \* how many times each task has been executed
    active,       \* its _ActiveTask: status_version, terminal, cancel
    report,       \* the update it is about to send, or has sent last
    handling      \* it is in execute()'s except clause

managerVars == <<held, asked, sent>>
streamVars == <<stream, linkVars>>
workerVars == <<pc, run, active, report, handling>>
taskVars == <<managerVars, streamVars, reader, workerVars>>

Final == {"DONE_OK", "FAILED", "CANCELLED"}
Status == {"SENT", "EXECUTING"} \cup Final
Message == [type : {"execute", "cancel", "complete"}, task : Task, version : Nat]
Steps == {"idle", "begin", "report", "send", "check", "action", "decide", "failed", "finish"}
Reading == [step |-> "read"]
ReaderStates ==
    {Reading} \cup
    [step : {"resync", "mark"}, type : {"cancel", "complete"}, task : Task, run : Nat]

TaskTypeOK ==
    /\ held \in [Task -> [status : Status, version : Nat]]
    /\ asked \in [Task -> 0..MaxAsks]
    /\ sent \subseteq Task
    /\ stream \in Seq(Message)
    /\ StreamTypeOK
    /\ reader \in ReaderStates
    /\ pc \in [Task -> Steps]
    /\ run \in [Task -> Nat]
    /\ active \in [Task -> [version : Nat, terminal : BOOLEAN, cancel : BOOLEAN]]
    /\ report \in [Task -> [status : Status, version : Nat]]
    /\ handling \in [Task -> BOOLEAN]

NoActive == [version |-> 0, terminal |-> FALSE, cancel |-> FALSE]
NoReport == [status |-> "SENT", version |-> 0]

TaskInit ==
    /\ held = [k \in Task |-> [status |-> "SENT", version |-> 1]]
    /\ asked = [k \in Task |-> 0]
    /\ sent = {}
    /\ stream = <<>>
    /\ StreamInit
    /\ reader = Reading
    /\ pc = [k \in Task |-> "idle"]
    /\ run = [k \in Task |-> 0]
    /\ active = [k \in Task |-> NoActive]
    /\ report = [k \in Task |-> NoReport]
    /\ handling = [k \in Task |-> FALSE]

-----------------------------------------------------------------------------
(* TaskManager and the operator.                                           *)

(* A task that is not done is sent on every new stream, with the version   *)
(* held for it.                                                            *)
Deliver(k) ==
    /\ link \in {"open", "live"}
    /\ k \notin sent
    /\ held[k].status \notin Final
    /\ sent' = sent \cup {k}
    /\ stream' = Append(stream, [type |-> "execute", task |-> k, version |-> held[k].version])
    /\ UNCHANGED <<held, asked, linkVars, reader, workerVars>>

(* The request raises the version; a complete request also ends the task.  *)
(* It is passed on to an agent that has been sent the task.                *)
Ask(k, what) ==
    /\ what \in Operator
    /\ asked[k] < MaxAsks
    /\ held[k].status \notin Final
    /\ asked' = [asked EXCEPT ![k] = @ + 1]
    /\ held' = [held EXCEPT ![k].version = @ + 1,
                            ![k].status = IF what = "complete" THEN "DONE_OK" ELSE @]
    /\ stream' = IF k \in sent
                 THEN Append(stream, [type |-> what, task |-> k, version |-> 0]) ELSE stream
    /\ UNCHANGED <<sent, linkVars, reader, workerVars>>

(* UpdateStatus of an update u, as TaskManager treats it.                  *)
Applied(k, u) ==
    IF u.version > held[k].version THEN [held EXCEPT ![k] = u] ELSE held

-----------------------------------------------------------------------------
(* The reader thread: run and handle_response.                             *)

(* A heartbeat.  It does not queue here: it may come between any two       *)
(* messages, and does nothing but show that the stream is live.            *)
Heartbeat ==
    /\ reader = Reading
    /\ Received
    /\ UNCHANGED <<managerVars, stream, reader, workerVars>>

(* What was on its way on a stream that is gone is lost.                   *)
StreamGone ==
    /\ stream' = <<>>
    /\ sent' = {}
    /\ UNCHANGED <<held, asked, reader, workerVars>>

(* The stream breaks, or the message that comes is too late.               *)
Disconnect ==
    /\ reader = Reading
    /\ \/ "disconnect" \in AgentFaults /\ Lost
       \/ ReceivedTooLate
    /\ StreamGone

(* The loop goes on between two streams.                                   *)
Reconnect ==
    /\ LoopStep
    /\ UNCHANGED <<managerVars, stream, reader, workerVars>>

StopAgent ==
    /\ "stop" \in AgentFaults
    /\ Stop
    /\ UNCHANGED <<managerVars, stream, reader, workerVars>>

(* _start_worker: a task that is in progress already is not started again. *)
ReadExecute ==
    /\ reader = Reading
    /\ Received
    /\ stream # <<>>
    /\ LET m == Head(stream)
           k == m.task
       IN /\ m.type = "execute"
          /\ IF pc[k] # "idle" THEN UNCHANGED workerVars
             ELSE /\ pc' = [pc EXCEPT ![k] = "begin"]
                  /\ run' = [run EXCEPT ![k] = @ + 1]
                  /\ active' = [active EXCEPT ![k] = [NoActive EXCEPT !.version = m.version]]
                  /\ report' = [report EXCEPT ![k] = NoReport]
                  /\ handling' = [handling EXCEPT ![k] = FALSE]
    /\ stream' = Tail(stream)
    /\ UNCHANGED <<managerVars, reader>>

(* _on_cancel and _on_complete look the task up in _active first.  The     *)
(* reader keeps the _ActiveTask it found: `run` tells it from a later one. *)
ReadRequest ==
    /\ reader = Reading
    /\ Received
    /\ stream # <<>>
    /\ LET m == Head(stream)
       IN /\ m.type \in {"cancel", "complete"}
          /\ reader' = IF pc[m.task] = "idle" THEN Reading
                       ELSE [step |-> "resync", type |-> m.type,
                             task |-> m.task, run |-> run[m.task]]
    /\ stream' = Tail(stream)
    /\ UNCHANGED <<managerVars, workerVars>>

(* The worker whose _ActiveTask the reader holds is still the one running. *)
SameRun == reader.run = run[reader.task] /\ pc[reader.task] # "idle"

(* Mutant of Observe: the version Lattice returned, even a lower one.      *)
ObserveLatest(k, v) == [active EXCEPT ![k].version = v]

(* observe_version: never back.                                            *)
Observe(k, v) == [active EXCEPT ![k].version = IF v > @ THEN v ELSE @]

(* Mutant of Resync: the version is not re-read before the cancel.         *)
ResyncSkipped ==
    /\ reader.step = "resync"
    /\ reader' = [reader EXCEPT !.step = "mark"]
    /\ UNCHANGED <<managerVars, streamVars, workerVars>>

(* _resync_version: GetTask.  Its failure is only logged.                  *)
Resync ==
    /\ reader.step = "resync"
    /\ \/ active' = IF SameRun THEN Observe(reader.task, held[reader.task].version)
                    ELSE active
       \/ "resync" \in AgentFaults /\ UNCHANGED active
    /\ reader' = [reader EXCEPT !.step = "mark"]
    /\ UNCHANGED <<managerVars, streamVars, pc, run, report, handling>>

(* cancel.set(), or terminal = True under the task's lock.                 *)
Mark ==
    /\ reader.step = "mark"
    /\ active' = IF ~SameRun THEN active
                 ELSE IF reader.type = "cancel" THEN [active EXCEPT ![reader.task].cancel = TRUE]
                 ELSE [active EXCEPT ![reader.task].terminal = TRUE]
    /\ reader' = Reading
    /\ UNCHANGED <<managerVars, streamVars, pc, run, report, handling>>

ReaderStep == ReadExecute \/ ReadRequest \/ Resync \/ Mark

-----------------------------------------------------------------------------
(* A worker thread: execute and _update.                                   *)

Step(k, to) == pc' = [pc EXCEPT ![k] = to]

(* _update(active, status) is called.                                      *)
Reports(k, status) ==
    /\ report' = [report EXCEPT ![k].status = status]
    /\ Step(k, "report")

Begin(k) ==
    /\ pc[k] = "begin"
    /\ Reports(k, IF k \in Unsupported THEN "FAILED" ELSE "EXECUTING")
    /\ UNCHANGED <<managerVars, streamVars, reader, run, active, handling>>

(* Where execute() goes on once _update has returned.                      *)
AfterUpdate(k) ==
    Step(k, IF ~handling[k] /\ report[k].status = "EXECUTING" THEN "check" ELSE "finish")

(* _update's locked part: nothing for a terminal task, else the counter.   *)
AlreadyTerminal(k) ==
    /\ pc[k] = "report"
    /\ active[k].terminal
    /\ AfterUpdate(k)
    /\ UNCHANGED <<managerVars, streamVars, reader, run, active, report, handling>>

Count(k) ==
    /\ pc[k] = "report"
    /\ ~active[k].terminal
    /\ active' = [active EXCEPT ![k].version = @ + 1]
    /\ report' = [report EXCEPT ![k].version = active[k].version + 1]
    /\ Step(k, "send")
    /\ UNCHANGED <<managerVars, streamVars, reader, run, handling>>

(* The RPC returns the version TaskManager holds now, whether it applied   *)
(* the update or ignored it; a DONE_* makes the task terminal either way.  *)
SendOk(k) ==
    /\ pc[k] = "send"
    /\ held' = Applied(k, report[k])
    /\ active' = [Observe(k, held'[k].version) EXCEPT
                    ![k].terminal = @ \/ report[k].status \in Final]
    /\ AfterUpdate(k)
    /\ UNCHANGED <<asked, sent, streamVars, reader, run, report, handling>>

(* The RPC raises: refused, or applied with its answer lost.  In the       *)
(* except clause the second failure is only logged.                        *)
SendRaises(k) ==
    /\ pc[k] = "send"
    /\ \/ "refused" \in AgentFaults /\ UNCHANGED held
       \/ "lost" \in AgentFaults /\ held' = Applied(k, report[k])
    /\ Step(k, IF handling[k] THEN "finish" ELSE "failed")
    /\ UNCHANGED <<asked, sent, streamVars, reader, run, active, report, handling>>

(* Cancelled before the action, or after it.                               *)
Check(k) ==
    /\ pc[k] = "check"
    /\ \/ active[k].cancel /\ Reports(k, "CANCELLED")
       \/ ~active[k].cancel /\ Step(k, "action") /\ UNCHANGED report
    /\ UNCHANGED <<managerVars, streamVars, reader, run, active, handling>>

(* control.start() or control.stop(), however long it takes.               *)
Act(k) ==
    /\ pc[k] = "action"
    /\ \/ Step(k, "decide")
       \/ "action" \in AgentFaults /\ Step(k, "failed")
    /\ UNCHANGED <<managerVars, streamVars, reader, run, active, report, handling>>

(* Mutant of Decide: a late cancel is reported without its error code.     *)
DecideUncoded(k) ==
    /\ pc[k] = "decide"
    /\ Reports(k, IF active[k].cancel THEN "DONE_NOT_OK" ELSE "DONE_OK")
    /\ UNCHANGED <<managerVars, streamVars, reader, run, active, handling>>

Decide(k) ==
    /\ pc[k] = "decide"
    /\ Reports(k, IF active[k].cancel THEN "CANCELLED" ELSE "DONE_OK")
    /\ UNCHANGED <<managerVars, streamVars, reader, run, active, handling>>

(* Mutant of Failed: the exception is logged and not reported.             *)
FailedSilently(k) ==
    /\ pc[k] = "failed"
    /\ handling' = [handling EXCEPT ![k] = TRUE]
    /\ Step(k, "finish")
    /\ UNCHANGED <<managerVars, streamVars, reader, run, active, report>>

(* The except clause.                                                      *)
Failed(k) ==
    /\ pc[k] = "failed"
    /\ handling' = [handling EXCEPT ![k] = TRUE]
    /\ IF active[k].terminal THEN Step(k, "finish") /\ UNCHANGED report
       ELSE Reports(k, "FAILED")
    /\ UNCHANGED <<managerVars, streamVars, reader, run, active>>

(* Mutant of FinishTask: not a `finally`, an exception skips it.           *)
FinishUnlessFailed(k) ==
    /\ pc[k] = "finish"
    /\ ~handling[k]
    /\ Step(k, "idle")
    /\ UNCHANGED <<managerVars, streamVars, reader, run, active, report, handling>>

(* finally: the task leaves _active.                                       *)
FinishTask(k) ==
    /\ pc[k] = "finish"
    /\ Step(k, "idle")
    /\ UNCHANGED <<managerVars, streamVars, reader, run, active, report, handling>>

WorkerStep(k) ==
    \/ Begin(k) \/ AlreadyTerminal(k) \/ Count(k) \/ SendOk(k) \/ SendRaises(k)
    \/ Check(k) \/ Act(k) \/ Decide(k) \/ Failed(k) \/ FinishTask(k)

(* The process dies; the next one opens a stream of its own.               *)
AgentCrash ==
    /\ "crash" \in AgentFaults
    /\ StreamRestarts
    /\ stream' = <<>>
    /\ sent' = {}
    /\ reader' = Reading
    /\ pc' = [k \in Task |-> "idle"]
    /\ run' = [k \in Task |-> run[k] + 1]
    /\ active' = [k \in Task |-> NoActive]
    /\ report' = [k \in Task |-> NoReport]
    /\ handling' = [k \in Task |-> FALSE]
    /\ UNCHANGED <<held, asked>>

TaskNext ==
    \/ \E k \in Task : Deliver(k) \/ WorkerStep(k)
    \/ \E k \in Task, what \in {"cancel", "complete"} : Ask(k, what)
    \/ ReaderStep \/ Heartbeat
    \/ Reconnect \/ Disconnect
    \/ StopAgent
    \/ AgentCrash

TaskSpec == TaskInit /\ [][TaskNext]_taskVars

(* Threads run, waits end, and TaskManager sends a task it still holds as  *)
(* open.  Heartbeats and the noticing of a stop are left to chance.        *)
TaskFairness ==
    /\ \A k \in Task : WF_taskVars(WorkerStep(k)) /\ WF_taskVars(Deliver(k))
    /\ WF_taskVars(ReaderStep) /\ WF_taskVars(Reconnect)

FairTaskSpec == TaskSpec /\ TaskFairness

-----------------------------------------------------------------------------
(* Properties.                                                             *)

(* "Every status update carries a strictly increasing status_version": in  *)
(* one execution of a task each update is numbered above the last, and the *)
(* counter never goes back, although the reader raises it concurrently     *)
(* (handler.py:16-20).                                                     *)
VersionsIncrease ==
    [][\A k \in Task : run'[k] = run[k] =>
        /\ active'[k].version >= active[k].version
        /\ report'[k].version # report[k].version => report'[k].version > report[k].version
      ]_taskVars

(* A cancel the worker has honoured reaches TaskManager: the version is    *)
(* re-read before cancel.set(), so the CANCELLED update counts although    *)
(* the cancel had raised the version (handler.py:368-373).  Holds as long  *)
(* as that GetTask does not fail and the operator asks once: a second      *)
(* request between the GetTask and the update raises the version again.    *)
CancelReachesManager ==
    \A k \in Task :
        pc[k] = "finish" /\ report[k].status = "CANCELLED" => held[k].status = "CANCELLED"

(* "Terminal states are final" (handler.py:21): TaskManager never sees a   *)
(* task leave one for another.  A complete request has made the task       *)
(* DONE_OK; "nothing more is sent" for it (handler.py:26).                 *)
TerminalIsFinal ==
    [][\A k \in Task : held[k].status \in Final => held'[k].status = held[k].status]_taskVars

(* "A task never stays in EXECUTING" (handler.py:21): it reaches a         *)
(* terminal state in TaskManager.                                          *)
ReachesTerminal == \A k \in Task : held[k].status = "EXECUTING" ~> held[k].status \in Final

(* The same of a task nobody asks to cancel.                               *)
UndisturbedReachesTerminal ==
    \A k \in Task :
        held[k].status = "EXECUTING" ~> (held[k].status \in Final \/ asked[k] > 0)

(* An execution always ends and leaves _active, whatever fails: otherwise  *)
(* every later delivery of the task would be ignored as a duplicate.       *)
WorkersEnd == \A k \in Task : pc[k] # "idle" ~> pc[k] = "idle"

(* An open task is not forgotten: however often the stream breaks and the  *)
(* process dies, on the stream that lasts the task reaches the agent, which*)
(* runs it, unless it is running it already or the service stops.          *)
OpenTaskIsTaken ==
    \A k \in Task :
        k \notin sent /\ held[k].status \notin Final
            ~> (pc[k] # "idle" \/ held[k].status \in Final \/ stopping)
=============================================================================
