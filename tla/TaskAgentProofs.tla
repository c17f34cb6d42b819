--------------------------- MODULE TaskAgentProofs ---------------------------
(***************************************************************************)
(* Theorems about TaskAgent, for every set of tasks, whatever the operator *)
(* asks, whatever fails, and any number of streams.                        *)
(***************************************************************************)
EXTENDS TaskAgent, TLAPS, WellFoundedInduction

-----------------------------------------------------------------------------
(* Types.                                                                  *)

(* observe_version keeps the types of the _ActiveTasks.                    *)
LEMMA ObserveTyped ==
    ASSUME TaskTypeOK, NEW k \in Task, NEW v \in Nat
    PROVE  Observe(k, v) \in [Task -> [version : Nat, terminal : BOOLEAN, cancel : BOOLEAN]]
BY DEF TaskTypeOK, Observe

(* So does the version a request of the operator gives a task.             *)
LEMMA NextVersionTyped ==
    ASSUME NEW h \in [Task -> [status : Status, version : Nat]], NEW k \in Task
    PROVE  [h EXCEPT ![k].version = @ + 1] \in [Task -> [status : Status, version : Nat]]
<1>1. h[k].version + 1 \in Nat
  OBVIOUS
<1> QED
  BY <1>1

(* A call of _update keeps the types of the update and of the thread.      *)
LEMMA ReportsTyped ==
    ASSUME TaskTypeOK, NEW k \in Task, NEW status \in Status, Reports(k, status)
    PROVE  /\ report' \in [Task -> [status : Status, version : Nat]]
           /\ pc' \in [Task -> Steps]
BY DEF TaskTypeOK, Reports, Step, Steps

(* TaskManager's treatment of an update keeps its types.                   *)
LEMMA AppliedTyped ==
    ASSUME TaskTypeOK, NEW k \in Task
    PROVE  Applied(k, report[k]) \in [Task -> [status : Status, version : Nat]]
BY DEF TaskTypeOK, Applied

(* Every step of the stream loop keeps its types.                          *)
LEMMA LinkTyped ==
    ASSUME StreamTypeOK,
           \/ Received \/ ReceivedTooLate \/ Lost \/ LoopStep \/ Stop \/ StreamRestarts
           \/ UNCHANGED linkVars
    PROVE  StreamTypeOK'
<1> USE ReconnectAssumption DEF StreamTypeOK, Links
<1>1. CASE Received \/ ReceivedTooLate
  <2>1. link' \in Links /\ delay' \in Nat /\ outages' \in Nat /\ silent' \in Nat
    BY <1>1 DEF Received, ReceivedTooLate
  <2>2. connected' \in BOOLEAN /\ stopping' \in BOOLEAN
    BY <1>1, Zenon DEF Received, ReceivedTooLate
  <2> QED
    BY <2>1, <2>2
<1>2. CASE Lost \/ StreamRestarts
  <2>1. link' \in Links /\ delay' \in Nat /\ outages' \in Nat /\ silent' \in Nat
    BY <1>2 DEF Lost, StreamRestarts
  <2>2. connected' \in BOOLEAN /\ stopping' \in BOOLEAN
    BY <1>2, Zenon DEF Lost, StreamRestarts
  <2> QED
    BY <2>1, <2>2
<1>3. CASE LoopStep
  BY <1>3 DEF LoopStep, Listen, WaitOver, Lesser
<1>4. CASE Stop
  BY <1>4 DEF Stop
<1>5. CASE UNCHANGED linkVars
  BY <1>5 DEF linkVars
<1> QED
  BY <1>1, <1>2, <1>3, <1>4, <1>5

(* The steps of TaskManager, of the operator and of the stream.            *)
LEMMA ManagerTyped ==
    ASSUME TaskTypeOK,
           \/ \E k \in Task : Deliver(k)
           \/ \E k \in Task, what \in {"cancel", "complete"} : Ask(k, what)
           \/ Heartbeat \/ Reconnect \/ Disconnect \/ StopAgent \/ AgentCrash
    PROVE  TaskTypeOK'
<1> USE DEF TaskTypeOK
<1>1. CASE \E k \in Task : Deliver(k)
  <2>1. PICK k \in Task : Deliver(k)
    BY <1>1
  <2>2. [type |-> "execute", task |-> k, version |-> held[k].version] \in Message
    BY DEF Message
  <2>3. stream' \in Seq(Message)
    BY <2>1, <2>2 DEF Deliver
  <2> QED
    BY <2>1, <2>3, LinkTyped DEF Deliver, workerVars
<1>2. CASE \E k \in Task, what \in {"cancel", "complete"} : Ask(k, what)
  <2>1. PICK k \in Task, what \in {"cancel", "complete"} : Ask(k, what)
    BY <1>2
  <2>2. [type |-> what, task |-> k, version |-> 0] \in Message
    BY DEF Message
  <2>3. stream' \in Seq(Message)
    BY <2>1, <2>2 DEF Ask
  <2> DEFINE status == IF what = "complete" THEN "DONE_OK" ELSE held[k].status
  <2>4. held' \in [Task -> [status : Status, version : Nat]]
    <3>1. status \in Status
      BY DEF Status, Final
    <3>2. [held EXCEPT ![k].version = @ + 1] \in [Task -> [status : Status, version : Nat]]
      BY NextVersionTyped
    <3>3. held' = [[held EXCEPT ![k].version = @ + 1] EXCEPT ![k].status = status]
      BY <2>1 DEF Ask
    <3> HIDE DEF status
    <3> QED
      BY <3>1, <3>2, <3>3
  <2>5. StreamTypeOK'
    BY <2>1, LinkTyped DEF Ask
  <2>6. asked' \in [Task -> 0..MaxAsks] /\ UNCHANGED <<sent, reader>>
    BY <2>1, OperatorAssumption DEF Ask
  <2>7. UNCHANGED <<pc, run, active, report, handling>>
    BY <2>1 DEF Ask, workerVars
  <2> QED
    BY <2>3, <2>4, <2>5, <2>6, <2>7
<1>3. CASE Heartbeat \/ Reconnect \/ Disconnect \/ StopAgent
  <2>1. StreamTypeOK'
    BY <1>3, LinkTyped DEF Heartbeat, Reconnect, Disconnect, StopAgent
  <2>2. UNCHANGED <<reader, held, asked>>
    BY <1>3 DEF Heartbeat, Reconnect, Disconnect, StreamGone, StopAgent, managerVars
  <2>3. UNCHANGED <<pc, run, active, report, handling>>
    BY <1>3 DEF Heartbeat, Reconnect, Disconnect, StreamGone, StopAgent, workerVars
  <2>4. sent' \subseteq Task /\ stream' \in Seq(Message)
    <3>1. CASE Disconnect
      BY <3>1 DEF Disconnect, StreamGone
    <3>2. CASE Heartbeat \/ Reconnect \/ StopAgent
      BY <3>2 DEF Heartbeat, Reconnect, StopAgent, managerVars
    <3> QED
      BY <1>3, <3>1, <3>2
  <2> QED
    BY <2>1, <2>2, <2>3, <2>4, Zenon
<1>4. CASE AgentCrash
  BY <1>4, LinkTyped DEF AgentCrash, NoActive, NoReport, Steps, Status, ReaderStates, Reading
<1> QED
  BY <1>1, <1>2, <1>3, <1>4

(* The steps of the reader thread.                                         *)
LEMMA ReaderTyped ==
    ASSUME TaskTypeOK, ReaderStep
    PROVE  TaskTypeOK'
<1> USE DEF TaskTypeOK
<1>1. stream # <<>> => Head(stream) \in Message /\ Tail(stream) \in Seq(Message)
  OBVIOUS
<1>2. reader # Reading =>
        reader \in [step : {"resync", "mark"}, type : {"cancel", "complete"},
                    task : Task, run : Nat]
  BY DEF ReaderStates
<1>3. CASE ReadExecute
  <2>1. Head(stream) \in Message /\ stream' \in Seq(Message)
    BY <1>1, <1>3 DEF ReadExecute
  <2> DEFINE m == Head(stream)
             k == m.task
  <2>2. k \in Task /\ m.version \in Nat
    BY <2>1 DEF Message
  <2>3. CASE UNCHANGED workerVars
    BY <1>3, <2>1, <2>3, LinkTyped DEF ReadExecute, managerVars, workerVars
  <2>4. CASE ~UNCHANGED workerVars
    <3>1. /\ pc' = [pc EXCEPT ![k] = "begin"]
          /\ run' = [run EXCEPT ![k] = @ + 1]
          /\ active' = [active EXCEPT ![k] = [NoActive EXCEPT !.version = m.version]]
          /\ report' = [report EXCEPT ![k] = NoReport]
          /\ handling' = [handling EXCEPT ![k] = FALSE]
      BY <1>3, <2>4 DEF ReadExecute
    <3>2. [NoActive EXCEPT !.version = m.version]
            \in [version : Nat, terminal : BOOLEAN, cancel : BOOLEAN]
      BY <2>2 DEF NoActive
    <3>3. NoReport \in [status : Status, version : Nat]
      BY DEF NoReport, Status
    <3>4. active' \in [Task -> [version : Nat, terminal : BOOLEAN, cancel : BOOLEAN]]
      BY <2>2, <3>1, <3>2
    <3>5. report' \in [Task -> [status : Status, version : Nat]]
      BY <2>2, <3>1, <3>3
    <3>6. pc' \in [Task -> Steps] /\ run' \in [Task -> Nat] /\ handling' \in [Task -> BOOLEAN]
      BY <2>2, <3>1 DEF Steps
    <3> QED
      BY <1>3, <2>1, <3>4, <3>5, <3>6, LinkTyped DEF ReadExecute, managerVars
  <2> QED
    BY <2>3, <2>4
<1>4. CASE ReadRequest
  <2>1. reader' \in ReaderStates
    BY <1>1, <1>4 DEF ReadRequest, Message, ReaderStates, Reading
  <2> QED
    BY <1>1, <1>4, <2>1, LinkTyped DEF ReadRequest, managerVars, workerVars
<1>5. CASE Resync
  <2>1. reader # Reading
    BY <1>5 DEF Resync, Reading
  <2>2. active' \in [Task -> [version : Nat, terminal : BOOLEAN, cancel : BOOLEAN]]
    <3>1. reader.task \in Task
      BY <1>2, <2>1
    <3>2. held[reader.task].version \in Nat
      BY <3>1
    <3>3. Observe(reader.task, held[reader.task].version)
            \in [Task -> [version : Nat, terminal : BOOLEAN, cancel : BOOLEAN]]
      BY <3>1, <3>2, ObserveTyped
    <3>4. \/ active' = Observe(reader.task, held[reader.task].version)
          \/ active' = active
      BY <1>5 DEF Resync
    <3> QED
      BY <3>3, <3>4
  <2>3. reader' \in ReaderStates
    BY <1>2, <1>5, <2>1 DEF Resync, ReaderStates
  <2> QED
    BY <1>5, <2>2, <2>3, LinkTyped DEF Resync, managerVars, streamVars
<1>6. CASE Mark
  <2>1. reader # Reading
    BY <1>6 DEF Mark, Reading
  <2>2. active' \in [Task -> [version : Nat, terminal : BOOLEAN, cancel : BOOLEAN]]
    BY <1>2, <1>6, <2>1 DEF Mark
  <2> QED
    BY <1>6, <2>2, LinkTyped DEF Mark, ReaderStates, managerVars, streamVars
<1> QED
  BY <1>3, <1>4, <1>5, <1>6 DEF ReaderStep

(* The steps of a worker thread.                                           *)
LEMMA WorkerTyped ==
    ASSUME TaskTypeOK, NEW k \in Task, WorkerStep(k)
    PROVE  TaskTypeOK'
<1> USE DEF TaskTypeOK, managerVars, streamVars
<1>0. /\ {"EXECUTING", "FAILED", "CANCELLED", "DONE_OK"} \subseteq Status
      /\ {"check", "finish", "action", "decide", "failed", "send", "idle"} \subseteq Steps
  BY DEF Status, Final, Steps
<1>L. UNCHANGED linkVars => StreamTypeOK'
  BY LinkTyped
<1>1. CASE Begin(k)
  BY <1>0, <1>L, <1>1, ReportsTyped DEF Begin
<1>2. CASE AlreadyTerminal(k) \/ FinishTask(k)
  BY <1>0, <1>L, <1>2 DEF AlreadyTerminal, FinishTask, AfterUpdate, Step
<1>3. CASE Count(k)
  <2>1. active[k].version + 1 \in Nat
    OBVIOUS
  <2>2. active' \in [Task -> [version : Nat, terminal : BOOLEAN, cancel : BOOLEAN]]
    BY <1>3, <2>1 DEF Count
  <2>3. report' \in [Task -> [status : Status, version : Nat]]
    BY <1>3, <2>1 DEF Count
  <2> QED
    BY <1>0, <1>L, <1>3, <2>2, <2>3 DEF Count, Step
<1>4. CASE SendOk(k)
  <2>1. held' \in [Task -> [status : Status, version : Nat]]
    BY <1>4, AppliedTyped DEF SendOk
  <2>2. Observe(k, held'[k].version)
          \in [Task -> [version : Nat, terminal : BOOLEAN, cancel : BOOLEAN]]
    BY <2>1, ObserveTyped
  <2>3. ASSUME NEW f \in [Task -> [version : Nat, terminal : BOOLEAN, cancel : BOOLEAN]],
               NEW b \in BOOLEAN
        PROVE  [f EXCEPT ![k].terminal = @ \/ b]
                 \in [Task -> [version : Nat, terminal : BOOLEAN, cancel : BOOLEAN]]
    <3>1. (f[k].terminal \/ b) \in BOOLEAN
      OBVIOUS
    <3> QED
      BY <3>1
  <2>4. (report[k].status \in Final) \in BOOLEAN
    OBVIOUS
  <2>5. active' = [Observe(k, held'[k].version) EXCEPT
                     ![k].terminal = @ \/ report[k].status \in Final]
    BY <1>4 DEF SendOk
  <2>6. active' \in [Task -> [version : Nat, terminal : BOOLEAN, cancel : BOOLEAN]]
    BY <2>2, <2>3, <2>4, <2>5, Zenon
  <2> QED
    BY <1>0, <1>L, <1>4, <2>1, <2>6 DEF SendOk, AfterUpdate, Step
<1>5. CASE SendRaises(k)
  <2>1. held' \in [Task -> [status : Status, version : Nat]]
    BY <1>5, AppliedTyped DEF SendRaises
  <2> QED
    BY <1>0, <1>L, <1>5, <2>1 DEF SendRaises, Step
<1>6. CASE Check(k)
  BY <1>0, <1>L, <1>6, ReportsTyped DEF Check, Step
<1>7. CASE Act(k)
  BY <1>0, <1>L, <1>7 DEF Act, Step
<1>8. CASE Decide(k)
  BY <1>0, <1>L, <1>8, ReportsTyped DEF Decide
<1>9. CASE Failed(k)
  BY <1>0, <1>L, <1>9, ReportsTyped DEF Failed, Step
<1> QED
  BY <1>1, <1>2, <1>3, <1>4, <1>5, <1>6, <1>7, <1>8, <1>9 DEF WorkerStep

(* Every state of the agent and of TaskManager is well typed.              *)
THEOREM TaskTypeCorrect == TaskSpec => []TaskTypeOK
<1>1. TaskInit => TaskTypeOK
  <2> SUFFICES ASSUME TaskInit PROVE TaskTypeOK
    OBVIOUS
  <2>1. StreamTypeOK
    BY ReconnectAssumption DEF TaskInit, StreamInit, StreamTypeOK, Links
  <2> QED
    BY <2>1, OperatorAssumption
    DEF TaskInit, TaskTypeOK, NoActive, NoReport, Steps, Status, ReaderStates, Reading
<1>2. TaskTypeOK /\ [TaskNext]_taskVars => TaskTypeOK'
  <2> SUFFICES ASSUME TaskTypeOK, [TaskNext]_taskVars PROVE TaskTypeOK'
    OBVIOUS
  <2>1. CASE UNCHANGED taskVars
    BY <2>1, LinkTyped DEF taskVars, managerVars, streamVars, workerVars, TaskTypeOK
  <2> QED
    BY <2>1, ManagerTyped, ReaderTyped, WorkerTyped DEF TaskNext
<1> QED
  BY <1>1, <1>2, PTL DEF TaskSpec

-----------------------------------------------------------------------------
(* Versions.                                                               *)

(* The strengthening: the counter of a task is at or above the number of   *)
(* the update its worker sent last, so the next number exceeds it.         *)
Numbered == \A k \in Task : report[k].version <= active[k].version

(* VersionsIncrease, of one step.                                          *)
VersionsKept ==
    \A k \in Task : run'[k] = run[k] =>
        /\ active'[k].version >= active[k].version
        /\ report'[k].version # report[k].version => report'[k].version > report[k].version

(* The counter only grows under observe_version.                           *)
LEMMA ObserveGrows ==
    ASSUME TaskTypeOK, NEW k \in Task, NEW v \in Nat, NEW j \in Task
    PROVE  Observe(k, v)[j].version >= active[j].version
BY DEF TaskTypeOK, Observe

(* The versions are numbers, which the comparisons below rest on.          *)
LEMMA NumbersTyped ==
    ASSUME TaskTypeOK
    PROVE  \A j \in Task : active[j].version \in Nat /\ report[j].version \in Nat /\ run[j] \in Nat
BY DEF TaskTypeOK

(* A worker's step: only Count numbers an update, only it and SendOk move  *)
(* the counter.                                                            *)
LEMMA WorkerNumbers ==
    ASSUME TaskTypeOK, Numbered, NEW k \in Task, WorkerStep(k)
    PROVE  Numbered' /\ VersionsKept
<1> USE DEF Numbered, VersionsKept
<1>0. ASSUME UNCHANGED active, \A j \in Task : report'[j].version = report[j].version
      PROVE  Numbered' /\ VersionsKept
  BY <1>0, NumbersTyped
<1>1. CASE Begin(k) \/ Check(k) \/ Decide(k) \/ Failed(k)
  <2>1. \/ UNCHANGED report
        \/ \E status \in {"EXECUTING", "FAILED", "CANCELLED", "DONE_OK"} :
              report' = [report EXCEPT ![k].status = status]
    BY <1>1 DEF Begin, Check, Decide, Failed, Reports
  <2>2. UNCHANGED active
    BY <1>1 DEF Begin, Check, Decide, Failed
  <2>3. \A j \in Task : report'[j].version = report[j].version
    <3>1. CASE UNCHANGED report
      BY <3>1
    <3>2. ASSUME NEW status, report' = [report EXCEPT ![k].status = status], NEW j \in Task
          PROVE  report'[j].version = report[j].version
      <4>1. report \in [Task -> [status : Status, version : Nat]]
        BY DEF TaskTypeOK
      <4>2. CASE j = k
        BY <3>2, <4>1, <4>2
      <4>3. CASE j # k
        BY <3>2, <4>1, <4>3
      <4> QED
        BY <4>2, <4>3
    <3> QED
      BY <2>1, <3>1, <3>2
  <2> QED
    BY <1>0, <2>2, <2>3
<1>2. CASE AlreadyTerminal(k) \/ FinishTask(k) \/ Act(k) \/ SendRaises(k)
  BY <1>0, <1>2 DEF TaskTypeOK, AlreadyTerminal, FinishTask, Act, SendRaises
<1>3. CASE Count(k)
  <2>1. active'[k].version = active[k].version + 1 /\ report'[k].version = active[k].version + 1
    BY <1>3 DEF Count, TaskTypeOK
  <2>2. \A j \in Task \ {k} : active'[j] = active[j] /\ report'[j] = report[j]
    BY <1>3 DEF Count
  <2>3. active[k].version \in Nat /\ report[k].version <= active[k].version
    BY NumbersTyped
  <2>4. Numbered'
    BY <2>1, <2>2, <2>3
  <2>5. VersionsKept
    BY <2>1, <2>2, <2>3, NumbersTyped
  <2> QED
    BY <2>4, <2>5
<1>4. CASE SendOk(k)
  <2>1. held'[k].version \in Nat
    BY <1>4, AppliedTyped DEF SendOk
  <2>2. \A j \in Task : Observe(k, held'[k].version)[j].version >= active[j].version
    BY <2>1, ObserveGrows
  <2>3. Observe(k, held'[k].version)
          \in [Task -> [version : Nat, terminal : BOOLEAN, cancel : BOOLEAN]]
    BY <2>1, ObserveTyped
  <2>4. \A j \in Task : active'[j].version = Observe(k, held'[k].version)[j].version
    BY <1>4, <2>3 DEF SendOk
  <2>5. \A j \in Task : active'[j].version \in Nat
    BY <2>3, <2>4
  <2>6. UNCHANGED report
    BY <1>4 DEF SendOk
  <2>7. \A j \in Task : active'[j].version >= active[j].version
    BY <2>2, <2>4
  <2> QED
    BY <2>5, <2>6, <2>7, NumbersTyped
<1> QED
  BY <1>1, <1>2, <1>3, <1>4 DEF WorkerStep

(* The reader starts an execution afresh, or raises a counter.             *)
LEMMA ReaderNumbers ==
    ASSUME TaskTypeOK, Numbered, ReaderStep
    PROVE  Numbered' /\ VersionsKept
<1> USE DEF Numbered, VersionsKept
<1>1. ASSUME UNCHANGED report, \A j \in Task : active'[j].version = active[j].version
      PROVE  Numbered' /\ VersionsKept
  BY <1>1, NumbersTyped
<1>2. reader # Reading => reader.task \in Task
  BY DEF TaskTypeOK, ReaderStates
<1>3. CASE ReadExecute
  <2> DEFINE k == Head(stream).task
  <2>1. CASE UNCHANGED workerVars
    BY <1>1, <2>1 DEF workerVars
  <2>2. CASE ~UNCHANGED workerVars
    <3>1. Head(stream) \in Message
      BY <1>3 DEF TaskTypeOK, ReadExecute
    <3>2. k \in Task /\ Head(stream).version \in Nat
      BY <3>1 DEF Message
    <3>3. /\ active'[k].version = Head(stream).version
          /\ report'[k].version = 0
          /\ run'[k] = run[k] + 1
      BY <1>3, <2>2, <3>2 DEF TaskTypeOK, ReadExecute, NoActive, NoReport
    <3>4. \A j \in Task \ {k} : active'[j] = active[j] /\ report'[j] = report[j]
      BY <1>3, <2>2, <3>2 DEF TaskTypeOK, ReadExecute
    <3>5. Numbered'
      BY <3>2, <3>3, <3>4
    <3>6. run'[k] # run[k]
      BY <3>2, <3>3, NumbersTyped
    <3>7. VersionsKept
      BY <3>2, <3>4, <3>6, NumbersTyped
    <3> QED
      BY <3>5, <3>7
  <2> QED
    BY <2>1, <2>2
<1>4. CASE ReadRequest
  BY <1>1, <1>4 DEF ReadRequest, workerVars
<1>5. CASE Resync
  <2>1. reader.task \in Task
    BY <1>2, <1>5 DEF Resync, Reading
  <2>2. held[reader.task].version \in Nat
    BY <2>1 DEF TaskTypeOK
  <2>3. \A j \in Task :
          Observe(reader.task, held[reader.task].version)[j].version >= active[j].version
    BY <2>1, <2>2, ObserveGrows
  <2>4. Observe(reader.task, held[reader.task].version)
          \in [Task -> [version : Nat, terminal : BOOLEAN, cancel : BOOLEAN]]
    BY <2>1, <2>2, ObserveTyped
  <2>5. \/ active' = Observe(reader.task, held[reader.task].version)
        \/ active' = active
    BY <1>5 DEF Resync
  <2>6. UNCHANGED report
    BY <1>5 DEF Resync
  <2>7. \A j \in Task : active'[j].version \in Nat /\ active'[j].version >= active[j].version
    BY <2>3, <2>4, <2>5, NumbersTyped
  <2> QED
    BY <2>6, <2>7, NumbersTyped
<1>6. CASE Mark
  <2>1. UNCHANGED report /\ \A j \in Task : active'[j].version = active[j].version
    BY <1>6 DEF TaskTypeOK, Mark
  <2> QED
    BY <1>1, <2>1
<1> QED
  BY <1>3, <1>4, <1>5, <1>6 DEF ReaderStep

(* Every step keeps the counters at or above the updates sent.             *)
LEMMA StepNumbers ==
    ASSUME TaskTypeOK, Numbered, [TaskNext]_taskVars
    PROVE  Numbered' /\ (VersionsKept \/ UNCHANGED taskVars)
<1>1. CASE UNCHANGED workerVars
  BY <1>1 DEF workerVars, Numbered, VersionsKept, TaskTypeOK
<1>2. CASE AgentCrash
  BY <1>2 DEF AgentCrash, Numbered, VersionsKept, TaskTypeOK, NoActive, NoReport
<1>3. CASE UNCHANGED taskVars
  BY <1>1, <1>3 DEF taskVars
<1>4. \/ \E k \in Task : Deliver(k)
      \/ Heartbeat \/ Reconnect \/ Disconnect \/ StopAgent
      => UNCHANGED workerVars
  BY DEF Deliver, Heartbeat, Reconnect, Disconnect, StreamGone, StopAgent
<1>5. (\E k \in Task, what \in {"cancel", "complete"} : Ask(k, what)) => UNCHANGED workerVars
  BY DEF Ask
<1> QED
  BY <1>1, <1>2, <1>3, <1>4, <1>5, WorkerNumbers, ReaderNumbers DEF TaskNext

(* The strengthening holds in every state.                                 *)
LEMMA NumbersStayBelow == TaskSpec => []Numbered
<1>1. TaskInit => Numbered
  <2> SUFFICES ASSUME TaskInit, NEW k \in Task PROVE report[k].version <= active[k].version
    BY DEF Numbered
  <2>1. report[k].version = 0 /\ active[k].version = 0
    BY DEF TaskInit, NoActive, NoReport
  <2> QED
    BY <2>1
<1>2. TaskTypeOK /\ Numbered /\ [TaskNext]_taskVars => Numbered'
  BY StepNumbers
<1> QED
  BY <1>1, <1>2, TaskTypeCorrect, PTL DEF TaskSpec

(* Within one execution of a task every update is numbered above the one   *)
(* before and the counter never goes back, whatever the reader does in     *)
(* between, whichever updates fail, and however often the task is sent.    *)
THEOREM VersionsOnlyIncrease == TaskSpec => VersionsIncrease
<1>1. TaskTypeOK /\ Numbered /\ [TaskNext]_taskVars => [VersionsKept]_taskVars
  BY StepNumbers
<1> QED
  BY <1>1, TaskTypeCorrect, NumbersStayBelow, PTL DEF TaskSpec, VersionsIncrease, VersionsKept

-----------------------------------------------------------------------------
(* Cancelling.                                                             *)

(* What CancelReachesManager needs of the calls: the version is really     *)
(* re-read.  Updates may be refused or lost, streams break, the agent die. *)
RereadsSucceed == "resync" \notin AgentFaults

(* And of the operator: a second request would raise the version again,    *)
(* after the first one's has been re-read.                                 *)
OneRequestEach == MaxAsks <= 1

(* A request of that kind for task k is on its way, or in the reader.      *)
Requested(k, what) ==
    \/ \E i \in 1..Len(stream) : stream[i].task = k /\ stream[i].type = what
    \/ reader.step # "read" /\ reader.task = k /\ reader.type = what

(* So a task is cancelled or completed, not both, and TaskManager raises   *)
(* its version no more.                                                    *)
AskedOnce(k) ==
    /\ \A what \in {"cancel", "complete"} : Requested(k, what) => asked[k] > 0
    /\ active[k].cancel => asked[k] > 0
    /\ active[k].terminal => asked[k] > 0 \/ pc[k] \in {"finish", "idle"}
    /\ ~ (Requested(k, "cancel") /\ Requested(k, "complete"))
    /\ Requested(k, "complete") => ~active[k].cancel
    /\ Requested(k, "cancel") => ~active[k].terminal \/ pc[k] \in {"finish", "idle"}

(* What the reader has re-read holds until it sets the cancel flag.        *)
Reread ==
    reader.step = "mark" /\ reader.type = "cancel" /\ SameRun =>
        held[reader.task].version <= active[reader.task].version

(* From there on the worker's next update exceeds TaskManager's version,   *)
(* and it is the CANCELLED one, unless the execution fails.                *)
Cancelling(k) ==
    /\ pc[k] \notin {"idle", "finish"} /\ active[k].cancel =>
          ~active[k].terminal /\ held[k].version <= active[k].version
    /\ pc[k] \in {"begin", "check", "action", "decide"} =>
          ~handling[k] /\ report[k].status # "CANCELLED"
    /\ pc[k] = "failed" => ~handling[k]
    /\ pc[k] \in {"report", "send", "failed"} /\ report[k].status = "CANCELLED" =>
          active[k].cancel /\ ~handling[k]
    /\ pc[k] = "send" /\ report[k].status = "CANCELLED" => report[k].version > held[k].version
    /\ pc[k] = "finish" /\ report[k].status = "CANCELLED" => held[k].status = "CANCELLED"

CancelInv == Reread /\ \A k \in Task : AskedOnce(k) /\ Cancelling(k)

(* What a worker's step leaves alone.                                      *)
LEMMA WorkerTouches ==
    ASSUME TaskTypeOK, NEW k \in Task, WorkerStep(k)
    PROVE  /\ UNCHANGED <<asked, sent, stream, reader, run>>
           /\ pc[k] # "idle"
           /\ \A j \in Task \ {k} :
                UNCHANGED <<pc[j], active[j], report[j], handling[j], held[j]>>
<1> USE DEF TaskTypeOK, managerVars, streamVars, Reports, Step
<1>1. CASE \/ Begin(k) \/ AlreadyTerminal(k) \/ Check(k) \/ Act(k) \/ Decide(k)
           \/ Failed(k) \/ FinishTask(k)
  BY <1>1 DEF Begin, AlreadyTerminal, AfterUpdate, Check, Act, Decide, Failed, FinishTask
<1>2. CASE Count(k)
  BY <1>2 DEF Count
<1>3. CASE SendOk(k)
  <2>1. UNCHANGED <<asked, sent, stream, reader, run, report, handling>> /\ pc[k] # "idle"
    BY <1>3 DEF SendOk
  <2>2. \A j \in Task \ {k} : pc'[j] = pc[j] /\ held'[j] = held[j]
    BY <1>3 DEF SendOk, AfterUpdate, Applied
  <2>3. \A j \in Task \ {k} : active'[j] = active[j]
    BY <1>3 DEF SendOk, Observe
  <2> QED
    BY <2>1, <2>2, <2>3
<1>4. CASE SendRaises(k)
  BY <1>4 DEF SendRaises, Applied
<1> QED
  BY <1>1, <1>2, <1>3, <1>4 DEF WorkerStep

(* A worker's step in terms of its own task.                               *)
LEMMA WorkerCancels ==
    ASSUME TaskTypeOK, Numbered, NEW k \in Task, Cancelling(k), WorkerStep(k)
    PROVE  /\ Cancelling(k)'
           /\ active'[k].cancel = active[k].cancel
           /\ active'[k].terminal => active[k].terminal \/ pc'[k] \in {"finish", "idle"}
           /\ held'[k].version <= held[k].version \/ held'[k].version <= active'[k].version
           /\ active'[k].version >= active[k].version
<1>0. /\ held[k].version \in Nat /\ active[k].version \in Nat /\ report[k].version \in Nat
      /\ report[k].version <= active[k].version
      /\ held \in [Task -> [status : Status, version : Nat]]
      /\ active \in [Task -> [version : Nat, terminal : BOOLEAN, cancel : BOOLEAN]]
      /\ report \in [Task -> [status : Status, version : Nat]]
      /\ pc \in [Task -> Steps] /\ handling \in [Task -> BOOLEAN]
  BY DEF TaskTypeOK, Numbered
<1>1. CASE Begin(k) \/ Check(k) \/ Decide(k) \/ Failed(k)
  <2>1. UNCHANGED <<held, active>>
    BY <1>1 DEF Begin, Check, Decide, Failed, managerVars
  <2>2. report'[k].version = report[k].version
    BY <1>0, <1>1 DEF Begin, Check, Decide, Failed, Reports
  <2>3. CASE Begin(k)
    <3>1. pc[k] = "begin" /\ pc'[k] = "report" /\ report'[k].status \in {"FAILED", "EXECUTING"}
      BY <1>0, <2>3 DEF Begin, Reports, Step
    <3> QED
      BY <1>0, <2>1, <3>1 DEF Cancelling
  <2>4. CASE Check(k)
    <3>1. /\ pc[k] = "check" /\ UNCHANGED handling
          /\ \/ active[k].cancel /\ pc'[k] = "report"
             \/ pc'[k] = "action" /\ UNCHANGED report
      BY <1>0, <2>4 DEF Check, Reports, Step
    <3> QED
      BY <1>0, <2>1, <3>1 DEF Cancelling
  <2>5. CASE Decide(k)
    <3>1. /\ pc[k] = "decide" /\ UNCHANGED handling /\ pc'[k] = "report"
          /\ report'[k].status = "CANCELLED" => active[k].cancel
      BY <1>0, <2>5 DEF Decide, Reports, Step
    <3> QED
      BY <1>0, <2>1, <3>1 DEF Cancelling
  <2>6. CASE Failed(k)
    <3>1. /\ pc[k] = "failed"
          /\ \/ active[k].terminal /\ pc'[k] = "finish" /\ UNCHANGED report
             \/ pc'[k] = "report" /\ report'[k].status = "FAILED"
      BY <1>0, <2>6 DEF Failed, Reports, Step
    <3> QED
      BY <1>0, <2>1, <3>1 DEF Cancelling
  <2> QED
    BY <1>1, <2>3, <2>4, <2>5, <2>6
<1>2. CASE AlreadyTerminal(k)
  <2>1. /\ pc[k] = "report" /\ active[k].terminal /\ UNCHANGED <<held, active, report, handling>>
        /\ \/ pc'[k] = "check" /\ ~handling[k] /\ report[k].status = "EXECUTING"
           \/ pc'[k] = "finish"
    BY <1>0, <1>2 DEF AlreadyTerminal, AfterUpdate, Step, managerVars
  <2> QED
    BY <1>0, <2>1 DEF Cancelling
<1>3. CASE Count(k)
  <2>1. /\ pc[k] = "report" /\ pc'[k] = "send" /\ UNCHANGED <<held, handling>>
        /\ active'[k].version = active[k].version + 1 /\ report'[k].version = active[k].version + 1
        /\ active'[k].cancel = active[k].cancel /\ active'[k].terminal = active[k].terminal
        /\ report'[k].status = report[k].status
    BY <1>0, <1>3 DEF Count, Step, managerVars
  <2> QED
    BY <1>0, <2>1 DEF Cancelling
<1>4. CASE SendOk(k)
  <2>1. /\ pc[k] = "send" /\ UNCHANGED <<report, handling>>
        /\ \/ pc'[k] = "check" /\ ~handling[k] /\ report[k].status = "EXECUTING"
           \/ pc'[k] = "finish"
    BY <1>0, <1>4 DEF SendOk, AfterUpdate, Step
  <2>2. \/ held'[k] = report[k] /\ report[k].version > held[k].version
        \/ held'[k] = held[k] /\ report[k].version <= held[k].version
    BY <1>0, <1>4 DEF SendOk, Applied
  <2>3. held'[k].version \in Nat
    BY <1>0, <2>2
  <2> DEFINE seen == Observe(k, held'[k].version)
  <2>4. /\ seen \in [Task -> [version : Nat, terminal : BOOLEAN, cancel : BOOLEAN]]
        /\ seen[k].version >= held'[k].version /\ seen[k].version >= active[k].version
        /\ seen[k].cancel = active[k].cancel /\ seen[k].terminal = active[k].terminal
    BY <1>0, <2>3 DEF Observe
  <2>5. active' = [seen EXCEPT ![k].terminal = @ \/ report[k].status \in Final]
    BY <1>4 DEF SendOk
  <2>6. /\ active'[k].version = seen[k].version /\ active'[k].cancel = seen[k].cancel
        /\ active'[k].terminal = (seen[k].terminal \/ report[k].status \in Final)
    <3> HIDE DEF seen
    <3> QED
      BY <2>4, <2>5
  <2>7. /\ active'[k].version >= held'[k].version /\ active'[k].version >= active[k].version
        /\ active'[k].cancel = active[k].cancel
    <3> HIDE DEF seen
    <3> QED
      BY <2>4, <2>6
  <2>8. report[k].status = "EXECUTING" => active'[k].terminal = active[k].terminal
    <3> HIDE DEF seen
    <3>1. seen[k].terminal = active[k].terminal /\ active[k].terminal \in BOOLEAN
      BY <1>0, <2>4
    <3> QED
      BY <2>6, <3>1 DEF Final
  <2> HIDE DEF seen
  <2>9. CASE pc'[k] = "finish"
    <3>1. report[k].status = "CANCELLED" => held'[k].status = "CANCELLED"
      BY <1>0, <2>1, <2>2 DEF Cancelling
    <3> QED
      BY <2>1, <2>7, <2>9, <3>1 DEF Cancelling
  <2>10. CASE pc'[k] = "check" /\ ~handling[k] /\ report[k].status = "EXECUTING"
    <3>1. active'[k].terminal = active[k].terminal
      BY <2>8, <2>10
    <3> QED
      BY <2>1, <2>3, <2>7, <2>10, <3>1 DEF Cancelling
  <2> QED
    BY <2>1, <2>9, <2>10
<1>5. CASE SendRaises(k)
  <2>1. /\ pc[k] = "send" /\ UNCHANGED <<report, handling, active>>
        /\ \/ pc'[k] = "finish" /\ handling[k]
           \/ pc'[k] = "failed" /\ ~handling[k]
        /\ \/ held'[k] = report[k] \/ held'[k] = held[k]
    BY <1>0, <1>5 DEF SendRaises, Applied, Step
  <2> QED
    BY <1>0, <2>1 DEF Cancelling
<1>6. CASE Act(k)
  <2>1. /\ pc[k] = "action" /\ UNCHANGED <<held, active, report, handling>>
        /\ pc'[k] \in {"decide", "failed"}
    BY <1>0, <1>6 DEF Act, Step, managerVars
  <2> QED
    BY <1>0, <2>1 DEF Cancelling
<1>7. CASE FinishTask(k)
  <2>1. /\ pc'[k] = "idle" /\ UNCHANGED <<held, active, report, handling>>
    BY <1>0, <1>7 DEF FinishTask, Step, managerVars
  <2> QED
    BY <1>0, <2>1 DEF Cancelling
<1> QED
  BY <1>1, <1>2, <1>3, <1>4, <1>5, <1>6, <1>7 DEF WorkerStep

(* A worker's step keeps the whole of the invariant.                       *)
LEMMA WorkerKeepsCancel ==
    ASSUME TaskTypeOK, TaskTypeOK', Numbered, CancelInv, NEW k \in Task, WorkerStep(k)
    PROVE  CancelInv'
<1>1. /\ UNCHANGED <<asked, stream, reader, run>> /\ pc[k] # "idle"
      /\ \A j \in Task \ {k} :
           UNCHANGED <<pc[j], active[j], report[j], handling[j], held[j]>>
  BY WorkerTouches
<1>2. /\ Cancelling(k)'
      /\ active'[k].cancel = active[k].cancel
      /\ active'[k].terminal => active[k].terminal \/ pc'[k] \in {"finish", "idle"}
      /\ held'[k].version <= held[k].version \/ held'[k].version <= active'[k].version
      /\ active'[k].version >= active[k].version
  BY WorkerCancels DEF CancelInv
<1>3. \A j \in Task : pc[j] \in {"finish", "idle"} => pc'[j] \in {"finish", "idle"}
  <2>1. pc[k] = "finish" => pc'[k] = "idle"
    BY DEF WorkerStep, Begin, AlreadyTerminal, Count, SendOk, SendRaises, Check, Act, Decide,
           Failed, FinishTask, Step, TaskTypeOK
  <2> QED
    BY <1>1, <2>1
<1>4. ASSUME NEW j \in Task PROVE AskedOnce(j)' /\ Cancelling(j)'
  <2>1. \A what : Requested(j, what)' <=> Requested(j, what)
    BY <1>1 DEF Requested
  <2>2. AskedOnce(j) /\ Cancelling(j)
    BY DEF CancelInv
  <2>3. AskedOnce(j)'
    <3>1. CASE j = k
      BY <1>1, <1>2, <1>3, <2>1, <2>2, <3>1 DEF AskedOnce
    <3>2. CASE j # k
      BY <1>1, <2>1, <2>2, <3>2 DEF AskedOnce
    <3> QED
      BY <3>1, <3>2
  <2>4. Cancelling(j)'
    <3>1. CASE j = k
      BY <1>2, <3>1
    <3>2. CASE j # k
      BY <1>1, <2>2, <3>2 DEF Cancelling
    <3> QED
      BY <3>1, <3>2
  <2> QED
    BY <2>3, <2>4
<1>5. Reread'
  <2> SUFFICES ASSUME reader.step = "mark", reader.type = "cancel", SameRun'
               PROVE  held'[reader.task].version <= active'[reader.task].version
    BY <1>1 DEF Reread
  <2>1. reader.task \in Task
    BY DEF TaskTypeOK, ReaderStates, Reading
  <2>2. SameRun
    BY <1>1, <2>1 DEF SameRun
  <2>3. held[reader.task].version <= active[reader.task].version
    BY <2>2 DEF CancelInv, Reread
  <2>4. /\ held[k].version \in Nat /\ active[k].version \in Nat
        /\ held'[k].version \in Nat /\ active'[k].version \in Nat
    BY DEF TaskTypeOK
  <2> QED
    BY <1>1, <1>2, <2>1, <2>3, <2>4
<1> QED
  BY <1>1, <1>4, <1>5 DEF CancelInv

(* A step that takes requests away, or none, from stream and reader and    *)
(* leaves workers and TaskManager alone.                                   *)
LEMMA FewerRequests ==
    ASSUME CancelInv, UNCHANGED <<held, asked, workerVars>>,
           \A k \in Task, what \in {"cancel", "complete"} :
               Requested(k, what)' => Requested(k, what),
           reader' = reader \/ reader'.step # "mark"
    PROVE  CancelInv'
<1>1. UNCHANGED <<held, asked, pc, run, active, report, handling>>
  BY DEF workerVars
<1>2. \A k \in Task : AskedOnce(k)' /\ Cancelling(k)'
  <2>1. ASSUME NEW k \in Task PROVE AskedOnce(k)'
    BY <1>1 DEF CancelInv, AskedOnce
  <2>2. ASSUME NEW k \in Task PROVE Cancelling(k)'
    BY <1>1 DEF CancelInv, Cancelling
  <2> QED
    BY <2>1, <2>2
<1>3. Reread'
  BY <1>1 DEF CancelInv, Reread, SameRun
<1> QED
  BY <1>2, <1>3 DEF CancelInv

(* What the operator asks joins the requests on their way; nobody asked    *)
(* about that task before.                                                 *)
LEMMA AskKeepsCancel ==
    ASSUME OneRequestEach, TaskTypeOK, CancelInv,
           NEW k \in Task, NEW what \in {"cancel", "complete"}, Ask(k, what)
    PROVE  CancelInv'
<1>0. asked[k] \in Nat /\ asked[k] < MaxAsks /\ MaxAsks \in Nat
  BY OperatorAssumption DEF Ask, TaskTypeOK
<1>1. /\ asked[k] = 0 /\ asked'[k] > 0 /\ held[k].status \notin Final
      /\ UNCHANGED <<reader, pc, run, active, report, handling>>
      /\ \/ stream' = Append(stream, [type |-> what, task |-> k, version |-> 0])
         \/ stream' = stream
      /\ \A j \in Task \ {k} : held'[j] = held[j] /\ asked'[j] = asked[j]
  BY <1>0 DEF OneRequestEach, Ask, workerVars, TaskTypeOK
<1>2. ASSUME NEW j \in Task, NEW w \in {"cancel", "complete"}, Requested(j, w)'
      PROVE  Requested(j, w) \/ (j = k /\ w = what)
  <2>0. CASE stream' = stream
    BY <1>1, <1>2, <2>0 DEF Requested
  <2>1. CASE /\ stream' = Append(stream, [type |-> what, task |-> k, version |-> 0])
             /\ \E i \in 1..Len(stream') : stream'[i].task = j /\ stream'[i].type = w
    <3>1. PICK i \in 1..Len(stream') : stream'[i].task = j /\ stream'[i].type = w
      BY <2>1
    <3>2. stream \in Seq(Message)
      BY DEF TaskTypeOK
    <3>3. CASE i \in 1..Len(stream)
      <4>1. stream'[i] = stream[i]
        BY <2>1, <3>2, <3>3
      <4> QED
        BY <3>1, <3>3, <4>1 DEF Requested
    <3>4. CASE i = Len(stream) + 1
      <4>1. stream'[i] = [type |-> what, task |-> k, version |-> 0]
        BY <2>1, <3>2, <3>4
      <4> QED
        BY <3>1, <4>1
    <3> QED
      BY <2>1, <3>1, <3>2, <3>3, <3>4
  <2> QED
    BY <1>1, <1>2, <2>0, <2>1 DEF Requested
<1>3. /\ ~Requested(k, "cancel") /\ ~Requested(k, "complete") /\ ~active[k].cancel
      /\ active[k].terminal => pc[k] \in {"finish", "idle"}
  BY <1>1 DEF CancelInv, AskedOnce
<1>4. ASSUME NEW j \in Task PROVE AskedOnce(j)'
  <2>1. AskedOnce(j)
    BY DEF CancelInv
  <2>2. CASE j = k
    BY <1>1, <1>2, <1>3, <2>2 DEF AskedOnce
  <2>3. CASE j # k
    BY <1>1, <1>2, <2>1, <2>3 DEF AskedOnce
  <2> QED
    BY <2>2, <2>3
<1>5. ASSUME NEW j \in Task PROVE Cancelling(j)'
  <2>1. Cancelling(j)
    BY DEF CancelInv
  <2>2. CASE j = k
    <3>1. ~(pc[k] \in {"report", "send", "failed"} /\ report[k].status = "CANCELLED")
      BY <1>3, <2>1, <2>2 DEF Cancelling
    <3>2. ~(pc[k] = "finish" /\ report[k].status = "CANCELLED")
      BY <1>1, <2>1, <2>2 DEF Cancelling, Final
    <3> QED
      BY <1>1, <1>3, <2>1, <2>2, <3>1, <3>2 DEF Cancelling
  <2>3. CASE j # k
    BY <1>1, <2>1, <2>3 DEF Cancelling
  <2> QED
    BY <2>2, <2>3
<1>6. Reread'
  <2> SUFFICES ASSUME reader.step = "mark", reader.type = "cancel", SameRun'
               PROVE  held'[reader.task].version <= active'[reader.task].version
    BY <1>1 DEF Reread
  <2>1. reader.task \in Task
    BY DEF TaskTypeOK, ReaderStates, Reading
  <2>2. Requested(reader.task, "cancel")
    BY DEF Requested
  <2>3. reader.task # k
    BY <1>3, <2>2
  <2>4. SameRun
    BY <1>1 DEF SameRun
  <2> QED
    BY <1>1, <2>1, <2>3, <2>4 DEF CancelInv, Reread
<1> QED
  BY <1>4, <1>5, <1>6 DEF CancelInv

(* The other steps of TaskManager, of the stream and of the process.       *)
LEMMA ManagerKeepsCancel ==
    ASSUME OneRequestEach, TaskTypeOK, CancelInv,
           \/ \E k \in Task : Deliver(k)
           \/ \E k \in Task, what \in {"cancel", "complete"} : Ask(k, what)
           \/ Heartbeat \/ Reconnect \/ Disconnect \/ StopAgent \/ AgentCrash
    PROVE  CancelInv'
<1>1. CASE \E k \in Task : Deliver(k)
  <2>1. PICK k \in Task : Deliver(k)
    BY <1>1
  <2>2. UNCHANGED <<held, asked, reader, workerVars>>
    BY <2>1 DEF Deliver
  <2>3. ASSUME NEW j \in Task, NEW w \in {"cancel", "complete"}, Requested(j, w)'
        PROVE  Requested(j, w)
    <3>1. stream \in Seq(Message)
      BY DEF TaskTypeOK
    <3>2. /\ Len(stream') = Len(stream) + 1 /\ stream'[Len(stream) + 1].type = "execute"
          /\ \A i \in 1..Len(stream) : stream'[i] = stream[i]
      BY <2>1, <3>1 DEF Deliver
    <3>3. \A i \in 1..Len(stream') : stream'[i].type = w => i \in 1..Len(stream)
      BY <3>1, <3>2
    <3> QED
      BY <2>2, <2>3, <3>2, <3>3 DEF Requested
  <2> QED
    BY <2>2, <2>3, FewerRequests
<1>2. CASE \E k \in Task, what \in {"cancel", "complete"} : Ask(k, what)
  BY <1>2, AskKeepsCancel
<1>3. CASE Heartbeat \/ Reconnect \/ StopAgent
  <2>1. UNCHANGED <<held, asked, stream, reader, workerVars>>
    BY <1>3 DEF Heartbeat, Reconnect, StopAgent, managerVars
  <2>2. \A j \in Task, w \in {"cancel", "complete"} : Requested(j, w)' => Requested(j, w)
    BY <2>1 DEF Requested
  <2> QED
    BY <2>1, <2>2, FewerRequests
<1>4. CASE Disconnect
  <2>1. stream' = <<>> /\ UNCHANGED <<held, asked, reader, workerVars>>
    BY <1>4 DEF Disconnect, StreamGone
  <2>2. \A j \in Task, w \in {"cancel", "complete"} : Requested(j, w)' => Requested(j, w)
    BY <2>1 DEF Requested
  <2> QED
    BY <2>1, <2>2, FewerRequests
<1>5. CASE AgentCrash
  <2>1. /\ stream' = <<>> /\ reader'.step = "read"
        /\ \A k \in Task : /\ pc'[k] = "idle" /\ ~active'[k].cancel /\ ~active'[k].terminal
    BY <1>5 DEF AgentCrash, Reading, NoActive
  <2>2. \A k \in Task, w \in {"cancel", "complete"} : ~Requested(k, w)'
    BY <2>1 DEF Requested
  <2>3. \A k \in Task : AskedOnce(k)' /\ Cancelling(k)'
    BY <2>1, <2>2 DEF AskedOnce, Cancelling
  <2>4. Reread'
    BY <2>1 DEF Reread
  <2> QED
    BY <2>3, <2>4 DEF CancelInv
<1> QED
  BY <1>1, <1>2, <1>3, <1>4, <1>5

(* The reader's steps: it re-reads the version, then sets the flag.        *)
LEMMA ReaderKeepsCancel ==
    ASSUME TaskTypeOK, CancelInv, RereadsSucceed, ReaderStep
    PROVE  CancelInv'
<1>0. /\ held \in [Task -> [status : Status, version : Nat]]
      /\ active \in [Task -> [version : Nat, terminal : BOOLEAN, cancel : BOOLEAN]]
      /\ report \in [Task -> [status : Status, version : Nat]]
      /\ pc \in [Task -> Steps] /\ run \in [Task -> Nat] /\ handling \in [Task -> BOOLEAN]
      /\ stream \in Seq(Message)
  BY DEF TaskTypeOK
<1>H. stream # <<>> =>
        /\ Head(stream) = stream[1] /\ Head(stream) \in Message /\ 1 \in 1..Len(stream)
        /\ \A i \in 1..Len(Tail(stream)) :
              i + 1 \in 1..Len(stream) /\ Tail(stream)[i] = stream[i + 1]
  BY <1>0
<1>R. reader # Reading =>
        /\ reader.step \in {"resync", "mark"} /\ reader.type \in {"cancel", "complete"}
        /\ reader.task \in Task
        /\ reader \in [step : {"resync", "mark"}, type : {"cancel", "complete"},
                       task : Task, run : Nat]
  BY DEF TaskTypeOK, ReaderStates
<1>1. CASE ReadExecute
  <2>1. /\ stream # <<>> /\ stream' = Tail(stream) /\ UNCHANGED <<held, asked, reader>>
        /\ reader.step = "read"
    BY <1>1 DEF ReadExecute, managerVars, Reading
  <2>2. \A j \in Task, w \in {"cancel", "complete"} : Requested(j, w)' => Requested(j, w)
    BY <1>H, <2>1 DEF Requested
  <2>3. CASE UNCHANGED workerVars
    BY <2>1, <2>2, <2>3, FewerRequests
  <2>4. CASE ~UNCHANGED workerVars
    <3> DEFINE k == Head(stream).task
    <3>1. k \in Task /\ pc[k] = "idle"
      BY <1>1, <1>H, <2>1, <2>4 DEF ReadExecute, Message
    <3>2. /\ pc'[k] = "begin" /\ ~active'[k].cancel /\ ~active'[k].terminal
          /\ report'[k].status = "SENT" /\ ~handling'[k]
      <4>1. /\ pc' = [pc EXCEPT ![k] = "begin"]
            /\ active' = [active EXCEPT ![k] = [NoActive EXCEPT !.version = Head(stream).version]]
            /\ report' = [report EXCEPT ![k] = NoReport]
            /\ handling' = [handling EXCEPT ![k] = FALSE]
        BY <1>1, <2>4 DEF ReadExecute
      <4>2. active'[k] = [NoActive EXCEPT !.version = Head(stream).version]
        BY <1>0, <3>1, <4>1
      <4>3. ~active'[k].cancel /\ ~active'[k].terminal
        BY <4>2 DEF NoActive
      <4> HIDE DEF k
      <4> QED
        BY <1>0, <3>1, <4>1, <4>3 DEF NoReport
    <3>3. \A j \in Task \ {k} :
            UNCHANGED <<pc[j], active[j], report[j], handling[j], held[j]>>
      BY <1>0, <1>1, <2>1, <2>4, <3>1 DEF ReadExecute
    <3>4. ASSUME NEW j \in Task PROVE AskedOnce(j)' /\ Cancelling(j)'
      <4>1. AskedOnce(j) /\ Cancelling(j)
        BY DEF CancelInv
      <4>2. CASE j = k
        BY <2>1, <2>2, <3>2, <4>1, <4>2 DEF AskedOnce, Cancelling
      <4>3. CASE j # k
        BY <2>1, <2>2, <3>3, <4>1, <4>3 DEF AskedOnce, Cancelling
      <4> QED
        BY <4>2, <4>3
    <3>5. Reread'
      BY <2>1 DEF Reread
    <3> QED
      BY <3>4, <3>5 DEF CancelInv
  <2> QED
    BY <2>3, <2>4
<1>2. CASE ReadRequest
  <2>1. /\ stream # <<>> /\ stream' = Tail(stream) /\ UNCHANGED <<held, asked, workerVars>>
        /\ reader.step = "read"
        /\ \/ reader'.step = "read"
           \/ /\ reader'.step = "resync" /\ reader'.task = Head(stream).task
              /\ reader'.type = Head(stream).type
    BY <1>2 DEF ReadRequest, managerVars, Reading
  <2>2. \A j \in Task, w \in {"cancel", "complete"} : Requested(j, w)' => Requested(j, w)
    BY <1>H, <2>1 DEF Requested
  <2> QED
    BY <2>1, <2>2, FewerRequests
<1>3. CASE Resync
  <2> DEFINE r == reader.task
  <2>1. /\ UNCHANGED <<held, asked, stream, pc, run, report, handling>>
        /\ reader.step = "resync" /\ reader # Reading
        /\ reader' = [reader EXCEPT !.step = "mark"]
        /\ active' = IF SameRun THEN Observe(r, held[r].version) ELSE active
    BY <1>3 DEF Resync, RereadsSucceed, managerVars, streamVars, Reading
  <2>2. reader'.step = "mark" /\ reader'.type = reader.type
        /\ reader'.task = r /\ reader'.run = reader.run /\ r \in Task
    BY <1>R, <2>1
  <2>3. /\ \A j \in Task : /\ active'[j].cancel = active[j].cancel
                           /\ active'[j].terminal = active[j].terminal
                           /\ active'[j].version \in Nat
                           /\ active'[j].version >= active[j].version
        /\ SameRun => active'[r].version >= held[r].version
    BY <1>0, <2>1, <2>2 DEF Observe
  <2>4. \A j \in Task, w \in {"cancel", "complete"} : Requested(j, w)' => Requested(j, w)
    BY <2>1, <2>2 DEF Requested
  <2>5. ASSUME NEW j \in Task PROVE AskedOnce(j)' /\ Cancelling(j)'
    <3>1. AskedOnce(j) /\ Cancelling(j)
      BY DEF CancelInv
    <3>2. AskedOnce(j)'
      BY <2>1, <2>3, <2>4, <3>1 DEF AskedOnce
    <3>3. held[j].version \in Nat /\ active[j].version \in Nat
      BY <1>0
    <3>4. Cancelling(j)'
      BY <2>1, <2>3, <3>1, <3>3 DEF Cancelling
    <3> QED
      BY <3>2, <3>4
  <2>6. Reread'
    <3>1. SameRun' => SameRun
      BY <2>1, <2>2 DEF SameRun
    <3>2. held[r].version \in Nat /\ active'[r].version \in Nat
      BY <1>0, <2>2, <2>3
    <3> QED
      BY <2>1, <2>2, <2>3, <3>1, <3>2 DEF Reread
  <2> QED
    BY <2>5, <2>6 DEF CancelInv
<1>4. CASE Mark
  <2> DEFINE r == reader.task
  <2>1. /\ UNCHANGED <<held, asked, stream, pc, run, report, handling>>
        /\ reader.step = "mark" /\ reader # Reading /\ reader'.step = "read"
    BY <1>4 DEF Mark, managerVars, streamVars, Reading
  <2>2. r \in Task /\ reader.type \in {"cancel", "complete"} /\ Requested(r, reader.type)
    BY <1>R, <2>1 DEF Requested
  <2>3. \A j \in Task, w \in {"cancel", "complete"} : Requested(j, w)' => Requested(j, w)
    BY <2>1 DEF Requested
  <2>4. \A j \in Task : active'[j].version = active[j].version
    BY <1>0, <1>4, <2>2 DEF Mark
  <2>5. \A j \in Task :
          \/ active'[j].cancel = active[j].cancel /\ active'[j].terminal = active[j].terminal
          \/ /\ j = r /\ SameRun /\ reader.type = "cancel"
             /\ active'[j].cancel /\ active'[j].terminal = active[j].terminal
          \/ /\ j = r /\ SameRun /\ reader.type = "complete"
             /\ active'[j].cancel = active[j].cancel /\ active'[j].terminal
    BY <1>0, <1>4, <2>2 DEF Mark
  <2>6. ASSUME NEW j \in Task PROVE AskedOnce(j)' /\ Cancelling(j)'
    <3>1. AskedOnce(j) /\ Cancelling(j)
      BY DEF CancelInv
    <3>2. j = r /\ SameRun /\ reader.type = "cancel" =>
            held[j].version <= active[j].version
      BY <2>1 DEF CancelInv, Reread
    <3>3. AskedOnce(j)'
      BY <2>1, <2>2, <2>3, <2>5, <3>1 DEF AskedOnce
    <3>4. Cancelling(j)'
      BY <2>1, <2>2, <2>4, <2>5, <3>1, <3>2 DEF AskedOnce, Cancelling
    <3> QED
      BY <3>3, <3>4
  <2>7. Reread'
    BY <2>1 DEF Reread
  <2> QED
    BY <2>6, <2>7 DEF CancelInv
<1> QED
  BY <1>1, <1>2, <1>3, <1>4 DEF ReaderStep

(* A cancel the worker has honoured reaches TaskManager whenever the       *)
(* version is really re-read before the flag is set and the operator asks  *)
(* at most once of each task: whatever the workers do meanwhile, whichever *)
(* updates are refused or lost, however often streams break and the daemon *)
(* dies.                                                                   *)
THEOREM CancelsReachManager ==
    ASSUME RereadsSucceed, OneRequestEach
    PROVE  TaskSpec => []CancelReachesManager
<1>1. TaskInit => CancelInv
  <2> SUFFICES ASSUME TaskInit PROVE CancelInv
    OBVIOUS
  <2>1. /\ stream = <<>> /\ reader.step = "read"
        /\ \A k \in Task : pc[k] = "idle" /\ ~active[k].cancel /\ ~active[k].terminal
    BY DEF TaskInit, Reading, NoActive
  <2>2. \A k \in Task, w \in {"cancel", "complete"} : ~Requested(k, w)
    BY <2>1 DEF Requested
  <2> QED
    BY <2>1, <2>2 DEF CancelInv, Reread, AskedOnce, Cancelling
<1>2. TaskTypeOK /\ TaskTypeOK' /\ Numbered /\ CancelInv /\ [TaskNext]_taskVars => CancelInv'
  <2> SUFFICES ASSUME TaskTypeOK, TaskTypeOK', Numbered, CancelInv, [TaskNext]_taskVars
               PROVE  CancelInv'
    OBVIOUS
  <2>1. CASE UNCHANGED taskVars
    <3>1. UNCHANGED <<held, asked, stream, reader, workerVars>>
      BY <2>1 DEF taskVars, managerVars, streamVars
    <3>2. \A j \in Task, w \in {"cancel", "complete"} : Requested(j, w)' => Requested(j, w)
      BY <3>1 DEF Requested
    <3> QED
      BY <3>1, <3>2, FewerRequests
  <2>2. CASE ReaderStep
    BY <2>2, RereadsSucceed, ReaderKeepsCancel
  <2>3. CASE \E k \in Task : WorkerStep(k)
    BY <2>3, WorkerKeepsCancel
  <2> QED
    BY <2>1, <2>2, <2>3, ManagerKeepsCancel DEF TaskNext
<1>3. CancelInv => CancelReachesManager
  BY DEF CancelInv, Cancelling, CancelReachesManager
<1> QED
  BY <1>1, <1>2, <1>3, TaskTypeCorrect, NumbersStayBelow, PTL DEF TaskSpec

-----------------------------------------------------------------------------
(* The reconnect loop.                                                     *)

(* A set of numbers that is not empty has a least one.                     *)
LEMMA LeastOf ==
    ASSUME NEW T \in SUBSET Nat, T # {}
    PROVE  \E x \in T : \A y \in T : ~ (y < x)
<1> DEFINE R == OpToRel(<, Nat)
<1>1. IsWellFoundedOn(R, Nat)
  BY NatLessThanWellFounded
<1>2. \E x \in T : \A y \in T : <<y, x>> \notin R
  <2> HIDE DEF R
  <2> QED
    BY <1>1, WFMin
<1>3. \A x, y \in Nat : <<y, x>> \in R <=> y < x
  BY DEF OpToRel
<1> HIDE DEF R
<1> QED
  BY <1>2, <1>3

(* Induction over the natural numbers, of a set of them.                   *)
LEMMA SetInduction ==
    ASSUME NEW S \in SUBSET Nat, 0 \in S, \A n \in S : n + 1 \in S
    PROVE  S = Nat
<1> SUFFICES ASSUME Nat \ S # {} PROVE FALSE
  OBVIOUS
<1>1. PICK x \in Nat \ S : \A y \in Nat \ S : ~(y < x)
  BY LeastOf
<1>2. x # 0 /\ x - 1 \in Nat /\ x - 1 < x
  BY <1>1
<1>3. x - 1 \in S
  BY <1>1, <1>2
<1> QED
  BY <1>1, <1>2, <1>3

(* The body of Backoff, and its solutions up to the n-th wait.             *)
Wait(f, n) == IF n <= 1 THEN ReconnectBase ELSE Lesser(2 * f[n - 1], ReconnectCap)

Upto(n) == {g \in [0..n -> Nat] : \A i \in 0..n : g[i] = Wait(g, i)}

(* One wait is a number if the wait before it is.                          *)
LEMMA WaitTyped ==
    \A g, i : i \in Nat /\ (i > 1 => g[i - 1] \in Nat) => Wait(g, i) \in Nat
BY ReconnectAssumption DEF Wait, Lesser

(* Two solutions agree where both are defined ...                          *)
LEMMA UptoUnique ==
    ASSUME NEW m \in Nat, NEW n \in Nat, NEW g \in Upto(m), NEW h \in Upto(n),
           NEW i \in Nat, i <= m, i <= n
    PROVE  g[i] = h[i]
<1> DEFINE S == {j \in Nat : j <= m /\ j <= n => g[j] = h[j]}
<1>0. \A j \in Nat : j <= m /\ j <= n => g[j] = Wait(g, j) /\ h[j] = Wait(h, j)
  BY DEF Upto
<1>1. 0 \in S
  BY <1>0 DEF Wait
<1>2. ASSUME NEW j \in S PROVE j + 1 \in S
  BY <1>0 DEF Wait
<1>3. S = Nat
  <2> HIDE DEF S
  <2>1. S \in SUBSET Nat
    BY DEF S
  <2> QED
    BY <1>1, <1>2, <2>1, SetInduction
<1> QED
  BY <1>3

(* ... and there is one up to every number.                                *)
LEMMA UptoExists == \A n \in Nat : Upto(n) # {}
<1> DEFINE S == {n \in Nat : Upto(n) # {}}
<1>1. 0 \in S
  <2> DEFINE g == [i \in 0..0 |-> ReconnectBase]
  <2>1. g \in Upto(0)
    BY ReconnectAssumption DEF Upto, Wait
  <2> QED
    BY <2>1
<1>2. ASSUME NEW n \in S PROVE n + 1 \in S
  <2>1. PICK g : g \in Upto(n)
    BY <1>2
  <2> DEFINE h == [i \in 0..(n + 1) |-> IF i <= n THEN g[i] ELSE Wait(g, i)]
  <2>2. g \in [0..n -> Nat] /\ \A i \in 0..n : g[i] = Wait(g, i)
    BY <2>1 DEF Upto
  <2>3. \A i \in 0..(n + 1) : h[i] \in Nat
    BY <2>2, WaitTyped
  <2>4. \A i \in 0..(n + 1) : Wait(h, i) = Wait(g, i)
    BY DEF Wait
  <2>5. h \in Upto(n + 1)
    BY <2>2, <2>3, <2>4 DEF Upto
  <2> QED
    BY <2>5
<1>3. S = Nat
  <2> HIDE DEF S
  <2>1. S \in SUBSET Nat
    BY DEF S
  <2> QED
    BY <1>1, <1>2, <2>1, SetInduction
<1> QED
  BY <1>3

(* So the recursive definition of Backoff defines what it says.            *)
LEMMA BackoffUnfolds ==
    /\ Backoff \in [Nat -> Nat]
    /\ \A n \in Nat : Backoff[n] = Wait(Backoff, n)
<1> DEFINE g == [n \in Nat |-> CHOOSE h \in Upto(n) : TRUE]
           f == [n \in Nat |-> g[n][n]]
<1>1. \A n \in Nat : g[n] \in Upto(n)
  BY UptoExists
<1>2. ASSUME NEW n \in Nat PROVE f[n] = Wait(f, n) /\ f[n] \in Nat
  <2>1. g[n][n] \in Nat /\ g[n][n] = Wait(g[n], n)
    <3> HIDE DEF g
    <3>1. ASSUME NEW u \in Upto(n) PROVE u[n] \in Nat /\ u[n] = Wait(u, n)
      <4>1. u \in [0..n -> Nat] /\ n \in 0..n
        BY DEF Upto
      <4>2. u[n] = Wait(u, n)
        BY <4>1 DEF Upto
      <4> QED
        BY <4>1, <4>2
    <3>2. g[n] \in Upto(n)
      BY <1>1
    <3> QED
      BY <3>1, <3>2
  <2>2. ASSUME n > 1 PROVE g[n][n - 1] = f[n - 1]
    <3>1. n - 1 \in Nat /\ n - 1 <= n
      BY <2>2
    <3> HIDE DEF g
    <3>2. g[n - 1] \in Upto(n - 1) /\ g[n] \in Upto(n)
      BY <1>1, <3>1
    <3>3. g[n][n - 1] = g[n - 1][n - 1]
      BY <3>1, <3>2, UptoUnique
    <3> QED
      BY <3>1, <3>3
  <2> HIDE DEF g
  <2>3. f[n] = g[n][n]
    OBVIOUS
  <2> HIDE DEF f
  <2> QED
    BY <2>1, <2>2, <2>3 DEF Wait
<1>3. f = [n \in Nat |-> Wait(f, n)]
  <2>1. f = [n \in Nat |-> f[n]]
    OBVIOUS
  <2> HIDE DEF f
  <2> QED
    BY <1>2, <2>1
<1>4. Backoff = [n \in Nat |-> Wait(Backoff, n)]
  <2> HIDE DEF f
  <2>1. f = [n \in Nat |-> IF n <= 1 THEN ReconnectBase
                          ELSE Lesser(2 * f[n - 1], ReconnectCap)]
    BY <1>3 DEF Wait
  <2>2. Backoff = [n \in Nat |-> IF n <= 1 THEN ReconnectBase
                                ELSE Lesser(2 * Backoff[n - 1], ReconnectCap)]
    BY <2>1, Zenon DEF Backoff
  <2> QED
    BY <2>2, Zenon DEF Wait
<1> DEFINE S == {n \in Nat : Backoff[n] \in Nat}
<1>5. \A n \in Nat : Backoff[n] = Wait(Backoff, n)
  BY <1>4
<1>6. 0 \in S
  BY <1>5, ReconnectAssumption DEF Wait
<1>7. ASSUME NEW n \in S PROVE n + 1 \in S
  BY <1>5, WaitTyped
<1>8. S = Nat
  <2> HIDE DEF S
  <2>1. S \in SUBSET Nat
    BY DEF S
  <2> QED
    BY <1>6, <1>7, <2>1, SetInduction
<1> QED
  BY <1>4, <1>5, <1>8

(* The delay is the one the next outage calls for, and during a wait the   *)
(* one this outage calls for; only a live stream counts as connected.      *)
BackoffInv ==
    /\ link \in {"listen", "open", "live"} => delay = Backoff[silent + 1]
    /\ link = "wait" => silent >= 1 /\ delay = Backoff[silent]
    /\ connected <=> link = "live"

(* Every step of the loop keeps that.                                      *)
LEMMA LoopKeepsBackoff ==
    ASSUME StreamTypeOK, BackoffInv,
           \/ Received \/ ReceivedTooLate \/ Lost \/ LoopStep \/ Stop \/ StreamRestarts
           \/ UNCHANGED linkVars
    PROVE  BackoffInv'
<1>1. /\ link \in Links /\ silent \in Nat /\ delay \in Nat
      /\ connected \in BOOLEAN
  BY DEF StreamTypeOK
<1>2. /\ Backoff[0 + 1] = ReconnectBase
      /\ \A n \in Nat : n >= 1 => Backoff[n + 1] = Lesser(2 * Backoff[n], ReconnectCap)
  BY BackoffUnfolds DEF Wait
<1>3. CASE Received \/ StreamRestarts
  <2>1. /\ link' \in {"live", "listen"} /\ delay' = ReconnectBase /\ silent' = 0
        /\ connected' <=> link' = "live"
    BY <1>3 DEF Received, StreamRestarts
  <2>2. delay' = Backoff[silent' + 1]
    BY <1>2, <2>1
  <2> QED
    BY <2>1, <2>2 DEF BackoffInv
<1>4. CASE ReceivedTooLate
  BY <1>4 DEF ReceivedTooLate, BackoffInv
<1>5. CASE Lost
  BY <1>1, <1>5 DEF Lost, BackoffInv
<1>6. CASE Listen
  BY <1>6 DEF Listen, BackoffInv
<1>7. CASE WaitOver
  BY <1>1, <1>2, <1>7 DEF WaitOver, BackoffInv
<1>8. CASE Stop \/ UNCHANGED linkVars
  BY <1>8 DEF Stop, linkVars, BackoffInv
<1> QED
  BY <1>3, <1>4, <1>5, <1>6, <1>7, <1>8 DEF LoopStep

(* "With exponential backoff ... so a flapping endpoint is not hammered":  *)
(* for every base and cap and any number of outages, each wait is the one  *)
(* the streams lost since the last message call for, through the messages, *)
(* the workers, a stop and the death of the daemon.                        *)
THEOREM BackoffFollows == TaskSpec => []BackoffFollowsOutages
<1>1. TaskInit => BackoffInv
  <2>1. Backoff[0 + 1] = ReconnectBase
    BY BackoffUnfolds DEF Wait
  <2> QED
    BY <2>1 DEF TaskInit, StreamInit, BackoffInv
<1>2. TaskTypeOK /\ BackoffInv /\ [TaskNext]_taskVars => BackoffInv'
  <2> SUFFICES ASSUME TaskTypeOK, BackoffInv, [TaskNext]_taskVars PROVE BackoffInv'
    OBVIOUS
  <2>1. \/ Received \/ ReceivedTooLate \/ Lost \/ LoopStep \/ Stop \/ StreamRestarts
        \/ UNCHANGED linkVars
    <3>1. ASSUME NEW k \in Task, Deliver(k) \/ WorkerStep(k) PROVE UNCHANGED linkVars
      BY <3>1 DEF Deliver, WorkerStep, Begin, AlreadyTerminal, Count, SendOk, SendRaises, Check,
                  Act, Decide, Failed, FinishTask, streamVars
    <3>2. ASSUME NEW k \in Task, NEW what \in {"cancel", "complete"}, Ask(k, what)
          PROVE  UNCHANGED linkVars
      BY <3>2 DEF Ask
    <3>3. CASE ReaderStep
      BY <3>3 DEF ReaderStep, ReadExecute, ReadRequest, Resync, Mark, streamVars
    <3>4. CASE Heartbeat \/ Reconnect \/ Disconnect \/ StopAgent \/ AgentCrash
      BY <3>4 DEF Heartbeat, Reconnect, Disconnect, StopAgent, AgentCrash
    <3>5. CASE UNCHANGED taskVars
      BY <3>5 DEF taskVars, streamVars
    <3> QED
      BY <3>1, <3>2, <3>3, <3>4, <3>5 DEF TaskNext
  <2> QED
    BY <2>1, LoopKeepsBackoff DEF TaskTypeOK
<1>3. BackoffInv => BackoffFollowsOutages
  BY DEF BackoffInv, BackoffFollowsOutages
<1> QED
  BY <1>1, <1>2, <1>3, TaskTypeCorrect, PTL DEF TaskSpec
=============================================================================
