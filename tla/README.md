# Verification of the lattice-cam service

TLA+ models of `src/src/lattice_cam`, the agent that runs on a Raspberry Pi, publishes the Pi and its camera as a
Lattice entity, and starts and stops a video stream on an operator's request. TLC checks the models on small instances;
TLAPS proves the main safety properties of the camera control, the task agent and the timing of publishes for every
instance. Paths below are relative to `src/src/lattice_cam` unless they start with `src/`.

## The system

One daemon (`main.py`, run by systemd with `Restart=always`), one MediaMTX process started and stopped by shell
commands, and three remote services of Lattice: VideoManager (ingresses), EntityManager (the entity) and TaskManager
(tasks).

| Component | Code | State | Operations | What makes it correct |
|---|---|---|---|---|
| Camera control | `camera/control.py` | `_desired_on`, `_in_transition`, `_closed`, the transition lock | `start`, `stop`, `recover`, `shutdown` | transitions never overlap, every one ends and frees the lock; MediaMTX pushes at the live ingress we own; nothing starts again after the shutdown |
| Video ingress | `camera/ingress.py` | `_info`; the persisted record; the SRT_TARGET file | `create`, `delete`, `recover` | a live ingress is always known to someone who will archive it |
| State store | `state.py` | a dictionary and its JSON file | `get`, `set`, `delete` | the file is whole at every moment and follows memory, or keeps its last contents |
| Entity identity | `entity/identity.py`, `main._created_time` | two keys of the state file | resolve, date | the id and the creation time stay for the life of the asset |
| Pipeline commands | `camera/pipeline.py` | none | start and stop command, 30 s timeout | an error is reported even when the command took effect |
| Pipeline probe | `camera/pipeline.py` | byte baseline, cached status | `status` | "pushing" means bytes really moved |
| Runtime | `runtime.py` | stop event, publisher and worker threads | `run`, `publish_now`, `publish_offline`, shutdown | the heartbeat never waits for a transition; after the offline entity comes at most the one tick that outlasted the join |
| Boot and exit | `main.py` | none | recover, initial Start, run, clean up | the cleanup runs whatever happened before |
| Entity builder | `entity/` | none; reads the others | `build` | one publish tells one story, or a later one repairs it |
| Task handler | `tasking/handler.py` | stream state and backoff; `_active`, per task: version, terminal, cancel | stream loop and reader, one worker per task | the stream comes back; versions increase; a task ends; a terminal state is final |
| Health | `health/` | latches, snapshot | sampling rounds | sensor state and health agree; an alert keeps its time |
| Authentication | `lattice/auth.py` | cached token | `headers`; a fetch outside the lock | a token outlives the call it is used for; a fetch delays nobody but the thread that makes it |
| Operator scripts | `src/scripts/` | a state store of their own on the daemon's file | resolve the id | they find the daemon's camera and leave its file alone |
| Camera source, configuration, transport, logging, task definitions | `camera/source.py`, `config.py`, ... | none after boot | pure functions, wrappers | covered by unit tests |

How they interact:

* task workers and `main()` call `CameraControl`; it calls `VideoIngress` and the pipeline commands while it holds the
  transition lock, and at the end of `start`/`stop` calls back into `Runtime.publish_now`;
* `VideoIngress` calls VideoManager and the `StateStore`, and writes the file MediaMTX reads when it starts;
* the publisher thread reads control, ingress, catalog and health *without* the transition lock, once a second;
* the stream reader changes the state of a task (version, cancel, terminal) while the task's worker is running;
* every thread that calls Lattice asks `AuthProvider.headers()` first, which may fetch a token for up to 30 s;
* the daemon and the operator scripts write the state file through the same temporary name;
* the sampler thread asks MediaMTX, reads the operator's intent and stores a snapshot the entity builder reads later.

Hard to get right here: a remote call whose answer is lost, a crash between any two writes, one step of a transition
failing, a command that takes effect after its timeout, Ctrl-C in the middle of the boot, a Start that waits for the
lock behind the shutdown, entities built from several unsynchronised reads, calls that take longer than an entity lives,
two processes on one file, and the race between the reader and a worker over a task's version. `PROJECT.json` lists them
under "hazards", each at its line and with the properties that cover it.

## Modules

| Module | Models | Lines |
|---|---|---|
| `VideoIngress` | `camera/ingress.py`, the ingress record of `state.py`; VideoManager as its callers see it | 317 |
| `CameraStream` | what the control promises of the stream: the abstract specification | 50 |
| `CameraControl` (extends `VideoIngress`, implements `CameraStream`) | `camera/control.py`, the commands, MediaMTX, `main.py`'s phases, Ctrl-C, crash and reboot | 548 |
| `CameraService` (extends `CameraControl`) | `runtime.py`, the entity, `publish_offline` | 257 |
| `PublishTiming` | durations: `lattice/auth.py`, the publisher's loop, the entity's expiry, the bounded join | 323 |
| `StateFile` | `state.py`, `entity/identity.py`, `main._created_time`; daemon and scripts on one file | 377 |
| `TaskStream` | `tasking/handler.py`, `run()`: the reconnect loop | 152 |
| `TaskAgent` (extends `TaskStream`) | the rest of `tasking/handler.py`; TaskManager as `lattice/tasks.py` describes and uses it | 410 |
| `HealthSampler` | `health/`, `MediaMtxStatusProbe`, `entity/contributors.py` on health and sensors | 314 |
| `CameraControlProofs`, `CameraStreamProofs`, `CameraRecoveryProofs`, `CameraServiceProofs` (each extends the one before) | theorems about the control: the lock and the records; the stream; what failures leave behind; the service | |
| `PublishTimingProofs`, `StateFileProofs`, `TaskAgentProofs`, `HealthSamplerProofs` | theorems about the module named | |
| `MC...` | one per checked module: fault sets, small sets, symmetry | |

Definitions whose comment begins "Mutant of X" are not part of any specification. Each is what X would be with a
plausible bug; put in X's place it makes TLC report the property named for it in `PROJECT.json`, which shows that the
property depends on the code.

### VideoIngress and CameraControl

A step is one remote call, one command or one local write; everything between two of them is part of one step, since
the state it touches is guarded by the transition lock. `call` is the program counter inside `create`, `delete` or
`recover`, `pc[t]` that of thread `t`: waiting for the lock (`start`, `stop`, `recover`, `shutdown`), or at one call
inside it. `holder` is the lock. Locals that outlive a step have a variable (`fresh` is `create`'s `info` before the
assignment of `self._info`). `phase` is the statement `main()` has reached.

| Variable | Code |
|---|---|
| `info`, `fresh` | `VideoIngress._info`, the local of `create()` |
| `record`, `disk`, `card` | `StateStore._data["ingress"]`, the same key in the file, and what of it a power loss cannot undo |
| `flushError` | `StateStore._last_flush_error` is set: the last write of the file failed |
| `target` | contents of the SRT_TARGET file, as the id whose push URL it is |
| `desiredOn`, `inTransition`, `closed` | the fields of `CameraControl` |
| `server` | VideoManager: an id is free, live or archived |
| `producer` | the ingress MediaMTX pushes at, or none |
| `late` | a command the daemon has given up on and systemd will still carry out |

External behaviour, and where it comes from:

* VideoManager hands out an id once; a call can be refused, or take effect and still raise (`lattice/video.py`: the
  deadline, or an answer that is not an SRT ingress). Archiving an archived ingress may succeed or be refused: the code
  relies on neither.
* The start command restarts MediaMTX, which reads the SRT_TARGET file when it comes up (`src/deploy/systemd`). A
  command that fails has left MediaMTX as it was, or down. One that times out is carried out at any later moment
  (`LateCommand`), unless a command that works comes first: systemd keeps one job per unit, the newest.
* Ctrl-C before `run()` has installed the signal handlers raises KeyboardInterrupt in whatever main is doing; no
  `except Exception` of the code catches it, main's `finally` shuts down (`Interrupt`). A daemon that is interrupted, or
  dies, while its start or stop command runs lets go of that command: systemd may still carry it out (`CommandLetGo`).
* systemd restarts the daemon after any exit, and MediaMTX after a crash of its own; the MediaMTX unit is never enabled,
  so it is down after a reboot.
* A write of the state file is atomic (`os.replace`): it happened, or the file kept its contents. It is not fsynced:
  until the kernel has written it back (`WriteBack`) a power loss can undo it or tear the file, which `_load` takes for
  an empty one.

Failures are switched by the constant `Faults` (`FaultKinds` names them), so that a property is checked under the
strongest environment in which the code promises it.

### CameraStream and the refinement

`CameraStream` has an ingress for each id and a source: an ingress is registered, may become the source while the
stream is off, and is retired when it is not the source. `CameraControl` implements it with `ingress <- server` and
`source <- IF desiredOn THEN producer ELSE NoId` (`ImplementsStream`): every other step, of locks, files, failures and
restarts, is a stutter. The mapping is checked by `service_publisher` and proved by `StreamImplemented`. It holds as long as
no command fails or is given up on; with those faults the next Start or Stop that succeeds repairs the stream
(`TransitionHeals`).

### CameraService

Adds the publisher (`pub`, with one step per contributor's read, then the send), the entity it is building (`draft`),
the one Lattice shows (`shown`), the stop event and the offline publish. The publish of a transition is atomic at the
transition's `advertise` step. Reordering of two publishes inside the server is not modelled.

`_shutdown` joins the publisher for 30 s and goes on without it after that. Time is not told in this module:
`JoinAndShutdown` may give up on any tick that is still running, which `overtime` (the return value 1 of `_shutdown`)
remembers, and the tick goes on beside the cleanup and the offline publish. So the offline entity can be overwritten, and
`OfflineIsFinal` says by what alone: by the draft such a tick was sending. `NoGhost` in `PublishTiming` says that this
draft has expired by then.

### PublishTiming

Time is what is left of each timer, so that the state space is finite without a bound on time: `due[c]` is what is
left of thread `c`'s timeout or wait, `bearer[c]` of the life of the token it carries, `draft[c]` of the entity it has built,
`cached` of the token in the cache and of its use, `shown.left` of the entity Lattice shows. `Tick` takes one unit
from all of them and may not pass a timeout; everything the program does takes no time of its own. `slow` and `misses`
measure what the publisher itself lost, and are the only excuse `EntityStaysLive` accepts.

`_oauth_access_token` fetches outside its lock: threads that find the cache expired fetch at the same time and the last
answer is stored, whether or not its token is the newer one. The margin of 60 s covers this exactly: 30 s of a fetch
and 30 s of the longest call (`MarginAssumption`). An answer with a life below the margin is used once and never cached
(`max(0, ...)`).

Left out: the agent's stream, the one call without a timeout (`lattice/tasks.py:57`), which is not among the calls
`TokenOutlivesCall` speaks of; and the pipeline status that a build reads itself when there is no sampler
(`main.py:166`): at most half a second, it takes no time.

### StateFile

A file name and the file behind it are different things: `state` and `tmp` say which file the two names stand for,
`handle[p]` which one a process writes to, `text` what each file holds. A flush is three steps, `Open`, `Write`,
`Replace`; a process may die, and the disk fail, between any two; reading may fail as well, and counts as an empty file.
`flushError[p]` is `_last_flush_error` of a process's store. The daemon's lock orders its own flushes, so one flush per
process is enough; a script is a second process with a store of its own. `Data` has the three keys the daemon writes:
id, creation time (the number of the daemon that dated it) and ingress record. Whether a script may disturb the daemon
depends on what it read when it started: `apart` remembers if there was a daemon with the same ENTITY_ID to agree with.
A daemon that has come up and is in the middle of a flush is one.

### TaskStream and TaskAgent

`TaskStream` is the loop of `run()`: `link` says where it is, `delay` is the wait after the next outage, `silent` counts the
streams lost since the last message. `TaskAgent` gives the messages their meaning: each message read is also a
`Received` of the loop, and what was under way on a stream that breaks is lost (`StreamGone`).

`pc[k]` is the worker of task `k`; `report[k]` the update being sent: it is numbered under the task's lock (`Count`) and
sent outside it (`SendOk`, `SendRaises`), as in `_update`. `reader` is the reader thread, with the steps of a cancel or
complete request (find the task, re-read the version, set the flag) apart. TaskManager applies an update only when its
version is strictly greater and raises the version itself on a request. The DONE_NOT_OK status is written with its error
code, FAILED or CANCELLED. The operator may ask again of the same task (`Ask`, at most `MaxAsks` times), also of one
that the current stream has not been sent yet. The reader keeps a reference to an `_ActiveTask`; `run` distinguishes it
from the one of a later execution of the same task.

### HealthSampler

A round is two steps, the question to MediaMTX and the rest, because a transition can end between the two. The byte
counter, MediaMTX restarts and frames are the environment's; temperature, firmware flags, host readings and the state of
the task stream are inputs, any of which may be there in any round. `evidence`, `flowed`, `restarted` and `snapshot.on`
are auxiliary: the code does not have them, the properties do.

## Runs

| Run | Instance | Shows |
|---|---|---|
| `control_faults` | 3 ids, 2 workers, 2 requests, every fault, symmetry; 1.4 million states | `Serialised`, `OwnedIsRecorded`, `NoRevival` hold whatever fails; `OrphanOnlyThroughGaps` lists every way an ingress is lost for good |
| `control_local` | 2 ids, 2 workers, 2 requests; VideoManager answers, no crash | `NoLeak`; `TransitionHeals` although commands fail or come late; `TransitionsEnd` and `ShutdownEnds` under fairness |
| `service_publisher` | 2 ids, 1 worker, 2 requests; every fault but failing commands, a failing disk and power loss; 2.2 million states | `PushesAtOwnLive`, `ProducerFollowsIntent`, `ImplementsStream`, `OfflineIsFinal`, `Heartbeat`, `EntityCatchesUp` |
| `publish_timing` | publisher, main, one other thread; expiry and join 6, fetch 6, calls 1 and 2, margin 10; 5 million states | `TokenOutlivesCall`, `EntityStaysLive`, `NoGhost` |
| `state_file` | 2 daemons, 1 script, 1 record, every fault, symmetry; 2.6 million states | `RecordsSurvive`, `IdentityKept`, `ScriptsAgree` |
| `task_faults` | 1 task, 3 streams or processes lost, 2 cancel or complete requests, every fault; 988 000 states | `VersionsIncrease`, `BackoffFollowsOutages`; `WorkersEnd`, `OpenTaskIsTaken` under fairness |
| `task_clean` | 2 tasks, one unsupported, 1 process lost, 1 cancel of each task; actions raise, the agent crashes | `CancelReachesManager`, `UndisturbedReachesTerminal` |
| `health` | 3 rounds, 1 byte, 3 temperatures, 2 flags, 2 host readings, 2 stream states; 1.2 million states | `PushingIsFlow`, `SensorAgreesWithHealth`, `AlertsKeepActivation` |

Each module's type invariant is checked once. The runs with `violation` in `PROJECT.json` check one sentence of the
code's documentation each, and TLC finds it violated:

| Run | Sentence | What happens |
|---|---|---|
| `control_dead_push` | "never push at ... a dead stream" | a second Start reuses the ingress, its command fails, the ingress is archived while MediaMTX pushes at it and the stream stays on |
| `service_offline` | the offline publish reports everything off | when the archive at shutdown failed, the Media item is still there |
| `task_cancel_race` | "a task never stays in EXECUTING" | a cancel arrives between the numbering and the arrival of DONE_OK: TaskManager ignores it and the worker believes it has finished |
| `task_complete_race` | "terminal states are final" | a complete request adopts the new version before it sets `terminal`; the EXECUTING numbered in between reopens the task |

A fifth sentence is not one run but a gap `OrphanOnlyThroughGaps` has to name: "on failure the record is kept so the
next boot tries again" (`camera/ingress.py:15-16`). After a failed recovery the initial Start registers a new ingress and
overwrites the record of the old one, which stays live; take the disjunct `fresh # i` away and `control_faults` shows it.

### Bounds

* Ids: `create` needs at most one id per boot and leftover; with three, an orphaned one, an owned one and a new one
  exist together. A registration that finds no id left fails, as a refused one does.
* Workers and requests: two workers can wait for the lock while main shuts down; with the Start of the boot, two
  requests give Start, Stop, Start. The heartbeat, entity and offline properties concern one transition in progress, so
  one worker is enough.
* Crashes, reboots and MediaMTX restarts are not bounded. In the camera modules nor are failing writes: each write may
  fail. A failing disk and a power loss are left out of `service_publisher`, whose properties do not speak of the file;
  `control_faults` has both, and the theorems about the service every fault.
* Timing: the unit is the publisher's interval. The order of the durations is the program's (interval and publish below
  the other calls, below fetch, join and expiry, below the margin; a join as long as a fetch), so a tick can outlast the
  join, and an entity expire in a fetch. One token life is too short to be cached and one is cached and expires. One
  other thread is enough for two fetches at once; more are the theorems'.
* State file: two boots (what one leaves, the next finds), one script, one record; the disk fails once (a step of a
  flush, or reading the file) and the file is damaged once, at any moment. Three files: two names, and one still written
  to by a process whose name for it is gone.
* Tasks do not interact inside the agent except through the single reader, which two tasks show. Three lost streams,
  with a base of 1 and a cap of 3, reach a doubled, a capped and a reset wait.
* Requests of the operator: two of the task in `task_faults`, so that a second one meets a task being cancelled or
  completed. One of each task in `task_clean` and the two race runs. For `CancelReachesManager` this is a condition, not
  only a bound: a second request between the reader's GetTask and the CANCELLED update raises the version again and the
  update is ignored, the race of `task_cancel_race` once more; TLC finds it violated with two.
* Health: two consecutive rounds reach every case of the byte comparison and of the latches; the third shows that a
  latch survives. Host and stream readings enter the roll-up only, where one well and one bad of each tell all cases
  apart.
* Deadlock is checked, except for `TaskAgent`, whose tasks all end.

### Fairness

* `CameraControl`: weak fairness of each thread's transition, of the running ingress call and of `main()`'s next
  statement. They are OS threads, and every call and command has a timeout. Nothing is assumed of requests, signals,
  crashes, or of who gets the lock. `TransitionsEnd` needs no fairness of the lock: requests, and the transitions of
  main within one process, are finite.
* `CameraService`: only the publisher is fair, and its sends do not fail for ever (strong fairness of `SendOk`).
  Transitions may hang for ever: the heartbeat must not depend on them.
* `TaskAgent`: the threads run, a wait between two streams ends (`stop.wait` has a timeout), and TaskManager sends a
  task it holds as open on each stream. Nothing is assumed of heartbeats or of a blocked read that would notice a stop.
* `PublishTiming` and `StateFile` state safety only: how long something takes at most is in the timers.

## Proofs

`CameraControlProofs` is about every set of ids, every set of workers, every set of faults and any number of requests,
from the assumptions named in the modules (`NoId` is not an id; `Main`, `NoThread` and the workers are distinct;
`Faults` names known faults; `MaxRequests` is a natural number).

| Theorem | States | Argument |
|---|---|---|
| `TypeCorrect` | `Spec => []ControlTypeOK` | inductive; one lemma for the steps inside the ingress, one for the transitions, one for main and the process |
| `MutualExclusion` | `Spec => []Serialised` | `Serialised` alone is not inductive: a thread entering needs the lock to be free, so "free lock" must mean "nobody inside". `InsideHolds` (who is inside is the holder) says so |
| `OwnedRecorded` | `Spec => []OwnedIsRecorded` | `RecordInv`: from `_persist` to the ownership the record names `fresh`, a call that rewrites the record runs only while nothing is owned, file and memory agree unless the last write failed, and between forgetting and disowning the ingress is archived |
| `NothingRevives` | `Spec => NoRevival` | `ShutdownInv`: from `Terminate` on the control is closed, and once main has had the lock the workers are outside it or leaving it, so no ingress call is running and a queued Start or Stop is refused |

`CameraStreamProofs` is about the same, assuming `CommandsWork`: neither "command" nor "timeout" is among the faults.
Its invariant `StreamInv` says what is owned at each place of a transition (`PlaceInv`: when the start command runs the
owned ingress is live; archiving is done with the stream off), that no stop command given up on is still to come while
the stream is on (`LateInv`), that `delete` runs with the stream off and what `create` has registered is live
(`CallInv`), and what holds during the boot (`BootInv`); `KnownInv` says that nothing names an ingress never registered.

| Theorem | States | Argument |
|---|---|---|
| `StreamIsLive` | assuming `CommandsWork`, `Spec => []PushesAtOwnLive` | `StreamInv` |
| `ProducerFollows` | assuming it, `Spec => ProducerFollowsIntent` | only the commands, a restart of MediaMTX and the end of a process change either side; `StreamInv` says what each finds |
| `StreamImplemented` | assuming it, `Spec => ImplementsStream` | initial states map to initial states; `StepMaps`: each step maps to a Register, Retire, TurnOn, TurnOff or a stutter |

`CameraRecoveryProofs` is about the same as `CameraControlProofs`. Its first theorem assumes nothing of the faults. The
second assumes `VideoManagerAnswers`: no refused and no lost call, no crash, interrupt or power loss; disk, commands and
publishes may fail. The third assumes `AnswersArrive`: everything may fail, except that an answer of VideoManager is not
lost. That assumption is needed: an ingress that was archived although the call raised is still owned, and the next Start
reuses it. TLC finds `TransitionHeals` violated when "lost" joins the faults of `control_local`.

| Theorem | States | Argument |
|---|---|---|
| `OrphansAppearInGaps` | `Spec => OrphanOnlyThroughGaps` | `FreshInv`: what `create` has registered is in its local `info` until the record names it, and a record or an owned ingress is forgotten only once it is archived; each step that forgets a live one is then a listed gap |
| `NothingLeaks` | assuming `VideoManagerAnswers`, `Spec => []NoLeak` | `NoLeak` says nothing of how main ends; `DrainInv` follows main through its shutdown, at the end of which the owned ingress is archived, so that the next process finds nothing live |
| `TransitionsRepair` | assuming `AnswersArrive`, `Spec => []TransitionHeals` | `HealInv`: the owned ingress is live except on the last step of `delete` (`OwnLive`), and at each place of a transition its call and its command have done what the place presumes (`Spot`): a late command of an earlier transition has been flushed out by then |

`CameraServiceProofs` lifts all of this to the service and adds the publisher.

| Theorem | States | Argument |
|---|---|---|
| `ServiceImplementsControl` | `ServiceSpec => Spec` | each action of the service is one of the control or leaves its variables alone |
| `ServiceStreams` | assuming `CommandsWork`, the properties of `CameraStreamProofs` for `ServiceSpec` | from `ServiceImplementsControl`; these are the properties `service_publisher` checks |
| `ServiceTypes` | `ServiceSpec => []ServiceTypeOK` | inductive, with the types of the control |
| `OfflineStays` | `ServiceSpec => OfflineIsFinal` | `PublisherInv`: after the join the publisher has ended or is in the tick that outlasted it; with `ShutdownInv` no transition gets to its publish any more |

`PublishTimingProofs` is about every choice of the durations that satisfies the named assumptions, every number of other
threads, and every set of token lives longer than a fetch and a call. The assumptions say what the constants of the code
satisfy: the margin covers a fetch and a call, and the join lasts as long as an entity lives.

| Theorem | States | Argument |
|---|---|---|
| `TimingTypeCorrect` | `TimingSpec => []TimingTypeOK` | not inductive by itself: the cached token's life is counted down with its use, so `CacheKeeps` must say it does not end first |
| `TokenNeverExpires` | `TimingSpec => []TokenOutlivesCall` | `BearerLasts`: a call ends before its token does, be it cached (`CacheKeeps`) or just fetched, of any age |
| `NoGhostAppears` | `TimingSpec => NoGhost` | `GhostInv`: what is left of the publisher's entity is at most what is left of the join, so nothing is left when the join gives up; the other threads have ended with the process |
| `EntityLives` | `TimingSpec => []EntityStaysLive` | `FreshInv`: what is left of the shown entity is bounded below by the expiry less the publisher's own slowness |

`TaskAgentProofs` is about every set of tasks, every operator, every set of faults and any number of streams.

| Theorem | States | Argument |
|---|---|---|
| `TaskTypeCorrect` | `TaskSpec => []TaskTypeOK` | inductive; lemmas for the loop, for TaskManager and the stream, for the reader and for the workers |
| `VersionsOnlyIncrease` | `TaskSpec => VersionsIncrease` | `Numbered`: the counter is at or above the number of the last update, so the next one exceeds it; it rests on `observe_version` never going back |
| `CancelsReachManager` | assuming `RereadsSucceed` and `OneRequestEach`, `TaskSpec => []CancelReachesManager` | `CancelInv`: what the reader has re-read stays at or above TaskManager's version until it sets the flag (`Reread`), since a task is asked about once (`AskedOnce`); from the flag on the worker's next update exceeds TaskManager's version (`Cancelling`) |
| `BackoffFollows` | `TaskSpec => []BackoffFollowsOutages` | `BackoffInv`: outside a wait the delay is the one of the next outage. `BackoffUnfolds` shows that the recursive definition of `Backoff` has a solution, by induction |

`RereadsSucceed` says that the re-reading GetTask does not fail ("resync" is not among the faults); updates may be
refused or lost, actions raise, streams break and the agent die. `OneRequestEach` says that the operator asks at most
once of each task. Both are needed: TLC finds a counterexample without either. When the re-read fails, which the code only
logs, or a second request raises the version after it, the CANCELLED report is numbered too low and is ignored.

Induction over the naturals is available through the library's theorem that `<` is well-founded on `Nat`, which speaks of
sets and not of predicates: `LeastOf` and `SetInduction` derive induction over a set of numbers from it.

`StateFileProofs` is about every set of ids and faults and any number of boots, scripts and records, from the assumptions
named in the module. The invariants are layered, each proved from those before it.

| Theorem | States | Argument |
|---|---|---|
| `FileTypes` | `FileSpec => []FileTypeOK` | inductive |
| `WritesAreAtomic` | `FileSpec => []RecordsSurvive` | `HandleInv`: what a process is writing to is never the state file. `WholeInv`: until a script writes, only the daemon does (`SoleWriter`); until somebody else touches the file, it is whole, so is the temporary file before it is renamed, and the file holds what a daemon outside a flush has in memory unless its last flush failed (`Intact`); a process that has read it undisturbed holds what it says (`Fresh`) |
| `IdentitySurvives` | `FileSpec => IdentityKept` | `KeptInv`: what the last entity said stands in the file, and in the memory of whoever has loaded it, unless the operator sets an id; `BoardInv`: with a readable serial there is one id only; `IdentInv` and `DateInv` say where the id and the time of a process come from |
| `ScriptsResolveAlike` | `FileSpec => ScriptsAgree` | `ShownInv`: the entity shown by a daemon that has come up is its own, and the file carries its id, also during a flush; `ScriptInv`: a script that started next to it has read that one |

`HealthSamplerProofs` is about any number of rounds and bytes and every set of readings the module's assumptions allow.

| Theorem | States | Argument |
|---|---|---|
| `HealthTypes` | `HealthSpec => [](HealthTypeOK /\ JudgesStatus)` | the types are not inductive alone: a round that is judged must have a status (`JudgesStatus`) |
| `PushingMeansFlow` | `HealthSpec => []PushingIsFlow` | `BaselineInv` relates the byte baseline to MediaMTX's counter through restarts and unanswered rounds; `EvidenceInv` keeps the evidence with the status it belongs to |
| `SensorAndHealthAgree` | `HealthSpec => []SensorAgreesWithHealth` | `CameraInv`: the camera's component is what the snapshot's own intent and readiness call for |
| `AlertsKeepTheirTime` | `HealthSpec => AlertsKeepActivation` | `AlertsInv`: a snapshot shows each alert as its latch has it, unless the round could not read the temperature |

Every safety invariant and every action property of a passing run is now the statement of a theorem. Only model-checked
is liveness (`TransitionsEnd`, `ShutdownEnds`, `Heartbeat`, `EntityCatchesUp`, `WorkersEnd`,
`UndisturbedReachesTerminal`, `OpenTaskIsTaken`): it rests on fairness, and ENABLED is out of the prover's reach.

## Not modelled

* Configuration (`config.py`): a pure function of one file, evaluated and validated before anything else runs. Its
  outcome is the CONSTANTS of every module; its parsing is covered by `src/tests`.
* Transport, client, logging, task definitions: wrappers over an RPC library, formatting, constants. What a call can do
  (fail, take its time, lose its answer) is in the modules of the callers. Of the operator scripts only the resolution
  of the id touches the daemon.
* `VIDEO_ENABLED=false`, a control without pipeline or ingress, empty paths for the state or target file: the same code
  with calls left out.
* Two publishes reordered inside the server; a clock that is set back.
* A task thread the OS cannot start: `_start_worker` has put the task into `_active` by then, where it would stay. Listed
  as a hazard without a property.
* Symbols, names and enums of the entity, the camera's position, and the text of health messages.

## Running

    tlc -workers 2 -config CameraControlFaults.cfg MCCameraControl.tla
    tlapm CameraStreamProofs.tla

`PROJECT.json` names the module and configuration of every run, and for each definition the lines it models.

## Plan

Done: the camera control and the abstract stream it implements, the service around it, the timing of publishes, the
state file, the task stream and its tasks, health, and theorems for every safety property. What is left:

1. Safety parts of the liveness properties that can be proved: that no step but the listed ones leaves an open task
   untaken, and that a transition only moves forward through its places.
2. Weaker assumptions where the code allows them: what is left of `PushesAtOwnLive` when commands do fail, of `NoLeak`
   over a crash of the daemon whose recovery is answered, and of `CancelReachesManager` when the re-read fails but the
   version was observed since.
