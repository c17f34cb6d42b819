------------------------- MODULE HealthSamplerProofs -------------------------
(***************************************************************************)
(* What HealthSampler promises, for any number of rounds, any readings and *)
(* any interleaving of the rounds with MediaMTX and the transitions.       *)
(***************************************************************************)
EXTENDS HealthSampler, TLAPS

USE RoundsAssumption, NoneAssumption, ReadingsAssumption

-----------------------------------------------------------------------------
(* The inductive invariant.                                                *)

StatusRecord == [ready : Observed, pushing : Observed]
EvidenceRecord == [flowed : BOOLEAN, restarted : BOOLEAN, readers : BOOLEAN]

(* A round that is being judged has a status to judge.                     *)
JudgesStatus == judging => status \in StatusRecord

(* The byte baseline against MediaMTX's counter: only bytes that arrived   *)
(* lift the counter above it, and only a restart brings it down again.     *)
BaselineInv ==
    lastBytes # None =>
        /\ bytes > lastBytes => flowed
        /\ ~restarted => bytes >= lastBytes
        /\ ~restarted /\ flowed => bytes > lastBytes

(* The evidence a status was made from is kept with it.                    *)
EvidenceInv == status # None => evidence \in EvidenceRecord

(* The camera's component was judged from what the snapshot says the       *)
(* pipeline was and what the intent was.                                   *)
CameraInv ==
    snapshot # None =>
        snapshot.components["camera"] =
            IF ~snapshot.on \/ snapshot.ready = None THEN "NOT_READY"
            ELSE IF snapshot.ready THEN "HEALTHY" ELSE "FAIL"

(* A snapshot shows each alert as its latch has it, unless the round could *)
(* not read the temperature: then it shows no thermal alert.               *)
AlertsInv ==
    snapshot # None => \A a \in Alert :
        \/ snapshot.alerts[a] = since[a]
        \/ /\ a = "THERMAL_THROTTLE"
           /\ snapshot.alerts[a] = None
           /\ snapshot.components["soc-thermal"] = "NOT_READY"

-----------------------------------------------------------------------------
(* Types.                                                                  *)

(* What the probes return is a status of the health model.                 *)
LEMMA StatusesTyped ==
    ASSUME HealthTypeOK, NEW temp \in Temperatures, NEW flags \in FlagReadings,
           NEW host \in Hosts, NEW link \in Links, NEW observed \in Observed
    PROVE  /\ ThermalStatus(temp, flags) \in HealthStatus
           /\ PowerStatus(flags) \in HealthStatus
           /\ SystemStatus(host) \in HealthStatus
           /\ TaskingStatus(link) \in HealthStatus
           /\ Judge(observed) \in HealthStatus
<1>1. ThermalStatus(temp, flags) \in HealthStatus
  BY DEF ThermalStatus, HealthStatus
<1>2. PowerStatus(flags) \in HealthStatus
  BY DEF PowerStatus, HealthStatus
<1>3. SystemStatus(host) \in HealthStatus
  BY DEF SystemStatus, HealthStatus
<1>4. TaskingStatus(link) \in HealthStatus
  BY DEF TaskingStatus, HealthStatus
<1>5. Judge(observed) \in HealthStatus
  BY DEF Judge, HealthStatus
<1>6. QED
  BY <1>1, <1>2, <1>3, <1>4, <1>5

(* A latch holds the time of a round, or nothing.                          *)
LEMMA LatchesTyped ==
    ASSUME HealthTypeOK, NEW temp, NEW flags
    PROVE  /\ ThermalSince(temp, flags) \in Time \cup {None}
           /\ PowerSince(flags) \in Time \cup {None}
BY DEF HealthTypeOK, ThermalSince, PowerSince, Update, Alert

(* What the probe makes of an answer is TRUE, FALSE or None.               *)
LEMMA PushingTyped ==
    ASSUME HealthTypeOK, NEW readers \in BOOLEAN, NEW received \in 0..MaxBytes \cup {None}
    PROVE  Pushing(readers, received) \in Observed
BY DEF HealthTypeOK, Pushing, Observed

(* Type correctness: the sampler's state and its snapshots keep their      *)
(* types, a round that is being judged always has a status to judge.       *)
THEOREM HealthTypes == HealthSpec => [](HealthTypeOK /\ JudgesStatus)
<1>1. HealthInit => HealthTypeOK /\ JudgesStatus
  <2> SUFFICES ASSUME HealthInit PROVE HealthTypeOK /\ JudgesStatus
    OBVIOUS
  <2>1. 0 \in 0..MaxBytes /\ 0 \in Time
    BY DEF Time
  <2>2. since \in [Alert -> Time \cup {None}]
    BY DEF HealthInit
  <2>3. HealthTypeOK
    BY <2>1, <2>2 DEF HealthInit, HealthTypeOK
  <2>4. QED
    BY <2>3 DEF HealthInit, JudgesStatus
<1>2. HealthTypeOK /\ JudgesStatus /\ [HealthNext]_healthVars => (HealthTypeOK /\ JudgesStatus)'
  <2> SUFFICES ASSUME HealthTypeOK, JudgesStatus, [HealthNext]_healthVars
               PROVE  (HealthTypeOK /\ JudgesStatus)'
    OBVIOUS
  <2>1. CASE Frames
    BY <2>1 DEF Frames, HealthTypeOK, JudgesStatus, probeVars, roundVars, StatusRecord, Observed
  <2>2. CASE MediaRestarts
    BY <2>2 DEF MediaRestarts, HealthTypeOK, JudgesStatus, probeVars, roundVars, StatusRecord, Observed
  <2>3. CASE Switch
    BY <2>3 DEF Switch, HealthTypeOK, JudgesStatus, mediaVars, probeVars, roundVars,
                StatusRecord, Observed
  <2>4. CASE ObserveCached
    BY <2>4 DEF ObserveCached, BeginRound, HealthTypeOK, JudgesStatus, probeVars, roundVars,
                StatusRecord, Observed, Time
  <2>5. CASE ObserveNothing
    <3>1. status' \in StatusRecord
      <4>1. CASE status' = [ready |-> None, pushing |-> None]
        BY <4>1 DEF StatusRecord, Observed
      <4>2. CASE status' = [ready |-> FALSE, pushing |-> FALSE]
        BY <4>2 DEF StatusRecord, Observed
      <4>3. QED
        BY <2>5, <4>1, <4>2, Zenon DEF ObserveNothing
    <3>2. evidence' \in EvidenceRecord
      BY <2>5 DEF ObserveNothing, EvidenceRecord, HealthTypeOK
    <3>3. QED
      BY <2>5, <3>1, <3>2 DEF ObserveNothing, BeginRound, HealthTypeOK, JudgesStatus,
                              StatusRecord, EvidenceRecord, Time
  <2>6. CASE ObserveAnswer
    <3>1. PICK ready \in BOOLEAN, readers \in BOOLEAN, received \in {bytes, None} :
            /\ status' = [ready |-> ready, pushing |-> Pushing(readers, received)]
            /\ evidence' = [flowed |-> flowed, restarted |-> restarted, readers |-> readers]
            /\ lastBytes' = received
      BY <2>6 DEF ObserveAnswer
    <3>2. received \in 0..MaxBytes \cup {None}
      BY <3>1 DEF HealthTypeOK
    <3>3. Pushing(readers, received) \in Observed
      BY <3>2, PushingTyped
    <3>4. status' \in StatusRecord
      BY <3>1, <3>3 DEF StatusRecord, Observed
    <3>5. evidence' \in EvidenceRecord
      BY <3>1 DEF EvidenceRecord, HealthTypeOK
    <3>6. QED
      <4>1. now' \in Time /\ judging' \in BOOLEAN
        BY <2>6 DEF ObserveAnswer, BeginRound, HealthTypeOK, Time
      <4>2. UNCHANGED <<desiredOn, bytes, since, snapshot>> /\ flowed' = FALSE /\ restarted' = FALSE
        BY <2>6 DEF ObserveAnswer, BeginRound
      <4>3. QED
        BY <3>1, <3>2, <3>4, <3>5, <4>1, <4>2
          DEF HealthTypeOK, JudgesStatus, StatusRecord, EvidenceRecord
  <2>7. CASE CompleteRound
    <3>1. status \in StatusRecord
      BY <2>7 DEF CompleteRound, JudgesStatus
    <3>2. since' \in [Alert -> Time \cup {None}]
      BY <2>7, LatchesTyped DEF CompleteRound
    <3>3. snapshot' \in Snapshot
      <4>1. PICK temp \in Temperatures, flags \in FlagReadings, host \in Hosts, link \in Links :
           /\ since' = [a \in Alert |-> IF a = "THERMAL_THROTTLE" THEN ThermalSince(temp, flags)
                                        ELSE PowerSince(flags)]
           /\ snapshot' =
                [ components |-> [c \in Component |->
                    CASE c = "soc-thermal" -> ThermalStatus(temp, flags)
                      [] c = "power" -> PowerStatus(flags)
                      [] c = "camera" -> Judge(status.ready)
                      [] c = "stream" -> Judge(status.pushing)
                      [] c = "system" -> SystemStatus(host)
                      [] c = "tasking" -> TaskingStatus(link)],
                  alerts |-> [a \in Alert |->
                    IF a = "THERMAL_THROTTLE" /\ temp = None THEN None ELSE since'[a]],
                  ready |-> status.ready,
                  on |-> desiredOn ]
        BY <2>7, Zenon DEF CompleteRound
      <4>2. status.ready \in Observed /\ status.pushing \in Observed
        BY <3>1 DEF StatusRecord
      <4>3. snapshot'.components \in [Component -> HealthStatus]
        BY <4>1, <4>2, StatusesTyped DEF Component
      <4>4. snapshot'.alerts \in [Alert -> Time \cup {None}]
        BY <4>1, <3>2
      <4>5. QED
        BY <4>1, <4>2, <4>3, <4>4 DEF Snapshot, HealthTypeOK
    <3>4. QED
      BY <2>7, <3>2, <3>3 DEF CompleteRound, HealthTypeOK, JudgesStatus, mediaVars, probeVars
  <2>8. CASE UNCHANGED healthVars
    BY <2>8 DEF healthVars, mediaVars, probeVars, roundVars, HealthTypeOK, JudgesStatus,
                Snapshot, StatusRecord
  <2>9. QED
    BY <2>1, <2>2, <2>3, <2>4, <2>5, <2>6, <2>7, <2>8 DEF HealthNext
<1>3. QED
  BY <1>1, <1>2, PTL DEF HealthSpec

-----------------------------------------------------------------------------
(* The bytes.                                                              *)

FlowInv == BaselineInv /\ EvidenceInv /\ PushingIsFlow

(* An answer of MediaMTX is judged against what has really arrived.        *)
LEMMA AnswerKeepsFlow ==
    ASSUME HealthTypeOK, BaselineInv, ObserveAnswer
    PROVE  FlowInv'
<1>1. PICK ready \in BOOLEAN, readers \in BOOLEAN, received \in {bytes, None} :
        /\ status' = [ready |-> ready, pushing |-> Pushing(readers, received)]
        /\ evidence' = [flowed |-> flowed, restarted |-> restarted, readers |-> readers]
        /\ lastBytes' = received
  BY DEF ObserveAnswer
<1>2. evidence' \in EvidenceRecord
  BY <1>1 DEF EvidenceRecord, HealthTypeOK
<1>3. BaselineInv'
  BY <1>1 DEF BaselineInv, ObserveAnswer, BeginRound, HealthTypeOK
<1>4. ASSUME status'.pushing = TRUE PROVE evidence'.flowed /\ evidence'.readers
  BY <1>1, <1>4 DEF Pushing, BaselineInv, HealthTypeOK
<1>5. ASSUME status'.pushing = FALSE
      PROVE  ~evidence'.readers \/ ~evidence'.flowed \/ evidence'.restarted
  BY <1>1, <1>5 DEF Pushing, BaselineInv, HealthTypeOK
<1>6. QED
  BY <1>2, <1>3, <1>4, <1>5 DEF FlowInv, EvidenceInv, PushingIsFlow

(* The probe says that the video flows only if bytes have arrived since    *)
(* its previous answer, and that it does not only if none have, nobody     *)
(* reads, or MediaMTX has restarted: whatever rounds went unanswered or    *)
(* were served from the cache in between.                                  *)
THEOREM PushingMeansFlow == HealthSpec => []PushingIsFlow
<1>1. HealthInit => FlowInv
  BY DEF HealthInit, FlowInv, BaselineInv, EvidenceInv, PushingIsFlow
<1>2. HealthTypeOK /\ FlowInv /\ [HealthNext]_healthVars => FlowInv'
  <2> SUFFICES ASSUME HealthTypeOK, FlowInv, [HealthNext]_healthVars PROVE FlowInv'
    OBVIOUS
  <2> USE DEF FlowInv
  <2>1. CASE Frames
    BY <2>1 DEF Frames, HealthTypeOK, probeVars, BaselineInv, EvidenceInv, PushingIsFlow
  <2>2. CASE MediaRestarts
    BY <2>2 DEF MediaRestarts, HealthTypeOK, probeVars, BaselineInv, EvidenceInv, PushingIsFlow
  <2>3. CASE Switch
    BY <2>3 DEF Switch, mediaVars, probeVars, BaselineInv, EvidenceInv, PushingIsFlow
  <2>4. CASE ObserveCached
    BY <2>4 DEF ObserveCached, BeginRound, probeVars, BaselineInv, EvidenceInv, PushingIsFlow
  <2>5. CASE ObserveNothing
    <3>1. BaselineInv'
      BY <2>5 DEF ObserveNothing, BeginRound, BaselineInv
    <3>2. evidence' \in EvidenceRecord /\ ~evidence'.readers
      BY <2>5 DEF ObserveNothing, EvidenceRecord, HealthTypeOK
    <3>3. status'.pushing # TRUE
      <4>1. CASE status' = [ready |-> None, pushing |-> None]
        BY <4>1
      <4>2. CASE status' = [ready |-> FALSE, pushing |-> FALSE]
        BY <4>2
      <4>3. QED
        BY <2>5, <4>1, <4>2, Zenon DEF ObserveNothing
    <3>4. QED
      BY <3>1, <3>2, <3>3 DEF EvidenceInv, PushingIsFlow
  <2>6. CASE ObserveAnswer
    BY <2>6, AnswerKeepsFlow
  <2>7. CASE CompleteRound
    BY <2>7 DEF CompleteRound, mediaVars, probeVars, BaselineInv, EvidenceInv, PushingIsFlow
  <2>8. CASE UNCHANGED healthVars
    BY <2>8 DEF healthVars, mediaVars, probeVars, BaselineInv, EvidenceInv, PushingIsFlow
  <2>9. QED
    BY <2>1, <2>2, <2>3, <2>4, <2>5, <2>6, <2>7, <2>8 DEF HealthNext
<1>3. QED
  BY <1>1, <1>2, HealthTypes, PTL DEF HealthSpec, FlowInv

-----------------------------------------------------------------------------
(* The sensor and the health roll-up.                                      *)

(* Of the components of a snapshot one has the worst status.               *)
LEMMA WorstExists ==
    ASSUME NEW s, s.components \in [Component -> HealthStatus]
    PROVE  \E worst \in HealthStatus :
             /\ \E c \in Component : s.components[c] = worst
             /\ \A c \in Component : Severity(s.components[c]) <= Severity(worst)
<1> DEFINE Worst(w) == /\ w \in HealthStatus
                       /\ \E c \in Component : s.components[c] = w
                       /\ \A c \in Component : Severity(s.components[c]) <= Severity(w)
<1> SUFFICES \E w : Worst(w)
  OBVIOUS
<1> USE DEF HealthStatus, Severity, Component
<1>1. CASE \E c \in Component : s.components[c] = "FAIL"
  <2>1. Worst("FAIL")
    BY <1>1
  <2>2. QED
    BY <2>1
<1>2. CASE /\ ~ \E c \in Component : s.components[c] = "FAIL"
           /\ \E c \in Component : s.components[c] = "OFFLINE"
  <2>1. Worst("OFFLINE")
    BY <1>2
  <2>2. QED
    BY <2>1
<1>3. CASE /\ ~ \E c \in Component : s.components[c] \in {"FAIL", "OFFLINE"}
           /\ \E c \in Component : s.components[c] = "WARN"
  <2>1. Worst("WARN")
    BY <1>3
  <2>2. QED
    BY <2>1
<1>4. CASE /\ ~ \E c \in Component : s.components[c] \in {"FAIL", "OFFLINE", "WARN"}
           /\ \E c \in Component : s.components[c] = "NOT_READY"
  <2>1. Worst("NOT_READY")
    BY <1>4
  <2>2. QED
    BY <2>1
<1>5. CASE \A c \in Component : s.components[c] = "HEALTHY"
  <2>1. Worst("HEALTHY")
    BY <1>5
  <2>2. QED
    BY <2>1
<1>6. QED
  BY <1>1, <1>2, <1>3, <1>4, <1>5

(* A healthy roll-up has no component that is anything else.               *)
LEMMA HealthyMeansAll ==
    ASSUME NEW s, s.components \in [Component -> HealthStatus], Overall(s) = "HEALTHY"
    PROVE  \A c \in Component : s.components[c] = "HEALTHY"
<1>1. \A c \in Component : Severity(s.components[c]) <= Severity("HEALTHY")
  BY WorstExists DEF Overall
<1>2. QED
  BY <1>1 DEF Severity, HealthStatus

(* CompleteRound makes the camera's component from what it puts into the   *)
(* snapshot beside it; nothing else touches either.                        *)
LEMMA CameraKept ==
    HealthTypeOK /\ JudgesStatus /\ CameraInv /\ [HealthNext]_healthVars => CameraInv'
<1> SUFFICES ASSUME HealthTypeOK, JudgesStatus, CameraInv, [HealthNext]_healthVars
             PROVE  CameraInv'
  OBVIOUS
<1>1. CASE CompleteRound
  <2>1. /\ snapshot'.components["camera"] = Judge(status.ready)
        /\ snapshot'.ready = status.ready
        /\ snapshot'.on = desiredOn
    BY <1>1 DEF CompleteRound, Component
  <2>2. QED
    BY <2>1 DEF Judge, CameraInv
<1>2. CASE UNCHANGED snapshot
  BY <1>2 DEF CameraInv
<1>3. QED
  BY <1>1, <1>2 DEF HealthNext, Frames, MediaRestarts, Switch, ObserveCached, ObserveNothing,
                    ObserveAnswer, BeginRound, healthVars

(* The sensor state and the health components are derived separately, from *)
(* different readings: unless the intent has changed since the round, they *)
(* agree about the camera, and a healthy roll-up means a working sensor.   *)
THEOREM SensorAndHealthAgree == HealthSpec => []SensorAgreesWithHealth
<1>1. HealthInit => CameraInv
  BY DEF HealthInit, CameraInv
<1>2. HealthTypeOK /\ CameraInv => SensorAgreesWithHealth
  <2> SUFFICES ASSUME HealthTypeOK, CameraInv, snapshot # None, snapshot.on = desiredOn
               PROVE  /\ SensorState = "NON_OPERATIONAL" <=> snapshot.components["camera"] = "FAIL"
                      /\ Overall(snapshot) = "HEALTHY" => SensorState = "OPERATIONAL"
    BY DEF SensorAgreesWithHealth
  <2>1. /\ snapshot.components \in [Component -> HealthStatus]
        /\ snapshot.ready \in Observed
        /\ desiredOn \in BOOLEAN
    BY DEF HealthTypeOK, Snapshot
  <2>2. snapshot.components["camera"] =
            IF ~desiredOn \/ snapshot.ready = None THEN "NOT_READY"
            ELSE IF snapshot.ready THEN "HEALTHY" ELSE "FAIL"
    BY DEF CameraInv
  <2>3. SensorState = "NON_OPERATIONAL" <=> desiredOn /\ snapshot.ready = FALSE
    BY DEF SensorState
  <2>4. snapshot.components["camera"] = "FAIL" <=> desiredOn /\ snapshot.ready = FALSE
    BY <2>1, <2>2 DEF Observed
  <2>5. ASSUME Overall(snapshot) = "HEALTHY" PROVE SensorState = "OPERATIONAL"
    <3>1. \A c \in Component : snapshot.components[c] = "HEALTHY"
      BY <2>1, <2>5, HealthyMeansAll
    <3>2. snapshot.components["camera"] = "HEALTHY" /\ ~Degraded(snapshot)
      BY <3>1 DEF Component, Degraded
    <3>3. desiredOn /\ snapshot.ready # FALSE
      BY <2>1, <2>2, <3>2 DEF Observed
    <3>4. QED
      BY <3>2, <3>3 DEF SensorState
  <2>6. QED
    BY <2>3, <2>4, <2>5
<1>3. QED
  BY <1>1, <1>2, CameraKept, HealthTypes, PTL DEF HealthSpec

-----------------------------------------------------------------------------
(* The alerts.                                                             *)

(* A round that ends: what the snapshot shows of an alert is its latch.    *)
LEMMA RoundShowsLatches ==
    ASSUME HealthTypeOK, CompleteRound, NEW a \in Alert
    PROVE  /\ \/ snapshot'.alerts[a] = since'[a]
              \/ /\ a = "THERMAL_THROTTLE"
                 /\ snapshot'.alerts[a] = None
                 /\ snapshot'.components["soc-thermal"] = "NOT_READY"
           /\ snapshot'.alerts[a] # None =>
                 since'[a] = IF since[a] = None THEN now ELSE since[a]
<1>1. PICK temp \in Temperatures, flags \in FlagReadings, host \in Hosts, link \in Links :
     /\ since' = [b \in Alert |-> IF b = "THERMAL_THROTTLE" THEN ThermalSince(temp, flags)
                                  ELSE PowerSince(flags)]
     /\ snapshot' =
          [ components |-> [c \in Component |->
              CASE c = "soc-thermal" -> ThermalStatus(temp, flags)
                [] c = "power" -> PowerStatus(flags)
                [] c = "camera" -> Judge(status.ready)
                [] c = "stream" -> Judge(status.pushing)
                [] c = "system" -> SystemStatus(host)
                [] c = "tasking" -> TaskingStatus(link)],
            alerts |-> [b \in Alert |->
              IF b = "THERMAL_THROTTLE" /\ temp = None THEN None ELSE since'[b]],
            ready |-> status.ready,
            on |-> desiredOn ]
  BY Zenon DEF CompleteRound
<1>2. snapshot'.alerts[a] = IF a = "THERMAL_THROTTLE" /\ temp = None THEN None ELSE since'[a]
  BY <1>1
<1>3. snapshot'.components["soc-thermal"] = ThermalStatus(temp, flags)
  BY <1>1 DEF Component
<1>4. temp = None => ThermalStatus(temp, flags) = "NOT_READY"
  BY DEF ThermalStatus
<1>5. ASSUME snapshot'.alerts[a] # None
      PROVE  since'[a] = IF since[a] = None THEN now ELSE since[a]
  <2>1. CASE a = "THERMAL_THROTTLE"
    <3>1. temp # None /\ since'[a] # None
      BY <1>2, <1>5, <2>1
    <3>2. since'[a] = ThermalSince(temp, flags)
      BY <1>1, <2>1
    <3>3. QED
      BY <2>1, <3>1, <3>2 DEF ThermalSince, Update
  <2>2. CASE a = "UNDER_VOLTAGE"
    <3>1. since'[a] # None
      BY <1>2, <1>5, <2>2
    <3>2. since'[a] = PowerSince(flags)
      BY <1>1, <2>2
    <3>3. QED
      BY <2>2, <3>1, <3>2 DEF PowerSince, Update
  <2>3. QED
    BY <2>1, <2>2 DEF Alert
<1>6. QED
  BY <1>2, <1>3, <1>4, <1>5

(* An alert keeps the time at which it was raised, and one raised after a  *)
(* round that saw its condition clear carries the time of its own round.   *)
THEOREM AlertsKeepTheirTime == HealthSpec => AlertsKeepActivation
<1> DEFINE Kept ==
      snapshot # None /\ now' = now /\ judging /\ ~judging' =>
        \A a \in Alert :
            LET before == snapshot.alerts[a]
                after == snapshot'.alerts[a]
                blind == a = "THERMAL_THROTTLE" /\ snapshot.components["soc-thermal"] = "NOT_READY"
            IN  after # None =>
                    /\ before # None => after = before
                    /\ before = None /\ ~blind => after = now
<1>1. HealthInit => AlertsInv
  BY DEF HealthInit, AlertsInv
<1>2. HealthTypeOK /\ AlertsInv /\ [HealthNext]_healthVars => AlertsInv'
  <2> SUFFICES ASSUME HealthTypeOK, AlertsInv, [HealthNext]_healthVars PROVE AlertsInv'
    OBVIOUS
  <2>1. CASE CompleteRound
    BY <2>1, RoundShowsLatches DEF AlertsInv
  <2>2. CASE UNCHANGED <<since, snapshot>>
    BY <2>2 DEF AlertsInv
  <2>3. QED
    BY <2>1, <2>2 DEF HealthNext, Frames, MediaRestarts, Switch, ObserveCached, ObserveNothing,
                      ObserveAnswer, BeginRound, healthVars
<1>3. HealthTypeOK /\ AlertsInv /\ [HealthNext]_healthVars => [Kept]_healthVars
  <2> SUFFICES ASSUME HealthTypeOK, AlertsInv, [HealthNext]_healthVars,
                      snapshot # None, judging, ~judging'
               PROVE  \A a \in Alert :
                        snapshot'.alerts[a] # None =>
                          /\ snapshot.alerts[a] # None => snapshot'.alerts[a] = snapshot.alerts[a]
                          /\ /\ snapshot.alerts[a] = None
                             /\ ~ (a = "THERMAL_THROTTLE"
                                    /\ snapshot.components["soc-thermal"] = "NOT_READY")
                             => snapshot'.alerts[a] = now
    BY Zenon
  <2>1. CompleteRound
    BY DEF HealthNext, Frames, MediaRestarts, Switch, ObserveCached, ObserveNothing,
           ObserveAnswer, BeginRound, roundVars, healthVars
  <2> TAKE a \in Alert
  <2>2. snapshot'.alerts[a] # None =>
          snapshot'.alerts[a] = IF since[a] = None THEN now ELSE since[a]
    BY <2>1, RoundShowsLatches
  <2>3. snapshot.alerts[a] # None => since[a] = snapshot.alerts[a]
    BY DEF AlertsInv
  <2>4. /\ snapshot.alerts[a] = None
        /\ ~ (a = "THERMAL_THROTTLE" /\ snapshot.components["soc-thermal"] = "NOT_READY")
        => since[a] = None
    BY DEF AlertsInv
  <2>5. QED
    BY <2>2, <2>3, <2>4
<1>4. QED
  BY <1>1, <1>2, <1>3, HealthTypes, PTL DEF HealthSpec, AlertsKeepActivation
=============================================================================
