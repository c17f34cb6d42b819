---------------------------- MODULE HealthSampler ----------------------------
(***************************************************************************)
(* health/: the sampler's rounds, the probes, and what the entity says of  *)
(* the sensor and of its health (entity/contributors.py, main.observe).    *)
(*                                                                         *)
(* A round has one step that asks the pipeline for its status and one that *)
(* does the rest: reads the operator's intent, then judges and stores the  *)
(* snapshot.  A transition of CameraControl can end between the two.  The  *)
(* thermal and power probes run first in the code; they share no state     *)
(* with any other thread, so they are part of the second step.             *)
(*                                                                         *)
(* External: MediaMTX (its byte counter, its control API), the sysfs       *)
(* temperature, the firmware flags of vcgencmd, procfs and the disk.  The  *)
(* task stream is TaskStream's; any state of it may be read here.          *)
(***************************************************************************)
EXTENDS Naturals, FiniteSets

CONSTANTS
    None,          \* Python's None
    MaxRounds,     \* sampling rounds in a behaviour (a bound)
    MaxBytes,      \* MediaMTX's byte counter stops there (a bound)
    Temperatures,  \* readings: "normal", above the "warn" or the "fail" threshold, None
    Bits,          \* the firmware flags that may be set, see FlagBits
    Hosts,         \* of load, memory and disk those past their limit, or None: unreadable
    Links          \* the task stream: "down", "new", or a heartbeat "fresh" or "stale"

ASSUME RoundsAssumption == MaxRounds \in Nat /\ MaxBytes \in Nat
ASSUME NoneAssumption == None \notin Nat \cup BOOLEAN \cup {"normal", "warn", "fail"}
FlagBits == {"under_voltage", "soft_temp_limit", "throttled", "occurred"}
ASSUME ReadingsAssumption ==
    /\ Bits \subseteq FlagBits
    /\ Temperatures \subseteq {"normal", "warn", "fail", None}
    /\ Hosts \subseteq {None} \cup SUBSET {"load", "memory", "disk"}
    /\ Links \subseteq {"down", "new", "fresh", "stale"}

VARIABLES
    desiredOn,  \* CameraControl._desired_on
    bytes,      \* MediaMTX: bytesReceived of the camera path
    flowed,     \* MediaMTX received bytes since the last answer (auxiliary)
    restarted,  \* MediaMTX restarted since the last answer (auxiliary)
    lastBytes,  \* MediaMtxStatusProbe._last_bytes
    status,     \* MediaMtxStatusProbe._cached
    evidence,   \* flowed, restarted, readers as `status` was made (auxiliary)
    now,        \* the round's time: rounds are numbered
    judging,    \* between the two steps of a round
    since,      \* _Activation._since of the thermal and of the power probe
    snapshot    \* HealthSampler._snapshot

mediaVars == <<bytes, flowed, restarted>>
probeVars == <<lastBytes, status, evidence>>
roundVars == <<now, judging>>
healthVars == <<desiredOn, mediaVars, probeVars, roundVars, since, snapshot>>

Component == {"soc-thermal", "power", "camera", "stream", "system", "tasking"}
Alert == {"THERMAL_THROTTLE", "UNDER_VOLTAGE"}
HealthStatus == {"HEALTHY", "NOT_READY", "WARN", "OFFLINE", "FAIL"}
Observed == BOOLEAN \cup {None}
Time == 0..MaxRounds

(* `on` is auxiliary: the intent the components were judged against.       *)
Snapshot == [ components : [Component -> HealthStatus],
              alerts : [Alert -> Time \cup {None}],
              ready : Observed, on : BOOLEAN ]

HealthTypeOK ==
    /\ desiredOn \in BOOLEAN
    /\ bytes \in 0..MaxBytes
    /\ flowed \in BOOLEAN
    /\ restarted \in BOOLEAN
    /\ lastBytes \in 0..MaxBytes \cup {None}
    /\ status \in [ready : Observed, pushing : Observed] \cup {None}
    /\ evidence \in [flowed : BOOLEAN, restarted : BOOLEAN, readers : BOOLEAN] \cup {None}
    /\ now \in Time
    /\ judging \in BOOLEAN
    /\ since \in [Alert -> Time \cup {None}]
    /\ snapshot \in Snapshot \cup {None}

HealthInit ==
    /\ desiredOn = FALSE
    /\ bytes = 0
    /\ flowed = FALSE
    /\ restarted = FALSE
    /\ lastBytes = None
    /\ status = None
    /\ evidence = None
    /\ now = 0
    /\ judging = FALSE
    /\ since = [a \in Alert |-> None]
    /\ snapshot = None

-----------------------------------------------------------------------------
(* The world: MediaMTX and the transitions.                                *)

Frames ==
    /\ bytes < MaxBytes
    /\ bytes' = bytes + 1
    /\ flowed' = TRUE
    /\ UNCHANGED <<desiredOn, restarted, probeVars, roundVars, since, snapshot>>

MediaRestarts ==
    /\ bytes' = 0
    /\ restarted' = TRUE
    /\ UNCHANGED <<desiredOn, flowed, probeVars, roundVars, since, snapshot>>

(* A Start or a Stop reaches the line that sets the intent.                *)
Switch ==
    /\ desiredOn' = ~desiredOn
    /\ UNCHANGED <<mediaVars, probeVars, roundVars, since, snapshot>>

-----------------------------------------------------------------------------
(* PipelineProbe, first half: MediaMtxStatusProbe.status().                *)

BeginRound ==
    /\ ~judging
    /\ now < MaxRounds
    /\ now' = now + 1
    /\ judging' = TRUE
    /\ UNCHANGED <<desiredOn, bytes, since, snapshot>>

(* The cached status is younger than the TTL: rounds less than 2 s apart.  *)
ObserveCached ==
    /\ status # None
    /\ BeginRound
    /\ UNCHANGED <<flowed, restarted, probeVars>>

(* No answer, an answer that makes no sense, or 404: the path is not       *)
(* active.  The byte baseline is left as it is.                            *)
ObserveNothing ==
    /\ BeginRound
    /\ status' \in { [ready |-> None, pushing |-> None],
                     [ready |-> FALSE, pushing |-> FALSE] }
    /\ evidence' = [flowed |-> flowed, restarted |-> restarted, readers |-> FALSE]
    /\ UNCHANGED <<flowed, restarted, lastBytes>>

(* Mutant of Pushing: a counter that stands still passes for growth.       *)
PushingAtLeast(readers, received) ==
    CASE ~readers -> FALSE
      [] readers /\ (received = None \/ lastBytes = None) -> None
      [] readers /\ received # None /\ lastBytes # None -> received >= lastBytes

(* _interpret: the counter grew, stands still, or cannot be compared.      *)
Pushing(readers, received) ==
    CASE ~readers -> FALSE
      [] readers /\ (received = None \/ lastBytes = None) -> None
      [] readers /\ received # None /\ lastBytes # None ->
            IF received > lastBytes THEN TRUE
            ELSE IF received = lastBytes THEN FALSE
            ELSE None

ObserveAnswer ==
    /\ BeginRound
    /\ \E ready, readers \in BOOLEAN, received \in {bytes, None} :
        /\ status' = [ready |-> ready, pushing |-> Pushing(readers, received)]
        /\ evidence' = [flowed |-> flowed, restarted |-> restarted, readers |-> readers]
        /\ lastBytes' = received
    /\ flowed' = FALSE
    /\ restarted' = FALSE

-----------------------------------------------------------------------------
(* The other probes, as functions of what they read.                       *)

(* vcgencmd: the bits set now and since boot, or None when it cannot be    *)
(* run.  "occurred" stands for the three since-boot bits PowerProbe reads. *)
FlagReadings == {None} \cup SUBSET Bits

Has(flags, bit) == flags # None /\ bit \in flags

(* ThermalProbe: an unreadable temperature is an error, whatever the flags.*)
ThermalStatus(temp, flags) ==
    CASE temp = None -> "NOT_READY"
      [] temp = "fail" \/ (temp # None /\ Has(flags, "throttled")) -> "FAIL"
      [] temp \in {"normal", "warn"} /\ ~Has(flags, "throttled") ->
            IF temp = "warn" \/ Has(flags, "soft_temp_limit") THEN "WARN" ELSE "HEALTHY"

(* Mutant of PowerStatus: no component at all without vcgencmd.            *)
PowerStatusMissing(flags) ==
    IF flags = None THEN None
    ELSE IF "under_voltage" \in flags THEN "FAIL"
    ELSE IF "occurred" \in flags THEN "WARN"
    ELSE "HEALTHY"

PowerStatus(flags) ==
    IF flags = None THEN "NOT_READY"
    ELSE IF "under_voltage" \in flags THEN "FAIL"
    ELSE IF "occurred" \in flags THEN "WARN"
    ELSE "HEALTHY"

(* SystemProbe: it reads all three or reports an error.                    *)
SystemStatus(host) ==
    IF host = None THEN "NOT_READY" ELSE IF host # {} THEN "WARN" ELSE "HEALTHY"

(* TaskStreamProbe.  A stream that has had no heartbeat yet is healthy; a  *)
(* heartbeat of an earlier stream counts as this one's.                    *)
TaskingStatus(link) ==
    CASE link = "down" -> "OFFLINE"
      [] link = "stale" -> "WARN"
      [] link \in {"new", "fresh"} -> "HEALTHY"

(* Mutant of Update: every sample stamps the alert anew.                   *)
UpdateRestamps(latch, active) == IF active THEN now ELSE None

(* _Activation.update                                                      *)
Update(latch, active) ==
    IF ~active THEN None ELSE IF latch = None THEN now ELSE latch

(* The probe error path leaves the thermal latch alone.                    *)
ThermalSince(temp, flags) ==
    IF temp = None THEN since["THERMAL_THROTTLE"]
    ELSE Update(since["THERMAL_THROTTLE"],
                Has(flags, "soft_temp_limit") \/ Has(flags, "throttled"))

PowerSince(flags) == Update(since["UNDER_VOLTAGE"], Has(flags, "under_voltage"))

(* Mutant of Judge: a stream stopped on purpose counts as failed.          *)
JudgeAlways(observed) ==
    IF observed = None THEN "NOT_READY"
    ELSE IF observed THEN "HEALTHY" ELSE "FAIL"

(* PipelineProbe._judge, against the intent.                               *)
Judge(observed) ==
    IF ~desiredOn \/ observed = None THEN "NOT_READY"
    ELSE IF observed THEN "HEALTHY" ELSE "FAIL"

(* HealthSampler.sample_once stores what the probes returned.              *)
CompleteRound ==
    /\ judging
    /\ judging' = FALSE
    /\ \E temp \in Temperatures, flags \in FlagReadings,
          host \in Hosts, link \in Links :
        /\ since' = [a \in Alert |-> IF a = "THERMAL_THROTTLE" THEN ThermalSince(temp, flags)
                                     ELSE PowerSince(flags)]
        /\ snapshot' =
            [ components |-> [c \in Component |->
                CASE c = "soc-thermal" -> ThermalStatus(temp, flags)
                  [] c = "power" -> PowerStatus(flags)
                  [] c = "camera" -> Judge(status.ready)
                  [] c = "stream" -> Judge(status.pushing)
                  [] c = "system" -> SystemStatus(host)
                  [] c = "tasking" -> TaskingStatus(link)],
              alerts |-> [a \in Alert |->
                IF a = "THERMAL_THROTTLE" /\ temp = None THEN None ELSE since'[a]],
              ready |-> status.ready,
              on |-> desiredOn ]
    /\ UNCHANGED <<desiredOn, mediaVars, probeVars, now>>

HealthNext ==
    \/ Frames \/ MediaRestarts \/ Switch
    \/ ObserveCached \/ ObserveNothing \/ ObserveAnswer
    \/ CompleteRound

HealthSpec == HealthInit /\ [][HealthNext]_healthVars

-----------------------------------------------------------------------------
(* What the entity says.                                                   *)

Severity(s) ==
    CASE s = "HEALTHY" -> 0 [] s = "NOT_READY" -> 1 [] s = "WARN" -> 2
      [] s = "OFFLINE" -> 3 [] s = "FAIL" -> 4

(* HealthSnapshot.overall: the worst component status.                     *)
Overall(s) ==
    CHOOSE worst \in HealthStatus :
        /\ \E c \in Component : s.components[c] = worst
        /\ \A c \in Component : Severity(s.components[c]) <= Severity(worst)

Degraded(s) == \E c \in {"soc-thermal", "power"} : s.components[c] \in {"WARN", "FAIL"}

(* observe() and SensorsContributor._state, with the snapshot cached now.  *)
SensorState ==
    IF ~desiredOn THEN "OFF"
    ELSE IF snapshot = None THEN "OPERATIONAL"
    ELSE IF snapshot.ready = FALSE THEN "NON_OPERATIONAL"
    ELSE IF Degraded(snapshot) THEN "DEGRADED"
    ELSE "OPERATIONAL"

-----------------------------------------------------------------------------
(* Properties.                                                             *)

(* "A reader alone is not enough" (pipeline.py:163-168): the probe says    *)
(* bytes are flowing only if some arrived since its previous answer, with  *)
(* unanswered and cached rounds in between; and says they are not only if  *)
(* none did, no reader is attached, or MediaMTX has restarted and its new  *)
(* counter happens to stand where the old one stood.                       *)
PushingIsFlow ==
    status # None =>
        /\ status.pushing = TRUE => evidence.flowed /\ evidence.readers
        /\ status.pushing = FALSE =>
            ~evidence.readers \/ ~evidence.flowed \/ evidence.restarted

(* Sensor and health tell one story although they are derived separately,  *)
(* the sensor from the pipeline status and the present intent, the health  *)
(* from the components of the round: unless the intent has changed since,  *)
(* the sensor is NON_OPERATIONAL exactly when the camera FAILs, and a      *)
(* healthy roll-up means an OPERATIONAL sensor.                            *)
SensorAgreesWithHealth ==
    snapshot # None /\ snapshot.on = desiredOn =>
        /\ SensorState = "NON_OPERATIONAL" <=> snapshot.components["camera"] = "FAIL"
        /\ Overall(snapshot) = "HEALTHY" => SensorState = "OPERATIONAL"

(* An alert keeps the time at which it was raised from snapshot to         *)
(* snapshot, and one raised after a round that saw its condition clear     *)
(* carries the time of its own round (probes.py:98-105).  A round whose    *)
(* temperature could not be read does not see the thermal condition.       *)
AlertsKeepActivation ==
    [][snapshot # None /\ now' = now /\ judging /\ ~judging' =>
        \A a \in Alert :
            LET before == snapshot.alerts[a]
                after == snapshot'.alerts[a]
                blind == a = "THERMAL_THROTTLE" /\ snapshot.components["soc-thermal"] = "NOT_READY"
            IN  after # None =>
                    /\ before # None => after = before
                    /\ before = None /\ ~blind => after = now
      ]_healthVars
=============================================================================
