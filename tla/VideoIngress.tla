---------------------------- MODULE VideoIngress ----------------------------
(***************************************************************************)
(* camera/ingress.py: the camera's single SRT ingress in Lattice.          *)
(*                                                                         *)
(* VideoIngress keeps at most one ingress at a time, the one it advertises *)
(* (info).  Three other places remember an ingress: the record of the      *)
(* StateStore in memory, the same record in the state file on disk, and    *)
(* the SRT_TARGET file MediaMTX reads when it (re)starts.  The external    *)
(* VideoManager registers and archives ingresses; its answers can be lost. *)
(*                                                                         *)
(* create, delete and recover are called one at a time: CameraControl      *)
(* holds its transition lock around each of them.  `call` is the step the  *)
(* running call has reached.  A remote call and a local write are steps of *)
(* their own, so that a crash can fall between any two of them.            *)
(***************************************************************************)
EXTENDS FiniteSets

CONSTANTS
    IngressId,  \* the ids VideoManager hands out, each at most once (a bound)
    NoId,       \* Python's None
    Faults      \* the failures the environment may produce

FaultKinds == {
    "refused",  \* a VideoManager call fails and has no effect
    "lost",     \* a VideoManager call takes effect but the caller sees an error
    "disk",     \* the state file cannot be written (StateStore._flush warns)
    "target",   \* the SRT_TARGET file cannot be written (OSError is raised)
    "command",  \* a start/stop command fails; MediaMTX is as before, or down
    "timeout",  \* a command is given up on; systemd carries it out later
    "publish",  \* an entity publish fails
    "crash",    \* the daemon dies: kill -9, or SIGTERM during the boot
    "interrupt",\* Ctrl-C during the boot: main's `finally` still runs
    "power" }   \* the whole Pi loses power

ASSUME NoIdAssumption == NoId \notin IngressId
ASSUME FaultsAssumption == Faults \subseteq FaultKinds

MaybeId == IngressId \cup {NoId}

VARIABLES
    server,  \* VideoManager: each id is "free", "live" or "archived"
    info,    \* VideoIngress._info: the ingress this process owns
    fresh,   \* create()'s local `info`: registered but not owned yet
    record,  \* StateStore._data["ingress"], the persisted record in memory
    disk,    \* the same record in the state file
    card,    \* what of the state file a power loss cannot undo
    flushError,  \* StateStore._last_flush_error: the last write of it failed
    target,  \* the ingress whose push URL is in the SRT_TARGET file
    call     \* the step of the running create / delete / recover

ingressVars == <<server, info, fresh, record, disk, card, flushError, target, call>>

CallSteps == { "idle",
               "create", "persist", "write", "undo", "unrecord",
               "delete", "forget", "disown", "recover", "unorphan",
               "ok", "error" }

IngressTypeOK ==
    /\ server \in [IngressId -> {"free", "live", "archived"}]
    /\ info \in MaybeId
    /\ fresh \in MaybeId
    /\ record \in MaybeId
    /\ disk \in MaybeId
    /\ card \in MaybeId
    /\ flushError \in BOOLEAN
    /\ target \in MaybeId
    /\ call \in CallSteps

IngressInit ==
    /\ server = [i \in IngressId |-> "free"]
    /\ info = NoId
    /\ fresh = NoId
    /\ record = NoId
    /\ disk = NoId
    /\ card = NoId
    /\ flushError = FALSE
    /\ target = NoId
    /\ call = "idle"

-----------------------------------------------------------------------------
(* VideoManager and the StateStore, as the calls see them.                 *)

(* Mutant of Archive: a word VideoManager does not use.                    *)
ArchiveUnknown(i) == server' = [server EXCEPT ![i] = "deleted"]

(* DeleteIngressStream(i) is answered with success.  Archiving an archived *)
(* ingress again is one of the things it may accept.                       *)
Archive(i) == server' = [server EXCEPT ![i] = "archived"]

(* DeleteIngressStream(i) raises: refused outright, or done but the answer *)
(* lost, or refused because i is archived already.                         *)
ArchiveRaises(i) ==
    \/ /\ "refused" \in Faults \/ server[i] = "archived"
       /\ UNCHANGED server
    \/ /\ "lost" \in Faults
       /\ Archive(i)

(* Mutant of Store: the change never gets to the file.                     *)
StoreInMemory(r) ==
    /\ record' = r
    /\ UNCHANGED <<disk, card, flushError>>

(* StateStore.set / delete: memory changes, the file follows unless the    *)
(* write fails; then it keeps its old contents (os.replace is atomic).     *)
Store(r) ==
    /\ record' = r
    /\ \/ disk' = r /\ flushError' = FALSE
       \/ "disk" \in Faults /\ UNCHANGED disk /\ flushError' = TRUE
    /\ UNCHANGED card

(* _clear_record: a key that is not there is not flushed away either.      *)
ClearRecord ==
    IF record = NoId THEN UNCHANGED <<record, disk, card, flushError>> ELSE Store(NoId)

(* Some time after os.replace the new contents are safe from a power loss: *)
(* _flush does not fsync.  Told apart only where power may fail.           *)
WriteBack ==
    /\ "power" \in Faults
    /\ card # disk
    /\ card' = disk
    /\ UNCHANGED <<server, info, fresh, record, disk, flushError, target, call>>

(* What a power loss leaves in the file: the new contents, the old ones,   *)
(* or a torn file, which _load takes for an empty one.                     *)
AfterPowerLoss == IF card = disk THEN {disk} ELSE {disk, card, NoId}

-----------------------------------------------------------------------------
(* create()                                                                *)

(* An ingress that exists is returned as it is.                            *)
Create ==
    /\ call = "idle"
    /\ call' = IF info # NoId THEN "ok" ELSE "create"
    /\ UNCHANGED <<server, info, fresh, record, disk, card, flushError, target>>

RegisterOk ==
    /\ call = "create"
    /\ \E i \in IngressId :
        /\ server[i] = "free"
        /\ server' = [server EXCEPT ![i] = "live"]
        /\ fresh' = i
    /\ call' = "persist"
    /\ UNCHANGED <<info, record, disk, card, flushError, target>>

(* The registration raises.  With "lost" the ingress exists all the same:  *)
(* the call timed out, or its answer was not an SRT ingress.               *)
RegisterRaises ==
    /\ call = "create"
    /\ \/ /\ "refused" \in Faults \/ \A i \in IngressId : server[i] # "free"
          /\ UNCHANGED server
       \/ /\ "lost" \in Faults
          /\ \E i \in IngressId :
              /\ server[i] = "free"
              /\ server' = [server EXCEPT ![i] = "live"]
    /\ call' = "error"
    /\ UNCHANGED <<info, fresh, record, disk, card, flushError, target>>

(* _persist, before the target file is touched.                            *)
Persist ==
    /\ call = "persist"
    /\ Store(fresh)
    /\ call' = "write"
    /\ UNCHANGED <<server, info, fresh, target>>

(* _write_srt_target succeeds, and create() takes ownership.               *)
WriteTargetOk ==
    /\ call = "write"
    /\ target' = fresh
    /\ info' = fresh
    /\ fresh' = NoId
    /\ call' = "ok"
    /\ UNCHANGED <<server, record, disk, card, flushError>>

(* Mutant of WriteTargetRaises: the error leaves create() without the      *)
(* archive of the ingress it has just registered.                          *)
WriteTargetRaisesLeaks ==
    /\ call = "write"
    /\ "target" \in Faults
    /\ fresh' = NoId
    /\ call' = "error"
    /\ UNCHANGED <<server, info, record, disk, card, flushError, target>>

WriteTargetRaises ==
    /\ call = "write"
    /\ "target" \in Faults
    /\ call' = "undo"
    /\ UNCHANGED <<server, info, fresh, record, disk, card, flushError, target>>

(* VideoIngress._archive_best_effort(fresh): a failure keeps the record.   *)
UndoOk ==
    /\ call = "undo"
    /\ Archive(fresh)
    /\ call' = "unrecord"
    /\ UNCHANGED <<info, fresh, record, disk, card, flushError, target>>

UndoRaises ==
    /\ call = "undo"
    /\ ArchiveRaises(fresh)
    /\ fresh' = NoId
    /\ call' = "error"
    /\ UNCHANGED <<info, record, disk, card, flushError, target>>

Unrecord ==
    /\ call = "unrecord"
    /\ ClearRecord
    /\ fresh' = NoId
    /\ call' = "error"
    /\ UNCHANGED <<server, info, target>>

-----------------------------------------------------------------------------
(* delete()                                                                *)

Delete ==
    /\ call = "idle"
    /\ call' = IF info = NoId THEN "ok" ELSE "delete"
    /\ UNCHANGED <<server, info, fresh, record, disk, card, flushError, target>>

DeleteOk ==
    /\ call = "delete"
    /\ Archive(info)
    /\ call' = "forget"
    /\ UNCHANGED <<info, fresh, record, disk, card, flushError, target>>

(* The id and the record are kept for a retry.                             *)
DeleteRaises ==
    /\ call = "delete"
    /\ ArchiveRaises(info)
    /\ call' = "error"
    /\ UNCHANGED <<info, fresh, record, disk, card, flushError, target>>

Forget ==
    /\ call = "forget"
    /\ ClearRecord
    /\ call' = "disown"
    /\ UNCHANGED <<server, info, fresh, target>>

Disown ==
    /\ call = "disown"
    /\ info' = NoId
    /\ call' = "ok"
    /\ UNCHANGED <<server, fresh, record, disk, card, flushError, target>>

-----------------------------------------------------------------------------
(* recover(): never raises.                                                *)

(* Nothing to do without a record, or when this process owns an ingress.   *)
Recover ==
    /\ call = "idle"
    /\ call' = IF record = NoId \/ info # NoId THEN "ok" ELSE "recover"
    /\ UNCHANGED <<server, info, fresh, record, disk, card, flushError, target>>

RecoverOk ==
    /\ call = "recover"
    /\ Archive(record)
    /\ call' = "unorphan"
    /\ UNCHANGED <<info, fresh, record, disk, card, flushError, target>>

(* Mutant of RecoverRaises: the record goes whatever the archive did.      *)
RecoverRaisesForgets ==
    /\ call = "recover"
    /\ ArchiveRaises(record)
    /\ ClearRecord
    /\ call' = "ok"
    /\ UNCHANGED <<info, fresh, target>>

(* The record is kept, so that the next boot tries again.                  *)
RecoverRaises ==
    /\ call = "recover"
    /\ ArchiveRaises(record)
    /\ call' = "ok"
    /\ UNCHANGED <<info, fresh, record, disk, card, flushError, target>>

Unorphan ==
    /\ call = "unorphan"
    /\ ClearRecord
    /\ call' = "ok"
    /\ UNCHANGED <<server, info, fresh, target>>

-----------------------------------------------------------------------------
IngressStep ==
    \/ RegisterOk \/ RegisterRaises \/ Persist
    \/ WriteTargetOk \/ WriteTargetRaises
    \/ UndoOk \/ UndoRaises \/ Unrecord
    \/ DeleteOk \/ DeleteRaises \/ Forget \/ Disown
    \/ RecoverOk \/ RecoverRaises \/ Unorphan

(* The caller has taken the result.                                        *)
Return ==
    /\ call \in {"ok", "error"}
    /\ call' = "idle"
    /\ UNCHANGED <<server, info, fresh, record, disk, card, flushError, target>>

(* The process dies and comes back: only the server and the files remain,  *)
(* and StateStore._load reads the record from the file.                    *)
IngressLost ==
    /\ info' = NoId
    /\ fresh' = NoId
    /\ record' = disk'
    /\ flushError' = FALSE
    /\ call' = "idle"
    /\ UNCHANGED <<server, target>>

(* Ctrl-C breaks the running call off, and KeyboardInterrupt is not among  *)
(* the errors the handlers above catch.  A remote call that was under way  *)
(* may have taken effect.  A write of the record is done or not: what      *)
(* memory says of it no longer matters, main only shuts down from here.    *)
IngressInterrupted ==
    /\ \/ UNCHANGED server
       \/ call = "create" /\ \E i \in IngressId :
            server[i] = "free" /\ server' = [server EXCEPT ![i] = "live"]
       \/ call = "undo" /\ Archive(fresh)
       \/ call = "delete" /\ Archive(info)
       \/ call = "recover" /\ Archive(record)
    /\ fresh' = NoId
    /\ call' = "idle"
    /\ UNCHANGED <<info, record, disk, card, flushError, target>>
=============================================================================
