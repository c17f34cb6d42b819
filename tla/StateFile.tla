------------------------------- MODULE StateFile -------------------------------
(***************************************************************************)
(* state.py, entity/identity.py and the created time of main.py: the file  *)
(* that carries the daemon's identity and its ingress record from one      *)
(* process to the next.  The operator tools of scripts/ resolve the id the *)
(* same way and open the same file with a StateStore of their own, so its  *)
(* lock does not keep them and the daemon apart.                           *)
(*                                                                         *)
(* A flush is three steps on a shared name: state.json.tmp is opened,      *)
(* written, and renamed.  The name and the file behind it are told apart:  *)
(* who holds a file open goes on writing to it when it has been renamed.   *)
(* What a power loss leaves of a flush is VideoIngress's.                  *)
(***************************************************************************)
EXTENDS Naturals

CONSTANTS
    Pin,        \* what an operator may set ENTITY_ID to
    RandomId,   \* what uuid4() may return
    Board,      \* the id derived from the board's serial
    None,       \* no value, no file
    File,       \* the files there can be at once
    FileFaults, \* what may go wrong, see FileFaultKinds
    MaxBoots,   \* daemons started (a bound)
    MaxScripts, \* scripts started (a bound)
    MaxRecords  \* ingress records written (a bound)

FileFaultKinds == {
    "crash",    \* a process dies
    "disk",     \* a step of a flush, or reading the file, raises OSError (once: a bound)
    "lost",     \* the state file is deleted or damaged (once: a bound)
    "serial" }  \* /proc/cpuinfo cannot be read

ASSUME FileFaultsAssumption == FileFaults \subseteq FileFaultKinds
ASSUME FileBoundsAssumption == MaxBoots \in Nat /\ MaxScripts \in Nat /\ MaxRecords \in Nat
ASSUME IdsAssumption ==
    /\ None \notin Pin \cup RandomId \cup {Board} \cup File
    /\ Board \notin Pin \cup RandomId
    /\ Pin \cap RandomId = {}

VARIABLES
    state,    \* the file named state.json, None when there is none
    tmp,      \* the file named state.json.tmp
    text,     \* what each file holds
    pc,       \* each process; the flush is "open", "write", "replace"
    then,     \* where it goes on after a flush
    handle,   \* the file it writes
    data,     \* StateStore._data
    flushError, \* StateStore._last_flush_error is set: its last flush failed
    ident,    \* the entity id it has resolved
    pin,      \* ENTITY_ID in the configuration file
    cfg,      \* ENTITY_ID as the process has read it
    serial,   \* what /proc/cpuinfo says: Board, or None off a Pi
    starts,   \* processes started: tells the daemons' created times apart
    records,  \* ingress records written: tells them apart
    drawn,    \* random ids generated
    shown,    \* (history) identity of the last entity built
    harm,     \* (history) what has gone wrong with the file or the serial
    pinned,   \* (history) ENTITY_ID has been set
    apart     \* (history) no daemon had come up with the script's ENTITY_ID when
              \* it started, or another one has started since

diskVars == <<state, tmp, text>>
processVars == <<pc, then, handle, data, flushError, ident, cfg>>
operatorVars == <<pin, pinned>>
fileVars == <<diskVars, processVars, operatorVars, serial, starts, records, drawn,
              shown, harm, apart>>

Process == {"daemon", "script"}
Id == Pin \cup RandomId \cup {Board}
Data == [id : Id \cup {None}, created : Nat, record : Nat]
NoData == [id |-> None, created |-> 0, record |-> 0]
Points == {"off", "loaded", "identified", "dated", "up", "open", "write", "replace"}

(* A file is empty, or the JSON of a _data, or a mixture nobody can parse. *)
Empty == [kind |-> "empty", data |-> NoData]
Torn == [kind |-> "torn", data |-> NoData]
Whole(d) == [kind |-> "whole", data |-> d]

FileTypeOK ==
    /\ state \in File \cup {None}
    /\ tmp \in File \cup {None}
    /\ text \in [File -> [kind : {"empty", "torn", "whole"}, data : Data]]
    /\ pc \in [Process -> Points]
    /\ then \in [Process -> {"identified", "dated", "up"}]
    /\ handle \in [Process -> File \cup {None}]
    /\ data \in [Process -> Data]
    /\ flushError \in [Process -> BOOLEAN]
    /\ ident \in [Process -> Id \cup {None}]
    /\ \A p \in Process : pc[p] \notin {"off", "loaded"} => ident[p] # None
    /\ pin \in Pin \cup {None}
    /\ cfg \in [Process -> Pin \cup {None}]
    /\ serial \in {Board, None}
    /\ starts \in [Process -> Nat]
    /\ records \in Nat
    /\ drawn \subseteq RandomId
    /\ shown \in [id : Id \cup {None}, created : Nat]
    /\ harm \subseteq {"disk", "lost", "script", "serial"}
    /\ pinned \in BOOLEAN
    /\ apart \in BOOLEAN

FileInit ==
    /\ state = None
    /\ tmp = None
    /\ text = [f \in File |-> Empty]
    /\ pc = [p \in Process |-> "off"]
    /\ then = [p \in Process |-> "up"]
    /\ handle = [p \in Process |-> None]
    /\ data = [p \in Process |-> NoData]
    /\ flushError = [p \in Process |-> FALSE]
    /\ ident = [p \in Process |-> None]
    /\ pin \in Pin \cup {None}
    /\ cfg = [p \in Process |-> None]
    /\ serial \in {Board, None}
    /\ starts = [p \in Process |-> 0]
    /\ records = 0
    /\ drawn = {}
    /\ shown = [id |-> None, created |-> 0]
    /\ harm = {}
    /\ pinned = (pin # None)
    /\ apart = FALSE

GoTo(p, to) == pc' = [pc EXCEPT ![p] = to]

Flushing == {"open", "write", "replace"}

(* Where p is, or will be when the flush it is in has ended.               *)
Bound(p) == IF pc[p] \in Flushing THEN then[p] ELSE pc[p]

(* StateStore.set: memory first, then the flush.                           *)
Set(p, d, after) ==
    /\ data' = [data EXCEPT ![p] = d]
    /\ then' = [then EXCEPT ![p] = after]
    /\ GoTo(p, "open")

-----------------------------------------------------------------------------
(* The start of a process: load, resolve_entity_id, _created_time.         *)

(* StateStore.__init__: a file that is missing, damaged or not readable    *)
(* counts as empty.                                                        *)
Load(p) ==
    /\ pc[p] = "off"
    /\ starts[p] < IF p = "daemon" THEN MaxBoots ELSE MaxScripts
    /\ starts' = [starts EXCEPT ![p] = @ + 1]
    /\ \/ /\ data' = [data EXCEPT ![p] = IF state # None /\ text[state].kind = "whole"
                                         THEN text[state].data ELSE NoData]
          /\ UNCHANGED harm
       \/ /\ state # None /\ "disk" \in FileFaults \ harm
          /\ data' = [data EXCEPT ![p] = NoData]
          /\ harm' = harm \cup {"disk"}
    /\ flushError' = [flushError EXCEPT ![p] = FALSE]
    /\ cfg' = [cfg EXCEPT ![p] = pin]
    /\ ident' = [ident EXCEPT ![p] = None]
    /\ apart' = (p = "script" => Bound("daemon") # "up" \/ cfg["daemon"] # pin)
    /\ GoTo(p, "loaded")
    /\ UNCHANGED <<diskVars, then, handle, operatorVars, serial, records, drawn, shown>>

(* Mutant of Preferred: the board's id goes before the recorded one.       *)
PreferredBoard(p) ==
    IF cfg[p] # None THEN cfg[p] ELSE IF serial # None THEN serial ELSE data[p].id

(* ENTITY_ID goes before the recorded id.                                  *)
Preferred(p) == IF cfg[p] # None THEN cfg[p] ELSE data[p].id

(* Mutant of Candidates: it is not checked that there is a serial.         *)
CandidatesUnchecked(p) == IF Preferred(p) # None THEN {Preferred(p)} ELSE {serial}

(* With neither, the id of the board, or a random one without its serial.  *)
Candidates(p) ==
    IF Preferred(p) # None THEN {Preferred(p)}
    ELSE ({serial} \ {None}) \cup
         (IF serial = None \/ "serial" \in FileFaults THEN RandomId \ drawn ELSE {})

AfterResolve(p) == IF p = "daemon" THEN "identified" ELSE "up"

(* The id that is recorded already is not written again.                   *)
ResolveKnown(p) ==
    /\ pc[p] = "loaded"
    /\ data[p].id \in Candidates(p)
    /\ ident' = [ident EXCEPT ![p] = data[p].id]
    /\ GoTo(p, AfterResolve(p))
    /\ UNCHANGED <<diskVars, then, handle, data, flushError, cfg, operatorVars, serial, starts,
                   records, drawn, shown, harm, apart>>

(* Mutant of ResolveNew: the new id is not recorded.                       *)
ResolveNewUnrecorded(p) ==
    /\ pc[p] = "loaded"
    /\ \E id \in Candidates(p) \ {data[p].id} :
        /\ ident' = [ident EXCEPT ![p] = id]
        /\ drawn' = drawn \cup ({id} \cap RandomId)
    /\ GoTo(p, AfterResolve(p))
    /\ UNCHANGED <<diskVars, then, handle, data, flushError, cfg, operatorVars, serial, starts,
                   records, shown, harm, apart>>

ResolveNew(p) ==
    /\ pc[p] = "loaded"
    /\ \E id \in Candidates(p) \ {data[p].id} :
        /\ ident' = [ident EXCEPT ![p] = id]
        /\ drawn' = drawn \cup ({id} \cap RandomId)
        /\ harm' = harm \cup (IF p = "script" THEN {"script"} ELSE {})
                        \cup (IF id \in RandomId /\ serial # None THEN {"serial"} ELSE {})
        /\ Set(p, [data[p] EXCEPT !.id = id], AfterResolve(p))
    /\ UNCHANGED <<diskVars, handle, flushError, cfg, operatorVars, serial, starts, records,
                   shown, apart>>

(* _created_time: the recorded one, or now.                                *)
Date ==
    /\ pc["daemon"] = "identified"
    /\ IF data["daemon"].created # 0 THEN GoTo("daemon", "dated") /\ UNCHANGED <<data, then>>
       ELSE Set("daemon", [data["daemon"] EXCEPT !.created = starts["daemon"]], "dated")
    /\ UNCHANGED <<diskVars, handle, flushError, ident, cfg, operatorVars, serial, starts,
                   records, drawn, shown, harm, apart>>

(* The builder is made with the id and the created time.                   *)
Build ==
    /\ pc["daemon"] = "dated"
    /\ shown' = [id |-> ident["daemon"], created |-> data["daemon"].created]
    /\ GoTo("daemon", "up")
    /\ UNCHANGED <<diskVars, then, handle, data, flushError, ident, cfg, operatorVars, serial,
                   starts, records, drawn, harm, apart>>

(* Start records an ingress; Stop, recover or shutdown deletes the record. *)
Record ==
    /\ pc["daemon"] = "up"
    /\ \/ /\ records < MaxRecords
          /\ records' = records + 1
          /\ Set("daemon", [data["daemon"] EXCEPT !.record = records + 1], "up")
       \/ /\ data["daemon"].record # 0
          /\ Set("daemon", [data["daemon"] EXCEPT !.record = 0], "up")
          /\ UNCHANGED records
    /\ UNCHANGED <<diskVars, handle, flushError, ident, cfg, operatorVars, serial, starts, drawn,
                   shown, harm, apart>>

-----------------------------------------------------------------------------
(* _flush.                                                                 *)

(* Mutant of Open: no file of its own, state.json itself is rewritten.     *)
OpenInPlace(p) ==
    /\ pc[p] = "open"
    /\ \E f \in IF state # None THEN {state} ELSE File \ {handle[q] : q \in Process} :
        /\ tmp' = f
        /\ handle' = [handle EXCEPT ![p] = f]
        /\ text' = [text EXCEPT ![f] = Empty]
    /\ GoTo(p, "write")
    /\ UNCHANGED <<state, then, data, flushError, ident, cfg, operatorVars, serial, starts,
                   records, drawn, shown, harm, apart>>

(* open(tmp, "w"): the file of that name is cut to nothing, or created.    *)
Open(p) ==
    /\ pc[p] = "open"
    /\ \E f \in IF tmp # None THEN {tmp}
                ELSE File \ ({state} \cup {handle[q] : q \in Process}) :
        /\ tmp' = f
        /\ handle' = [handle EXCEPT ![p] = f]
        /\ text' = [text EXCEPT ![f] = Empty]
    /\ GoTo(p, "write")
    /\ UNCHANGED <<state, then, data, flushError, ident, cfg, operatorVars, serial, starts,
                   records, drawn, shown, harm, apart>>

(* The buffer reaches the file when it is closed.  Over what another       *)
(* process has written since, the longer text keeps its end.               *)
Write(p) ==
    /\ pc[p] = "write"
    /\ \E t \in {Whole(data[p])} \cup IF text[handle[p]] = Empty THEN {} ELSE {Torn} :
        text' = [text EXCEPT ![handle[p]] = t]
    /\ handle' = [handle EXCEPT ![p] = None]
    /\ GoTo(p, "replace")
    /\ UNCHANGED <<state, tmp, then, data, flushError, ident, cfg, operatorVars, serial, starts,
                   records, drawn, shown, harm, apart>>

(* os.replace: what was state.json is gone with its last user.             *)
Replace(p) ==
    /\ pc[p] = "replace"
    /\ tmp # None
    /\ state' = tmp
    /\ tmp' = None
    /\ text' = IF state # None /\ \A q \in Process : handle[q] # state
               THEN [text EXCEPT ![state] = Empty] ELSE text
    /\ flushError' = [flushError EXCEPT ![p] = FALSE]
    /\ GoTo(p, then[p])
    /\ UNCHANGED <<then, handle, data, ident, cfg, operatorVars, serial, starts, records,
                   drawn, shown, harm, apart>>

(* OSError: the record stays in memory.  A write cut short leaves the name *)
(* of the temporary file; a rename also fails when the name has gone.      *)
FlushRaises(p) ==
    /\ pc[p] \in Flushing
    /\ \/ "disk" \in FileFaults \ harm /\ harm' = harm \cup {"disk"}
       \/ pc[p] = "replace" /\ tmp = None /\ UNCHANGED harm
    /\ text' = IF pc[p] = "write" THEN [text EXCEPT ![handle[p]] = Torn] ELSE text
    /\ handle' = [handle EXCEPT ![p] = None]
    /\ flushError' = [flushError EXCEPT ![p] = TRUE]
    /\ GoTo(p, then[p])
    /\ UNCHANGED <<state, tmp, then, data, ident, cfg, operatorVars, serial, starts, records,
                   drawn, shown, apart>>

-----------------------------------------------------------------------------
(* What happens around the processes.                                      *)

(* The script is done, or a process dies, with what it had in memory.      *)
Exit(p) ==
    /\ pc[p] # "off"
    /\ \/ p = "script" /\ pc[p] = "up"
       \/ "crash" \in FileFaults
    /\ GoTo(p, "off")
    /\ handle' = [handle EXCEPT ![p] = None]
    /\ then' = [then EXCEPT ![p] = "up"]
    /\ data' = [data EXCEPT ![p] = NoData]
    /\ flushError' = [flushError EXCEPT ![p] = FALSE]
    /\ ident' = [ident EXCEPT ![p] = None]
    /\ cfg' = [cfg EXCEPT ![p] = None]
    /\ UNCHANGED <<diskVars, operatorVars, serial, starts, records, drawn, shown, harm, apart>>

(* The operator edits ENTITY_ID.                                           *)
EditConfig ==
    /\ pin' \in (Pin \cup {None}) \ {pin}
    /\ pinned' = (pinned \/ pin' # None)
    /\ UNCHANGED <<diskVars, processVars, serial, starts, records, drawn, shown, harm, apart>>

(* The state file is no longer what was written, or deleted: which of the  *)
(* two makes no difference to _load.                                       *)
FileLost ==
    /\ "lost" \in FileFaults \ harm
    /\ state # None
    /\ text' = [text EXCEPT ![state] = Torn]
    /\ harm' = harm \cup {"lost"}
    /\ UNCHANGED <<state, tmp, processVars, operatorVars, serial, starts, records, drawn, shown,
                   apart>>

FileNext ==
    \/ \E p \in Process :
        \/ Load(p) \/ ResolveKnown(p) \/ ResolveNew(p)
        \/ Open(p) \/ Write(p) \/ Replace(p) \/ FlushRaises(p) \/ Exit(p)
    \/ Date \/ Build \/ Record \/ EditConfig \/ FileLost

FileSpec == FileInit /\ [][FileNext]_fileVars

-----------------------------------------------------------------------------
(* Properties.                                                             *)

(* Somebody else has written the file, or damaged it.                      *)
Foreign == harm \cap {"lost", "script"} # {}

(* The file is not what the daemon has made it, or was not to be had.      *)
Damaged == harm \ {"serial"} # {}

(* "Atomic writes" (state.py:12): as long as nobody else has written it or *)
(* touched it, the file is whole at every moment, whichever flush fails or *)
(* is cut short by a death, and between two flushes it holds what the      *)
(* daemon's memory holds, unless the last flush has failed: the next one   *)
(* that succeeds makes up for it.                                          *)
RecordsSurvive ==
    ~Foreign =>
        /\ state # None => text[state].kind = "whole"
        /\ pc["daemon"] = "up" /\ ~flushError["daemon"] =>
              state # None /\ text[state].data = data["daemon"]

(* "An asset must keep one id for its whole life" (identity.py:3), and one *)
(* creation time (state.py:9): the id changes to one the operator has set. *)
(* Otherwise only a damaged file can change it, and not even that where    *)
(* the serial can be read and ENTITY_ID was never used; only a damaged     *)
(* file changes the creation time.                                         *)
IdentityKept ==
    [][ shown' # shown /\ shown.id # None =>
          /\ \/ shown'.id = shown.id
             \/ shown'.id \in Pin
             \/ Damaged /\ (serial = None \/ pinned \/ "serial" \in harm)
          /\ (shown'.created = shown.created \/ Damaged) ]_fileVars

(* "The camera's entity id is resolved exactly as the daemon does it"      *)
(* (verify.py): a script that starts next to a daemon with the same        *)
(* ENTITY_ID resolves the id that daemon publishes, and leaves the file as *)
(* it is, so that the record of the ingress cannot be lost through it,     *)
(* even if it reads the file while the daemon is in the middle of a flush. *)
ScriptsAgree ==
    [][ pc["script"] = "loaded" /\ pc'["script"] \in {"open", "up"} /\ ~apart /\ ~Damaged =>
          pc'["script"] = "up" /\ ident'["script"] = shown.id ]_fileVars
=============================================================================
