--------------------------- MODULE StateFileProofs ---------------------------
(***************************************************************************)
(* What StateFile promises, for any number of daemons, scripts, records    *)
(* and files, any ids, and every order of their steps and deaths.          *)
(***************************************************************************)
EXTENDS StateFile, TLAPS

USE IdsAssumption, FileBoundsAssumption

-----------------------------------------------------------------------------
(* The inductive invariant, in layers.                                     *)

(* A process holds a file open exactly while it writes, and what is being  *)
(* written is never yet the state file.                                    *)
HandleInv ==
    /\ \A p \in Process : pc[p] = "write" <=> handle[p] # None
    /\ tmp # None => tmp # state

(* Only ResolveNew starts a flush of a script, and it is remembered.       *)
SoleWriter == "script" \notin harm => pc["script"] \notin Flushing

(* As long as only the daemon writes, state.json is whole at every moment, *)
(* and a flush goes through the temporary file.  A process that has loaded *)
(* it holds what it says, or nothing when it could not be read.            *)
Loaded == IF state = None THEN NoData ELSE text[state].data

Intact ==
    /\ state # None => text[state].kind = "whole"
    /\ pc["daemon"] = "loaded" => data["daemon"] \in {Loaded, NoData}
    /\ pc["daemon"] \in {"identified", "dated", "up"} /\ ~flushError["daemon"] =>
          state # None /\ text[state].data = data["daemon"]
    /\ pc["daemon"] = "write" => tmp # None /\ handle["daemon"] = tmp /\ text[tmp] = Empty
    /\ pc["daemon"] = "replace" => tmp # None /\ text[tmp] = Whole(data["daemon"])

(* Without a failing disk no flush has failed, and the file could be read. *)
Fresh ==
    /\ ~flushError["daemon"]
    /\ pc["daemon"] = "loaded" => data["daemon"] = Loaded

WholeInv == SoleWriter /\ (~Foreign => Intact) /\ (~Damaged => Fresh)

(* What a process has resolved is what it holds, and follows ENTITY_ID.    *)
IdentInv ==
    \A p \in Process : pc[p] \notin {"off", "loaded"} =>
        /\ data[p].id = ident[p]
        /\ cfg[p] # None => ident[p] = cfg[p]

(* The created time is that of a process, once it has been looked up.      *)
DateInv ==
    /\ pc["daemon"] # "off" => starts["daemon"] > 0
    /\ Bound("daemon") \in {"dated", "up"} => data["daemon"].created > 0
    /\ shown.id # None => shown.created > 0

(* With a serial that was always read and an ENTITY_ID that was never set  *)
(* there is one id only, whatever has become of the file.                  *)
BoardInv ==
    serial # None /\ ~pinned /\ "serial" \notin harm =>
        /\ pin = None
        /\ \A p \in Process : cfg[p] = None /\ {data[p].id, ident[p]} \subseteq {Board, None}
        /\ \A f \in File : text[f].data.id \in {Board, None}
        /\ shown.id \in {Board, None}

(* What the last entity said stands in the file, and in the memory of the  *)
(* daemon that has loaded it; only an id the operator set can replace it.  *)
Carries(d) == d.id \in {shown.id} \cup Pin /\ d.created = shown.created

KeptInv ==
    ~Damaged /\ shown.id # None =>
        /\ state # None /\ Carries(text[state].data)
        /\ pc["daemon"] # "off" => Carries(data["daemon"])

(* An entity shown by a daemon that has come up is that daemon's, and      *)
(* state.json says its id while the daemon writes a record, too.           *)
ShownInv ==
    Bound("daemon") = "up" =>
        /\ shown.id = ident["daemon"]
        /\ ~Damaged => state # None /\ text[state].data.id = ident["daemon"]

(* A script that started next to a daemon has read what that daemon shows. *)
ScriptInv ==
    pc["script"] = "loaded" /\ ~apart =>
        /\ Bound("daemon") \in {"up", "off"}
        /\ ~Damaged => /\ shown.id # None
                       /\ data["script"].id = shown.id
                       /\ cfg["script"] \in {None, shown.id}

-----------------------------------------------------------------------------
(* Types.                                                                  *)

FileText == [kind : {"empty", "torn", "whole"}, data : Data]

LEMMA TextsTyped ==
    /\ NoData \in Data
    /\ Empty \in FileText
    /\ Torn \in FileText
    /\ \A d \in Data : Whole(d) \in FileText
    /\ \A d \in Data : /\ \A id \in Id : [d EXCEPT !.id = id] \in Data
                       /\ \A n \in Nat : [d EXCEPT !.created = n] \in Data
                       /\ \A n \in Nat : [d EXCEPT !.record = n] \in Data
BY DEF NoData, Empty, Torn, Whole, Data, FileText

(* An id that may be resolved is an id, not None.                          *)
LEMMA CandidatesAreIds ==
    ASSUME FileTypeOK, NEW p \in Process, NEW id \in Candidates(p)
    PROVE  id \in Id /\ id # None
<1>1. cfg[p] \in Pin \cup {None} /\ data[p].id \in Id \cup {None} /\ serial \in {Board, None}
  BY DEF FileTypeOK, Data
<1>2. CASE Preferred(p) # None
  BY <1>1, <1>2 DEF Candidates, Preferred, Id
<1>3. CASE Preferred(p) = None
  <2>1. id \in ({serial} \ {None}) \cup RandomId
    BY <1>3 DEF Candidates
  <2>2. QED
    BY <1>1, <2>1 DEF Id
<1>4. QED
  BY <1>2, <1>3

(* The steps of a flush keep the types.                                    *)
LEMMA FlushTyped ==
    ASSUME FileTypeOK, NEW p \in Process, Open(p) \/ Write(p) \/ Replace(p) \/ FlushRaises(p)
    PROVE  FileTypeOK'
<1>1. CASE Open(p)
  <2>1. PICK f \in IF tmp # None THEN {tmp}
                   ELSE File \ ({state} \cup {handle[q] : q \in Process}) :
          /\ tmp' = f
          /\ handle' = [handle EXCEPT ![p] = f]
          /\ text' = [text EXCEPT ![f] = Empty]
    BY <1>1 DEF Open
  <2>2. f \in File
    BY <2>1 DEF FileTypeOK
  <2>3. text' \in [File -> FileText] /\ handle' \in [Process -> File \cup {None}]
    BY <2>1, <2>2, TextsTyped DEF FileTypeOK, FileText
  <2>4. pc' \in [Process -> Points] /\ \A q \in Process : pc'[q] \in {"off", "loaded"} <=> pc[q] \in {"off", "loaded"}
    BY <1>1 DEF Open, GoTo, FileTypeOK, Points
  <2>5. /\ tmp' \in File \cup {None}
        /\ UNCHANGED <<state, then, data, flushError, ident, cfg, pin, pinned, serial, starts,
                       records, drawn, shown, harm, apart>>
    BY <1>1, <2>1, <2>2 DEF Open, operatorVars
  <2>6. QED
    BY <2>3, <2>4, <2>5 DEF FileTypeOK, FileText
<1>2. CASE Write(p)
  <2>1. Whole(data[p]) \in FileText /\ Torn \in FileText
    BY TextsTyped DEF FileTypeOK
  <2>2. text' \in [File -> FileText]
    <3>1. PICK t \in {Whole(data[p])} \cup IF text[handle[p]] = Empty THEN {} ELSE {Torn} :
            text' = [text EXCEPT ![handle[p]] = t]
      BY <1>2 DEF Write
    <3>2. t \in FileText
      BY <2>1, <3>1
    <3>3. QED
      BY <3>1, <3>2 DEF FileTypeOK, FileText
  <2>3. pc' \in [Process -> Points] /\ \A q \in Process : pc'[q] \in {"off", "loaded"} <=> pc[q] \in {"off", "loaded"}
    BY <1>2 DEF Write, GoTo, FileTypeOK, Points
  <2>4. handle' \in [Process -> File \cup {None}]
    BY <1>2 DEF Write, FileTypeOK
  <2>5. UNCHANGED <<state, tmp, then, data, flushError, ident, cfg, pin, pinned, serial, starts,
                    records, drawn, shown, harm, apart>>
    BY <1>2 DEF Write, operatorVars
  <2>6. QED
    BY <2>2, <2>3, <2>4, <2>5 DEF FileTypeOK, FileText
<1>3. CASE Replace(p)
  <2>1. text' \in [File -> FileText]
    BY <1>3, TextsTyped DEF Replace, FileTypeOK, FileText
  <2>2. pc' \in [Process -> Points] /\ \A q \in Process : pc'[q] \notin {"off", "loaded"} => pc[q] \notin {"off", "loaded"}
    BY <1>3 DEF Replace, GoTo, FileTypeOK, Points
  <2>3. /\ state' \in File \cup {None}
        /\ tmp' \in File \cup {None}
        /\ flushError' \in [Process -> BOOLEAN]
        /\ UNCHANGED <<then, handle, data, ident, cfg, pin, pinned, serial, starts, records, drawn,
                       shown, harm, apart>>
    BY <1>3 DEF Replace, operatorVars, FileTypeOK
  <2>4. QED
    BY <2>1, <2>2, <2>3 DEF FileTypeOK, FileText
<1>4. CASE FlushRaises(p)
  <2>1. text' \in [File -> FileText]
    BY <1>4, TextsTyped DEF FlushRaises, FileTypeOK, FileText
  <2>2. pc' \in [Process -> Points] /\ \A q \in Process : pc'[q] \notin {"off", "loaded"} => pc[q] \notin {"off", "loaded"}
    BY <1>4 DEF FlushRaises, GoTo, FileTypeOK, Points, Flushing
  <2>3. /\ handle' \in [Process -> File \cup {None}]
        /\ harm' \subseteq {"disk", "lost", "script", "serial"}
        /\ flushError' \in [Process -> BOOLEAN]
    BY <1>4 DEF FlushRaises, FileTypeOK
  <2>4. UNCHANGED <<state, tmp, then, data, ident, cfg, pin, pinned, serial, starts, records, drawn,
                    shown, apart>>
    BY <1>4 DEF FlushRaises, operatorVars
  <2>5. QED
    BY <2>1, <2>2, <2>3, <2>4 DEF FileTypeOK, FileText
<1>5. QED
  BY <1>1, <1>2, <1>3, <1>4

(* So do the steps of a start and the daemon's records.                    *)
LEMMA StartTyped ==
    ASSUME FileTypeOK, NEW p \in Process, Load(p) \/ ResolveKnown(p) \/ ResolveNew(p) \/ Exit(p)
    PROVE  FileTypeOK'
<1>1. CASE Load(p)
  <2>1. (IF state # None /\ text[state].kind = "whole" THEN text[state].data ELSE NoData) \in Data
    BY TextsTyped DEF FileTypeOK
  <2>2. /\ data' \in [Process -> Data] /\ starts' \in [Process -> Nat]
        /\ flushError' \in [Process -> BOOLEAN]
        /\ harm' \subseteq {"disk", "lost", "script", "serial"}
    BY <1>1, <2>1, TextsTyped DEF Load, FileTypeOK
  <2>3. pc' \in [Process -> Points]
    BY <1>1 DEF Load, GoTo, FileTypeOK, Points
  <2>4. \A q \in Process : pc'[q] \notin {"off", "loaded"} => ident'[q] # None
    BY <1>1 DEF Load, GoTo, FileTypeOK
  <2>5. cfg' \in [Process -> Pin \cup {None}] /\ ident' \in [Process -> Id \cup {None}]
    BY <1>1 DEF Load, FileTypeOK
  <2>6. apart' \in BOOLEAN
    BY <1>1 DEF Load
  <2>7. QED
    BY <1>1, <2>2, <2>3, <2>4, <2>5, <2>6 DEF Load, FileTypeOK, diskVars, operatorVars
<1>2. CASE ResolveKnown(p)
  <2>1. data[p].id \in Id /\ data[p].id # None
    BY <1>2, CandidatesAreIds DEF ResolveKnown
  <2>2. QED
    BY <1>2, <2>1 DEF ResolveKnown, GoTo, AfterResolve, Points, FileTypeOK, diskVars, operatorVars
<1>3. CASE ResolveNew(p)
  <2>1. PICK id \in Candidates(p) \ {data[p].id} :
          /\ ident' = [ident EXCEPT ![p] = id]
          /\ drawn' = drawn \cup ({id} \cap RandomId)
          /\ harm' = harm \cup (IF p = "script" THEN {"script"} ELSE {})
                        \cup (IF id \in RandomId /\ serial # None THEN {"serial"} ELSE {})
          /\ Set(p, [data[p] EXCEPT !.id = id], AfterResolve(p))
    BY <1>3 DEF ResolveNew
  <2>2. id \in Id /\ id # None
    BY CandidatesAreIds
  <2>3. data' \in [Process -> Data]
    BY <2>1, <2>2, TextsTyped DEF Set, FileTypeOK
  <2>4. then' \in [Process -> {"identified", "dated", "up"}] /\ pc' \in [Process -> Points]
    BY <2>1 DEF Set, GoTo, AfterResolve, Points, FileTypeOK
  <2>5. /\ ident' \in [Process -> Id \cup {None}]
        /\ \A q \in Process : pc'[q] \notin {"off", "loaded"} => ident'[q] # None
    BY <2>1, <2>2 DEF Set, GoTo, FileTypeOK
  <2>6. harm' \subseteq {"disk", "lost", "script", "serial"} /\ drawn' \subseteq RandomId
    BY <2>1 DEF FileTypeOK
  <2>7. QED
    BY <1>3, <2>3, <2>4, <2>5, <2>6 DEF ResolveNew, FileTypeOK, diskVars, operatorVars
<1>4. CASE Exit(p)
  <2>1. data' \in [Process -> Data]
    BY <1>4, TextsTyped DEF Exit, FileTypeOK
  <2>2. QED
    BY <1>4, <2>1 DEF Exit, GoTo, Points, FileTypeOK, diskVars, operatorVars
<1>5. QED
  BY <1>1, <1>2, <1>3, <1>4

LEMMA DaemonTyped ==
    ASSUME FileTypeOK, Date \/ Build \/ Record
    PROVE  FileTypeOK'
<1>0. "daemon" \in Process /\ data["daemon"] \in Data
  BY DEF Process, FileTypeOK
<1>1. CASE Date
  <2>1. CASE data["daemon"].created # 0
    BY <1>1, <2>1 DEF Date, GoTo, Points, FileTypeOK, diskVars, operatorVars
  <2>2. CASE data["daemon"].created = 0
    <3>1. Set("daemon", [data["daemon"] EXCEPT !.created = starts["daemon"]], "dated")
      BY <1>1, <2>2 DEF Date
    <3>2. [data["daemon"] EXCEPT !.created = starts["daemon"]] \in Data
      BY <1>0, TextsTyped DEF FileTypeOK
    <3>3. QED
      BY <1>1, <1>0, <3>1, <3>2 DEF Date, Set, GoTo, Points, FileTypeOK, diskVars, operatorVars
  <2>3. QED
    BY <2>1, <2>2
<1>2. CASE Build
  <2>1. shown' \in [id : Id \cup {None}, created : Nat]
    BY <1>2, <1>0 DEF Build, FileTypeOK, Data
  <2>2. QED
    BY <1>2, <2>1 DEF Build, GoTo, Points, FileTypeOK, diskVars, operatorVars
<1>3. CASE Record
  <2>1. PICK n \in Nat : Set("daemon", [data["daemon"] EXCEPT !.record = n], "up") /\ records' \in Nat
    <3>1. records \in Nat /\ records + 1 \in Nat /\ 0 \in Nat
      BY DEF FileTypeOK
    <3>2. QED
      BY <1>3, <3>1 DEF Record
  <2>2. [data["daemon"] EXCEPT !.record = n] \in Data
    BY <1>0, TextsTyped
  <2>3. QED
    BY <1>3, <1>0, <2>1, <2>2 DEF Record, Set, GoTo, Points, FileTypeOK, diskVars, operatorVars
<1>4. QED
  BY <1>1, <1>2, <1>3

(* Type correctness: whatever the processes, the operator and the disk do, *)
(* a process past its start has an id, and the files keep their form.      *)
THEOREM FileTypes == FileSpec => []FileTypeOK
<1>1. FileInit => FileTypeOK
  <2> SUFFICES ASSUME FileInit PROVE FileTypeOK
    OBVIOUS
  <2>1. text \in [File -> FileText] /\ data \in [Process -> Data]
    BY TextsTyped DEF FileInit
  <2>2. shown \in [id : Id \cup {None}, created : Nat]
    BY DEF FileInit
  <2>3. QED
    BY <2>1, <2>2 DEF FileInit, FileTypeOK, FileText, Points
<1>2. FileTypeOK /\ [FileNext]_fileVars => FileTypeOK'
  <2> SUFFICES ASSUME FileTypeOK, [FileNext]_fileVars PROVE FileTypeOK'
    OBVIOUS
  <2>1. CASE EditConfig
    BY <2>1 DEF EditConfig, FileTypeOK, diskVars, processVars
  <2>2. CASE FileLost
    <3>1. text' \in [File -> FileText]
      BY <2>2, TextsTyped DEF FileLost, FileTypeOK, FileText
    <3>2. QED
      BY <2>2, <3>1 DEF FileLost, FileTypeOK, FileText, processVars, operatorVars
  <2>3. CASE UNCHANGED fileVars
    BY <2>3 DEF fileVars, diskVars, processVars, operatorVars, FileTypeOK
  <2>4. QED
    BY <2>1, <2>2, <2>3, FlushTyped, StartTyped, DaemonTyped DEF FileNext
<1>3. QED
  BY <1>1, <1>2, PTL DEF FileSpec

-----------------------------------------------------------------------------
(* The file.                                                               *)

(* Every step keeps the handles apart from the state file.                 *)
LEMMA HandlesKept == FileTypeOK /\ HandleInv /\ [FileNext]_fileVars => HandleInv'
<1> SUFFICES ASSUME FileTypeOK, HandleInv, [FileNext]_fileVars PROVE HandleInv'
  OBVIOUS
<1>1. ASSUME NEW p \in Process, Load(p) \/ ResolveKnown(p) \/ ResolveNew(p) PROVE HandleInv'
  <2>1. UNCHANGED <<state, tmp, handle>>
    BY <1>1 DEF Load, ResolveKnown, ResolveNew, diskVars
  <2>2. \A q \in Process : pc'[q] = "write" <=> pc[q] = "write"
    BY <1>1 DEF Load, ResolveKnown, ResolveNew, Set, GoTo, AfterResolve, FileTypeOK
  <2>3. QED
    BY <2>1, <2>2 DEF HandleInv
<1>2. CASE Date \/ Build \/ Record
  <2>1. UNCHANGED <<state, tmp, handle>>
    BY <1>2 DEF Date, Build, Record, diskVars
  <2>2. \A q \in Process : pc'[q] = "write" <=> pc[q] = "write"
    BY <1>2 DEF Date, Build, Record, Set, GoTo, FileTypeOK, Process
  <2>3. QED
    BY <2>1, <2>2 DEF HandleInv
<1>3. ASSUME NEW p \in Process, Open(p) PROVE HandleInv'
  <2>1. PICK f \in File : f # state /\ tmp' = f /\ handle' = [handle EXCEPT ![p] = f]
    BY <1>3 DEF Open, HandleInv, FileTypeOK
  <2>2. pc' = [pc EXCEPT ![p] = "write"] /\ UNCHANGED state
    BY <1>3 DEF Open, GoTo
  <2>3. QED
    BY <2>1, <2>2 DEF HandleInv, FileTypeOK
<1>4. ASSUME NEW p \in Process, Write(p) PROVE HandleInv'
  BY <1>4 DEF Write, GoTo, HandleInv, FileTypeOK
<1>5. ASSUME NEW p \in Process, Replace(p) PROVE HandleInv'
  BY <1>5 DEF Replace, GoTo, HandleInv, FileTypeOK
<1>6. ASSUME NEW p \in Process, FlushRaises(p) PROVE HandleInv'
  BY <1>6 DEF FlushRaises, GoTo, HandleInv, FileTypeOK
<1>7. ASSUME NEW p \in Process, Exit(p) PROVE HandleInv'
  BY <1>7 DEF Exit, GoTo, HandleInv, FileTypeOK, diskVars
<1>8. CASE EditConfig \/ FileLost \/ UNCHANGED fileVars
  BY <1>8 DEF EditConfig, FileLost, fileVars, diskVars, processVars, HandleInv
<1>9. QED
  BY <1>1, <1>2, <1>3, <1>4, <1>5, <1>6, <1>7, <1>8 DEF FileNext

(* What has gone wrong with the file stays so.                             *)
LEMMA HarmGrows == [FileNext]_fileVars => harm \subseteq harm'
<1> SUFFICES ASSUME [FileNext]_fileVars PROVE harm \subseteq harm'
  OBVIOUS
<1>1. ASSUME NEW p \in Process, ResolveNew(p) PROVE harm \subseteq harm'
  BY <1>1 DEF ResolveNew
<1>2. ASSUME NEW p \in Process, FlushRaises(p) PROVE harm \subseteq harm'
  BY <1>2 DEF FlushRaises
<1>3. ASSUME NEW p \in Process,
             Load(p) \/ ResolveKnown(p) \/ Open(p) \/ Write(p) \/ Replace(p) \/ Exit(p)
      PROVE  harm \subseteq harm'
  BY <1>3 DEF Load, ResolveKnown, Open, Write, Replace, Exit
<1>4. CASE Date \/ Build \/ Record \/ EditConfig \/ FileLost \/ UNCHANGED fileVars
  BY <1>4 DEF Date, Build, Record, EditConfig, FileLost, fileVars
<1>5. QED
  BY <1>1, <1>2, <1>3, <1>4 DEF FileNext

(* A script's flush leaves its trace.                                      *)
LEMMA SoleWriterKept == FileTypeOK /\ SoleWriter /\ [FileNext]_fileVars => SoleWriter'
<1> SUFFICES ASSUME FileTypeOK, SoleWriter, [FileNext]_fileVars, "script" \notin harm'
             PROVE  pc'["script"] \notin Flushing
  BY DEF SoleWriter
<1> USE DEF Flushing
<1>1. pc["script"] \notin Flushing
  BY HarmGrows DEF SoleWriter
<1>2. pc \in [Process -> Points] /\ "script" \in Process
  BY DEF FileTypeOK, Process
<1>3. ASSUME NEW p \in Process, Load(p) \/ ResolveKnown(p) \/ Exit(p)
      PROVE  pc'["script"] \notin Flushing
  BY <1>1, <1>2, <1>3 DEF Load, ResolveKnown, Exit, GoTo, AfterResolve
<1>4. ASSUME NEW p \in Process, ResolveNew(p)
      PROVE  pc'["script"] \notin Flushing
  <2>1. p # "script"
    BY <1>4 DEF ResolveNew
  <2>2. QED
    BY <1>1, <1>2, <1>4, <2>1 DEF ResolveNew, Set, GoTo
<1>5. ASSUME NEW p \in Process, Open(p) \/ Write(p) \/ Replace(p) \/ FlushRaises(p)
      PROVE  pc'["script"] \notin Flushing
  <2>1. p # "script" /\ \E to : pc' = [pc EXCEPT ![p] = to]
    BY <1>1, <1>5 DEF Open, Write, Replace, FlushRaises, GoTo
  <2>2. QED
    BY <1>1, <1>2, <2>1
<1>6. CASE Date \/ Build \/ Record
  BY <1>1, <1>2, <1>6 DEF Date, Build, Record, Set, GoTo
<1>7. CASE EditConfig \/ FileLost \/ UNCHANGED fileVars
  BY <1>1, <1>7 DEF EditConfig, FileLost, fileVars, processVars
<1>8. QED
  BY <1>3, <1>4, <1>5, <1>6, <1>7 DEF FileNext

(* What WholeInv says of an undamaged file.                                *)
LEMMA WholeParts ==
    ASSUME WholeInv, ~Damaged
    PROVE  Intact /\ Fresh /\ pc["script"] \notin Flushing
BY DEF WholeInv, SoleWriter, Damaged, Foreign

(* The daemon's own flush goes through the temporary file.                 *)
LEMMA FlushKeepsIntact ==
    ASSUME FileTypeOK, HandleInv, Intact, pc["script"] \notin Flushing,
           NEW p \in Process, Open(p) \/ Write(p) \/ Replace(p) \/ FlushRaises(p)
    PROVE  Intact'
<1>1. p = "daemon" /\ "daemon" \in Process
  BY DEF Process, Flushing, Open, Write, Replace, FlushRaises
<1>2. CASE Open(p)
  <2>1. PICK f \in File : /\ f # state /\ tmp' = f
                          /\ handle' = [handle EXCEPT ![p] = f]
                          /\ text' = [text EXCEPT ![f] = Empty]
    BY <1>2 DEF Open, HandleInv, FileTypeOK
  <2>2. pc' = [pc EXCEPT ![p] = "write"] /\ UNCHANGED state
    BY <1>2 DEF Open, GoTo
  <2>3. handle'["daemon"] = tmp' /\ tmp' # None /\ text'[tmp'] = Empty
    BY <1>1, <2>1 DEF FileTypeOK
  <2>4. state # None => text'[state] = text[state]
    BY <2>1 DEF FileTypeOK
  <2>5. pc'["daemon"] = "write"
    BY <1>1, <2>2 DEF FileTypeOK
  <2>6. QED
    BY <2>2, <2>3, <2>4, <2>5 DEF Intact
<1>3. CASE Write(p)
  <2>1. pc["daemon"] = "write" /\ tmp # None /\ handle["daemon"] = tmp /\ text[tmp] = Empty
    BY <1>1, <1>3 DEF Write, Intact
  <2>2. text' = [text EXCEPT ![tmp] = Whole(data["daemon"])] /\ UNCHANGED <<state, tmp, data>>
    BY <1>1, <1>3, <2>1 DEF Write
  <2>3. text'[tmp] = Whole(data["daemon"]) /\ (state # None => text'[state] = text[state])
    BY <2>1, <2>2 DEF FileTypeOK, HandleInv
  <2>4. pc'["daemon"] = "replace"
    BY <1>1, <1>3 DEF Write, GoTo, FileTypeOK
  <2>5. QED
    BY <2>1, <2>2, <2>3, <2>4 DEF Intact
<1>4. CASE Replace(p)
  <2>1. tmp # None /\ text[tmp] = Whole(data["daemon"]) /\ tmp # state
    BY <1>1, <1>4 DEF Replace, Intact, HandleInv
  <2>2. state' = tmp /\ text'[tmp] = text[tmp] /\ UNCHANGED data
    BY <1>4, <2>1 DEF Replace, FileTypeOK
  <2>3. pc'["daemon"] \in {"identified", "dated", "up"}
    BY <1>1, <1>4 DEF Replace, GoTo, FileTypeOK
  <2>4. QED
    BY <2>1, <2>2, <2>3 DEF Intact, Whole
<1>5. CASE FlushRaises(p)
  <2>1. pc'["daemon"] \in {"identified", "dated", "up"} /\ flushError'["daemon"]
    BY <1>1, <1>5 DEF FlushRaises, GoTo, FileTypeOK
  <2>2. state # None => text'[state] = text[state]
    <3>1. CASE pc[p] = "write"
      <4>1. handle[p] = tmp /\ tmp # None /\ tmp # state
        BY <1>1, <3>1 DEF Intact, HandleInv
      <4>2. QED
        BY <1>5, <3>1, <4>1 DEF FlushRaises, FileTypeOK
    <3>2. CASE pc[p] # "write"
      BY <1>5, <3>2 DEF FlushRaises
    <3>3. QED
      BY <3>1, <3>2
  <2>3. UNCHANGED state
    BY <1>5 DEF FlushRaises
  <2>4. QED
    BY <2>1, <2>2, <2>3 DEF Intact
<1>6. QED
  BY <1>2, <1>3, <1>4, <1>5

(* So do the other steps.                                                  *)
LEMMA StepKeepsIntact ==
    ASSUME FileTypeOK, HandleInv, Intact, ~Foreign', pc["script"] \notin Flushing,
           [FileNext]_fileVars
    PROVE  Intact'
<1>0. /\ "daemon" \in Process /\ pc \in [Process -> Points] /\ data \in [Process -> Data]
      /\ flushError \in [Process -> BOOLEAN]
  BY DEF Process, FileTypeOK
<1>1. ASSUME NEW p \in Process, Load(p) \/ ResolveKnown(p) \/ ResolveNew(p) \/ Exit(p)
      PROVE  Intact'
  <2>0. UNCHANGED <<state, tmp, text>>
    BY <1>1 DEF Load, ResolveKnown, ResolveNew, Exit, diskVars
  <2>1. CASE p # "daemon"
    <3>1. UNCHANGED <<pc["daemon"], data["daemon"], handle["daemon"], flushError["daemon"]>>
      BY <1>0, <1>1, <2>1 DEF Load, ResolveKnown, ResolveNew, Exit, Set, GoTo, FileTypeOK
    <3>2. QED
      BY <2>0, <3>1 DEF Intact, Loaded
  <2>2. CASE p = "daemon" /\ Load(p)
    <3>1. pc'["daemon"] = "loaded"
      BY <1>0, <2>2 DEF Load, GoTo
    <3>2. data'["daemon"] \in {Loaded, NoData}
      BY <1>0, <2>2 DEF Load, Loaded, Intact
    <3>3. QED
      BY <2>0, <3>1, <3>2 DEF Intact, Loaded
  <2>3. CASE p = "daemon" /\ ResolveKnown(p)
    <3>1. data["daemon"] \in {Loaded, NoData} /\ data["daemon"].id # None
      BY <2>3, CandidatesAreIds DEF ResolveKnown, Intact
    <3>2. state # None /\ text[state].data = data["daemon"]
      BY <3>1 DEF Loaded, NoData
    <3>3. pc'["daemon"] = "identified" /\ UNCHANGED data
      BY <1>0, <2>3 DEF ResolveKnown, GoTo, AfterResolve
    <3>4. QED
      BY <2>0, <3>2, <3>3 DEF Intact
  <2>4. CASE p = "daemon" /\ ResolveNew(p)
    <3>1. pc'["daemon"] = "open"
      BY <1>0, <2>4 DEF ResolveNew, Set, GoTo
    <3>2. QED
      BY <2>0, <3>1 DEF Intact
  <2>5. CASE p = "daemon" /\ Exit(p)
    <3>1. pc'["daemon"] = "off"
      BY <1>0, <2>5 DEF Exit, GoTo
    <3>2. QED
      BY <2>0, <3>1 DEF Intact
  <2>6. QED
    BY <1>1, <2>1, <2>2, <2>3, <2>4, <2>5
<1>2. CASE Date \/ Build \/ Record
  <2>0. UNCHANGED <<state, tmp, text>>
    BY <1>2 DEF Date, Build, Record, diskVars
  <2>1. CASE pc'["daemon"] = "open"
    BY <2>0, <2>1 DEF Intact
  <2>2. CASE pc'["daemon"] # "open"
    <3>1. /\ pc["daemon"] \in {"identified", "dated", "up"} /\ UNCHANGED <<data, flushError>>
          /\ pc'["daemon"] \in {"dated", "up"}
      BY <1>0, <1>2, <2>2 DEF Date, Build, Record, Set, GoTo
    <3>2. QED
      BY <2>0, <3>1 DEF Intact
  <2>3. QED
    BY <2>1, <2>2
<1>3. ASSUME NEW p \in Process, Open(p) \/ Write(p) \/ Replace(p) \/ FlushRaises(p)
      PROVE  Intact'
  BY <1>3, FlushKeepsIntact
<1>4. CASE FileLost
  BY <1>4 DEF FileLost, Foreign
<1>5. CASE EditConfig \/ UNCHANGED fileVars
  BY <1>5 DEF EditConfig, fileVars, diskVars, processVars, Intact, Loaded
<1>6. QED
  BY <1>1, <1>2, <1>3, <1>4, <1>5 DEF FileNext

(* A flush only fails with the disk, and so does reading the file.         *)
LEMMA FreshKept ==
    ASSUME FileTypeOK, HandleInv, Intact, Fresh, ~Damaged', pc["script"] \notin Flushing,
           [FileNext]_fileVars
    PROVE  Fresh'
<1>0. /\ "daemon" \in Process /\ pc \in [Process -> Points] /\ data \in [Process -> Data]
      /\ flushError \in [Process -> BOOLEAN]
  BY DEF Process, FileTypeOK
<1>1. ASSUME NEW p \in Process, Load(p) PROVE Fresh'
  <2>1. data' = [data EXCEPT ![p] = IF state # None /\ text[state].kind = "whole"
                                    THEN text[state].data ELSE NoData]
    BY <1>1 DEF Load, Damaged
  <2>2. data'[p] = Loaded
    BY <1>0, <2>1 DEF Loaded, Intact
  <2>3. /\ UNCHANGED <<state, text>> /\ ~flushError'["daemon"]
        /\ p # "daemon" => UNCHANGED <<pc["daemon"], data["daemon"]>>
    BY <1>0, <1>1, <2>1 DEF Load, GoTo, diskVars, Fresh
  <2>4. QED
    BY <2>2, <2>3 DEF Fresh, Loaded
<1>2. ASSUME NEW p \in Process, ResolveKnown(p) \/ ResolveNew(p) \/ Exit(p) PROVE Fresh'
  <2>1. UNCHANGED <<state, text>> /\ ~flushError'["daemon"]
    BY <1>0, <1>2 DEF ResolveKnown, ResolveNew, Exit, diskVars, Fresh
  <2>2. pc'["daemon"] = "loaded" => UNCHANGED <<pc["daemon"], data["daemon"]>>
    BY <1>0, <1>2 DEF ResolveKnown, ResolveNew, Exit, Set, GoTo, AfterResolve
  <2>3. QED
    BY <2>1, <2>2 DEF Fresh, Loaded
<1>3. ASSUME NEW p \in Process, Open(p) \/ Write(p) \/ Replace(p) \/ FlushRaises(p)
      PROVE  Fresh'
  <2>1. p = "daemon"
    BY <1>3 DEF Process, Flushing, Open, Write, Replace, FlushRaises
  <2>2. ~FlushRaises(p)
    BY <2>1 DEF FlushRaises, Damaged, Intact
  <2>3. ~flushError'["daemon"]
    BY <1>0, <1>3, <2>2 DEF Open, Write, Replace, Fresh
  <2>4. pc'["daemon"] # "loaded"
    BY <1>0, <1>3, <2>1 DEF Open, Write, Replace, FlushRaises, GoTo, FileTypeOK
  <2>5. QED
    BY <2>3, <2>4 DEF Fresh
<1>4. CASE Date \/ Build \/ Record
  <2>1. UNCHANGED flushError /\ pc'["daemon"] # "loaded"
    BY <1>0, <1>4 DEF Date, Build, Record, Set, GoTo
  <2>2. QED
    BY <2>1 DEF Fresh
<1>5. CASE FileLost
  BY <1>5 DEF FileLost, Damaged
<1>6. CASE EditConfig \/ UNCHANGED fileVars
  BY <1>6 DEF EditConfig, fileVars, diskVars, processVars, Fresh, Loaded
<1>7. QED
  BY <1>1, <1>2, <1>3, <1>4, <1>5, <1>6 DEF FileNext

FileInv == FileTypeOK /\ HandleInv /\ WholeInv

LEMMA FileInvariant == FileSpec => []FileInv
<1>1. FileInit => HandleInv /\ WholeInv
  BY DEF FileInit, HandleInv, WholeInv, SoleWriter, Intact, Fresh, Process, Flushing
<1>2. FileTypeOK /\ HandleInv /\ WholeInv /\ [FileNext]_fileVars => WholeInv'
  <2> SUFFICES ASSUME FileTypeOK, HandleInv, WholeInv, [FileNext]_fileVars
               PROVE  WholeInv'
    OBVIOUS
  <2>1. SoleWriter'
    BY SoleWriterKept DEF WholeInv
  <2>2. ASSUME ~Foreign' PROVE Intact'
    <3>1. ~Foreign
      BY <2>2, HarmGrows DEF Foreign
    <3>2. Intact /\ pc["script"] \notin Flushing
      BY <3>1 DEF WholeInv, SoleWriter, Foreign
    <3>3. QED
      BY <2>2, <3>2, StepKeepsIntact
  <2>3. ASSUME ~Damaged' PROVE Fresh'
    <3>1. ~Damaged
      BY <2>3, HarmGrows DEF Damaged
    <3>2. QED
      BY <2>3, <3>1, WholeParts, FreshKept
  <2>4. QED
    BY <2>1, <2>2, <2>3 DEF WholeInv
<1>3. QED
  BY <1>1, <1>2, FileTypes, HandlesKept, PTL DEF FileSpec, FileInv

(* "Atomic writes" (state.py:12): as long as nobody else has written or    *)
(* touched it, the file is whole at every moment, whichever flushes fail   *)
(* or are cut short, and a daemon that is up has in the file what it has   *)
(* in memory, unless its last flush failed.                                *)
THEOREM WritesAreAtomic == FileSpec => []RecordsSurvive
<1>1. FileInv => RecordsSurvive
  BY DEF FileInv, WholeInv, Intact, RecordsSurvive
<1>2. QED
  BY <1>1, FileInvariant, PTL

-----------------------------------------------------------------------------
(* The ids and the created time.                                           *)

(* What a flush does not touch, and where it leads.                        *)
LEMMA FlushStep ==
    ASSUME FileTypeOK, NEW p \in Process, Open(p) \/ Write(p) \/ Replace(p) \/ FlushRaises(p)
    PROVE  /\ UNCHANGED <<then, data, ident, cfg, pin, pinned, serial, starts, shown, apart>>
           /\ pc[p] \in Flushing
           /\ \A q \in Process : Bound(q)' = Bound(q)
           /\ \A q \in Process : pc'[q] \in {"off", "loaded"} <=> pc[q] \in {"off", "loaded"}
<1>1. /\ UNCHANGED <<then, data, ident, cfg, pin, pinned, serial, starts, shown, apart>>
      /\ pc[p] \in Flushing
      /\ pc' \in {[pc EXCEPT ![p] = "write"], [pc EXCEPT ![p] = "replace"],
                  [pc EXCEPT ![p] = then[p]]}
  BY DEF Open, Write, Replace, FlushRaises, GoTo, Flushing, operatorVars
<1>2. CASE pc' = [pc EXCEPT ![p] = then[p]]
  BY <1>1, <1>2 DEF Bound, Flushing, FileTypeOK
<1>3. CASE pc' \in {[pc EXCEPT ![p] = "write"], [pc EXCEPT ![p] = "replace"]}
  BY <1>1, <1>3 DEF Bound, Flushing, FileTypeOK
<1>4. QED
  BY <1>1, <1>2, <1>3

(* What Date, Build and Record do to the daemon.                           *)
LEMMA DaemonStep ==
    ASSUME FileTypeOK, Date \/ Build \/ Record
    PROVE  /\ UNCHANGED <<state, tmp, text, ident, cfg, pin, pinned, serial, starts, harm, apart>>
           /\ pc["daemon"] \in {"identified", "dated", "up"}
           /\ Bound("daemon")' \in {"dated", "up"}
           /\ data'["daemon"].id = data["daemon"].id
           /\ \A q \in Process \ {"daemon"} : UNCHANGED <<pc[q], data[q], Bound(q)>>
<1>0. /\ "daemon" \in Process /\ pc \in [Process -> Points] /\ data \in [Process -> Data]
      /\ then \in [Process -> {"identified", "dated", "up"}] /\ data["daemon"] \in Data
  BY DEF Process, FileTypeOK
<1>1. /\ UNCHANGED <<state, tmp, text, ident, cfg, pin, pinned, serial, starts, harm, apart>>
      /\ pc["daemon"] \in {"identified", "dated", "up"}
  BY DEF Date, Build, Record, diskVars, operatorVars
<1>2. ASSUME NEW d, NEW after \in {"dated", "up"}, Set("daemon", d, after),
             d.id = data["daemon"].id
      PROVE  /\ Bound("daemon")' \in {"dated", "up"}
             /\ data'["daemon"].id = data["daemon"].id
             /\ \A q \in Process \ {"daemon"} : UNCHANGED <<pc[q], data[q], Bound(q)>>
  BY <1>0, <1>2 DEF Set, GoTo, Bound, Flushing
<1>3. ASSUME NEW to \in {"dated", "up"}, GoTo("daemon", to), UNCHANGED <<data, then>>
      PROVE  /\ Bound("daemon")' \in {"dated", "up"}
             /\ data'["daemon"].id = data["daemon"].id
             /\ \A q \in Process \ {"daemon"} : UNCHANGED <<pc[q], data[q], Bound(q)>>
  BY <1>0, <1>3 DEF GoTo, Bound, Flushing
<1>4. CASE Date
  <2>1. CASE data["daemon"].created # 0
    BY <1>1, <1>3, <1>4, <2>1 DEF Date
  <2>2. CASE data["daemon"].created = 0
    <3>1. Set("daemon", [data["daemon"] EXCEPT !.created = starts["daemon"]], "dated")
      BY <1>4, <2>2 DEF Date
    <3>2. [data["daemon"] EXCEPT !.created = starts["daemon"]].id = data["daemon"].id
      BY <1>0 DEF Data
    <3>3. QED
      BY <1>1, <1>2, <3>1, <3>2
  <2>3. QED
    BY <2>1, <2>2
<1>5. CASE Build
  BY <1>1, <1>3, <1>5 DEF Build
<1>6. CASE Record
  <2>1. PICK n : Set("daemon", [data["daemon"] EXCEPT !.record = n], "up")
    BY <1>6 DEF Record
  <2>2. [data["daemon"] EXCEPT !.record = n].id = data["daemon"].id
    BY <1>0 DEF Data
  <2>3. QED
    BY <1>1, <1>2, <2>1, <2>2
<1>7. QED
  BY <1>4, <1>5, <1>6

LEMMA IdentKept == FileTypeOK /\ IdentInv /\ [FileNext]_fileVars => IdentInv'
<1> SUFFICES ASSUME FileTypeOK, IdentInv, [FileNext]_fileVars PROVE IdentInv'
  OBVIOUS
<1>1. ASSUME NEW p \in Process, Load(p) \/ Exit(p) PROVE IdentInv'
  BY <1>1 DEF Load, Exit, GoTo, IdentInv, FileTypeOK
<1>2. ASSUME NEW p \in Process, ResolveKnown(p) PROVE IdentInv'
  <2>1. data[p].id \in Candidates(p) /\ data[p].id # None
    BY <1>2, CandidatesAreIds DEF ResolveKnown
  <2>2. cfg[p] # None => data[p].id = cfg[p]
    BY <2>1 DEF Candidates, Preferred
  <2>3. QED
    BY <1>2, <2>2 DEF ResolveKnown, GoTo, IdentInv, FileTypeOK
<1>3. ASSUME NEW p \in Process, ResolveNew(p) PROVE IdentInv'
  <2>1. PICK id \in Candidates(p) :
          /\ ident' = [ident EXCEPT ![p] = id]
          /\ data' = [data EXCEPT ![p] = [data[p] EXCEPT !.id = id]]
    BY <1>3 DEF ResolveNew, Set
  <2>2. cfg[p] # None => id = cfg[p]
    BY <2>1 DEF Candidates, Preferred
  <2>3. data'[p].id = id
    BY <2>1 DEF FileTypeOK, Data
  <2>4. UNCHANGED cfg /\ \A q \in Process : q # p => UNCHANGED <<pc[q], data[q], ident[q]>>
    BY <1>3, <2>1 DEF ResolveNew, Set, GoTo, FileTypeOK
  <2>5. QED
    BY <2>1, <2>2, <2>3, <2>4 DEF IdentInv, FileTypeOK
<1>4. ASSUME NEW p \in Process, Open(p) \/ Write(p) \/ Replace(p) \/ FlushRaises(p)
      PROVE  IdentInv'
  BY <1>4, FlushStep DEF IdentInv
<1>5. CASE Date \/ Build \/ Record
  BY <1>5, DaemonStep DEF IdentInv, Process
<1>6. CASE EditConfig \/ FileLost \/ UNCHANGED fileVars
  BY <1>6 DEF EditConfig, FileLost, fileVars, processVars, IdentInv
<1>7. QED
  BY <1>1, <1>2, <1>3, <1>4, <1>5, <1>6 DEF FileNext

LEMMA DateKept == FileTypeOK /\ DateInv /\ [FileNext]_fileVars => DateInv'
<1> SUFFICES ASSUME FileTypeOK, DateInv, [FileNext]_fileVars PROVE DateInv'
  OBVIOUS
<1>0. /\ "daemon" \in Process /\ pc \in [Process -> Points] /\ data \in [Process -> Data]
      /\ then \in [Process -> {"identified", "dated", "up"}] /\ data["daemon"] \in Data
      /\ starts \in [Process -> Nat]
  BY DEF Process, FileTypeOK
<1>1. ASSUME NEW p \in Process, Load(p) \/ ResolveKnown(p) \/ ResolveNew(p) \/ Exit(p)
      PROVE  DateInv'
  <2>1. CASE p # "daemon"
    <3>1. UNCHANGED <<pc["daemon"], data["daemon"], then["daemon"], starts["daemon"], shown>>
      BY <1>0, <1>1, <2>1 DEF Load, ResolveKnown, ResolveNew, Exit, Set, GoTo
    <3>2. QED
      BY <3>1 DEF DateInv, Bound
  <2>2. CASE p = "daemon" /\ Load(p)
    BY <1>0, <2>2 DEF Load, GoTo, DateInv, Bound, Flushing
  <2>3. CASE p = "daemon" /\ ResolveKnown(p)
    BY <1>0, <2>3 DEF ResolveKnown, GoTo, AfterResolve, DateInv, Bound, Flushing
  <2>4. CASE p = "daemon" /\ ResolveNew(p)
    <3>1. Bound("daemon")' = "identified" /\ pc["daemon"] # "off" /\ UNCHANGED <<starts, shown>>
      BY <1>0, <2>4 DEF ResolveNew, Set, GoTo, AfterResolve, Bound, Flushing
    <3>2. QED
      BY <3>1 DEF DateInv
  <2>5. CASE p = "daemon" /\ Exit(p)
    BY <1>0, <2>5 DEF Exit, GoTo, DateInv, Bound, Flushing
  <2>6. QED
    BY <1>1, <2>1, <2>2, <2>3, <2>4, <2>5
<1>2. CASE Date
  <2>1. starts["daemon"] > 0 /\ UNCHANGED <<starts, shown>>
    BY <1>2 DEF Date, DateInv
  <2>2. data'["daemon"].created > 0
    <3>1. data["daemon"].created \in Nat
      BY <1>0 DEF Data
    <3>2. CASE data["daemon"].created # 0
      BY <1>2, <3>1, <3>2 DEF Date
    <3>3. CASE data["daemon"].created = 0
      BY <1>0, <1>2, <2>1, <3>3 DEF Date, Set, Data
    <3>4. QED
      BY <3>2, <3>3
  <2>3. QED
    BY <2>1, <2>2 DEF DateInv
<1>3. CASE Build
  <2>1. data["daemon"].created > 0
    BY <1>3 DEF Build, DateInv, Bound, Flushing
  <2>2. QED
    BY <1>0, <1>3, <2>1 DEF Build, DateInv
<1>4. CASE Record
  <2>1. data["daemon"].created > 0
    BY <1>4 DEF Record, DateInv, Bound, Flushing
  <2>2. PICK n : data' = [data EXCEPT !["daemon"] = [data["daemon"] EXCEPT !.record = n]]
    BY <1>4 DEF Record, Set
  <2>3. data'["daemon"].created = data["daemon"].created
    BY <1>0, <2>2 DEF Data
  <2>4. UNCHANGED <<starts, shown>> /\ pc["daemon"] # "off"
    BY <1>4 DEF Record
  <2>5. QED
    BY <2>1, <2>3, <2>4 DEF DateInv
<1>5. ASSUME NEW p \in Process, Open(p) \/ Write(p) \/ Replace(p) \/ FlushRaises(p)
      PROVE  DateInv'
  <2>1. /\ UNCHANGED <<data, starts, shown, Bound("daemon")>>
        /\ pc'["daemon"] \in {"off", "loaded"} <=> pc["daemon"] \in {"off", "loaded"}
    BY <1>0, <1>5, FlushStep
  <2>2. pc'["daemon"] # "off" => pc["daemon"] # "off"
    BY <1>0, <1>5 DEF Open, Write, Replace, FlushRaises, GoTo, Flushing
  <2>3. QED
    BY <2>1, <2>2 DEF DateInv
<1>6. CASE EditConfig \/ FileLost \/ UNCHANGED fileVars
  BY <1>6 DEF EditConfig, FileLost, fileVars, processVars, DateInv, Bound
<1>7. QED
  BY <1>1, <1>2, <1>3, <1>4, <1>5, <1>6 DEF FileNext

(* The serial stays what it is, and it is not forgotten that ENTITY_ID was *)
(* set.                                                                    *)
LEMMA SettingsKept == [FileNext]_fileVars => UNCHANGED serial /\ (pinned => pinned')
<1> SUFFICES ASSUME [FileNext]_fileVars PROVE UNCHANGED serial /\ (pinned => pinned')
  OBVIOUS
<1>1. ASSUME NEW p \in Process,
             \/ Load(p) \/ ResolveKnown(p) \/ ResolveNew(p) \/ Exit(p)
             \/ Open(p) \/ Write(p) \/ Replace(p) \/ FlushRaises(p)
      PROVE  UNCHANGED <<serial, pinned>>
  BY <1>1, Zenon DEF Load, ResolveKnown, ResolveNew, Exit, Open, Write, Replace, FlushRaises,
                     operatorVars
<1>2. CASE Date \/ Build \/ Record \/ FileLost \/ UNCHANGED fileVars
  BY <1>2 DEF Date, Build, Record, FileLost, fileVars, operatorVars
<1>3. CASE EditConfig
  BY <1>3 DEF EditConfig
<1>4. QED
  BY <1>1, <1>2, <1>3 DEF FileNext

(* The one id of BoardInv, kept by every step.                             *)
LEMMA BoardKept == FileTypeOK /\ BoardInv /\ [FileNext]_fileVars => BoardInv'
<1> DEFINE OneId ==
      /\ pin = None
      /\ \A p \in Process : cfg[p] = None /\ {data[p].id, ident[p]} \subseteq {Board, None}
      /\ \A f \in File : text[f].data.id \in {Board, None}
      /\ shown.id \in {Board, None}
<1> SUFFICES ASSUME FileTypeOK, BoardInv, [FileNext]_fileVars,
                    serial' # None, ~pinned', "serial" \notin harm'
             PROVE  OneId'
  BY DEF BoardInv
<1>0. OneId /\ serial = Board
  <2>1. "serial" \notin harm
    BY HarmGrows
  <2>2. UNCHANGED serial /\ ~pinned
    BY SettingsKept
  <2>3. QED
    BY <2>1, <2>2 DEF BoardInv, FileTypeOK
<1>T. /\ NoData.id = None /\ Empty.data.id = None /\ Torn.data.id = None
      /\ \A d : Whole(d).data = d
  BY DEF NoData, Empty, Torn, Whole
<1>1. ASSUME NEW p \in Process, Load(p) PROVE OneId'
  <2>1. data'[p].id \in {Board, None}
    BY <1>0, <1>1, <1>T DEF Load, FileTypeOK
  <2>2. UNCHANGED <<text, shown, pin>> /\ cfg'[p] = None /\ ident'[p] = None
    BY <1>0, <1>1 DEF Load, diskVars, operatorVars, FileTypeOK
  <2>3. \A q \in Process : q # p => UNCHANGED <<data[q], cfg[q], ident[q]>>
    BY <1>1 DEF Load, FileTypeOK
  <2>4. QED
    BY <1>0, <2>1, <2>2, <2>3
<1>2. ASSUME NEW p \in Process, ResolveKnown(p) PROVE OneId'
  BY <1>0, <1>2 DEF ResolveKnown, diskVars, operatorVars, FileTypeOK
<1>3. ASSUME NEW p \in Process, ResolveNew(p) PROVE OneId'
  <2>1. PICK id \in Candidates(p) \ {data[p].id} :
          /\ ident' = [ident EXCEPT ![p] = id]
          /\ id \in RandomId /\ serial # None => "serial" \in harm'
          /\ data' = [data EXCEPT ![p] = [data[p] EXCEPT !.id = id]]
    BY <1>3 DEF ResolveNew, Set
  <2>2. id \notin RandomId
    BY <1>0, <2>1
  <2>3. id = Board
    BY <1>0, <2>1, <2>2 DEF Candidates, Preferred
  <2>4. data'[p].id = Board /\ ident'[p] = Board
    BY <2>1, <2>3 DEF FileTypeOK, Data
  <2>5. \A q \in Process : q # p => UNCHANGED <<data[q], ident[q]>>
    BY <2>1 DEF FileTypeOK
  <2>6. UNCHANGED <<text, shown, pin, cfg>>
    BY <1>3 DEF ResolveNew, diskVars, operatorVars
  <2>7. QED
    BY <1>0, <2>4, <2>5, <2>6
<1>4. ASSUME NEW p \in Process, Open(p) \/ Write(p) \/ Replace(p) \/ FlushRaises(p) PROVE OneId'
  <2>1. UNCHANGED <<data, ident, cfg, pin, shown>>
    BY <1>4, FlushStep
  <2>2. \A f \in File : text'[f].data.id \in {Board, None}
    <3>1. \A f \in File : text'[f] \in {text[f], Empty, Torn, Whole(data[p])}
      <4>1. CASE Open(p)
        <5>1. PICK g : text' = [text EXCEPT ![g] = Empty]
          BY <4>1 DEF Open
        <5>2. QED
          BY <5>1 DEF FileTypeOK
      <4>2. CASE Write(p)
        <5>1. PICK t \in {Torn, Whole(data[p])} : text' = [text EXCEPT ![handle[p]] = t]
          BY <4>2 DEF Write
        <5>2. QED
          BY <5>1 DEF FileTypeOK
      <4>3. CASE Replace(p)
        BY <4>3 DEF Replace, FileTypeOK
      <4>4. CASE FlushRaises(p)
        BY <4>4 DEF FlushRaises, FileTypeOK
      <4>5. QED
        BY <1>4, <4>1, <4>2, <4>3, <4>4
    <3>2. QED
      BY <1>0, <1>T, <3>1
  <2>3. QED
    BY <1>0, <2>1, <2>2
<1>5. ASSUME NEW p \in Process, Exit(p) PROVE OneId'
  BY <1>0, <1>5, <1>T DEF Exit, diskVars, operatorVars, FileTypeOK
<1>6. CASE Date \/ Build \/ Record
  <2>1. shown'.id \in {shown.id, ident["daemon"]}
    BY <1>6 DEF Date, Build, Record
  <2>2. QED
    BY <1>0, <1>6, <2>1, DaemonStep DEF Process
<1>7. CASE EditConfig
  <2>1. pin' = None
    BY <1>7 DEF EditConfig
  <2>2. QED
    BY <1>0, <1>7, <2>1 DEF EditConfig, diskVars, processVars
<1>8. CASE FileLost
  BY <1>0, <1>8, <1>T DEF FileLost, processVars, operatorVars, FileTypeOK
<1>9. CASE UNCHANGED fileVars
  BY <1>0, <1>9 DEF fileVars, diskVars, processVars, operatorVars
<1>10. QED
  BY <1>1, <1>2, <1>3, <1>4, <1>5, <1>6, <1>7, <1>8, <1>9 DEF FileNext

(* In an undamaged file the daemon's flush changes what state.json says    *)
(* only by its rename, to what the daemon's memory holds.                  *)
LEMMA FlushKeepsText ==
    ASSUME FileInv, ~Damaged', state # None,
           NEW p \in Process, Open(p) \/ Write(p) \/ Replace(p) \/ FlushRaises(p)
    PROVE  state' # None /\ text'[state'].data \in {text[state].data, data["daemon"]}
<1>0. FileTypeOK /\ HandleInv /\ WholeInv
  BY DEF FileInv
<1>1. harm' = harm
  BY DEF Open, Write, Replace, FlushRaises, Damaged
<1>2. Intact /\ pc["script"] \notin Flushing
  BY <1>0, <1>1, WholeParts DEF Damaged
<1>3. p = "daemon"
  BY <1>2 DEF Process, Flushing, Open, Write, Replace, FlushRaises
<1>4. CASE Open(p)
  <2>1. PICK f \in File : f # state /\ text' = [text EXCEPT ![f] = Empty]
    BY <1>0, <1>4 DEF Open, HandleInv, FileTypeOK
  <2>2. QED
    BY <1>0, <1>4, <2>1 DEF Open, FileTypeOK
<1>5. CASE Write(p)
  <2>1. handle[p] # state
    BY <1>0, <1>2, <1>3, <1>5 DEF Write, Intact, HandleInv
  <2>2. PICK t : text' = [text EXCEPT ![handle[p]] = t]
    BY <1>5 DEF Write
  <2>3. QED
    BY <1>0, <1>5, <2>1, <2>2 DEF Write, FileTypeOK
<1>6. CASE Replace(p)
  <2>1. tmp # None /\ text[tmp] = Whole(data["daemon"]) /\ tmp # state
    BY <1>0, <1>2, <1>3, <1>6 DEF Replace, Intact, HandleInv
  <2>2. state' = tmp /\ text'[tmp] = text[tmp]
    BY <1>0, <1>6, <2>1 DEF Replace, FileTypeOK
  <2>3. QED
    BY <2>1, <2>2 DEF Whole
<1>7. CASE FlushRaises(p)
  <2>1. pc[p] = "replace" /\ tmp = None
    BY <1>7 DEF FlushRaises, Damaged
  <2>2. QED
    BY <1>2, <1>3, <2>1 DEF Intact
<1>8. QED
  BY <1>4, <1>5, <1>6, <1>7

LEMMA KeptKept ==
    ASSUME FileInv, FileInv', IdentInv, DateInv, KeptInv, [FileNext]_fileVars
    PROVE  KeptInv'
<1> SUFFICES ASSUME ~Damaged', shown'.id # None
             PROVE  /\ state' # None /\ Carries(text[state].data)'
                    /\ pc'["daemon"] # "off" => Carries(data["daemon"])'
  BY DEF KeptInv
<1>0. /\ "daemon" \in Process /\ pc \in [Process -> Points] /\ data \in [Process -> Data]
      /\ FileTypeOK
  BY DEF Process, FileTypeOK, FileInv
<1>1. ~Damaged /\ Intact /\ Fresh /\ pc["script"] \notin Flushing
  BY HarmGrows, WholeParts DEF FileInv, Damaged
<1>2. ASSUME UNCHANGED shown
      PROVE  /\ state # None /\ Carries(text[state].data)
             /\ pc["daemon"] # "off" => Carries(data["daemon"])
             /\ shown.created > 0
  BY <1>1, <1>2 DEF KeptInv, DateInv
<1>3. ASSUME NEW p \in Process, Load(p) \/ ResolveKnown(p) \/ ResolveNew(p) \/ Exit(p)
      PROVE  /\ state' # None /\ Carries(text[state].data)'
             /\ pc'["daemon"] # "off" => Carries(data["daemon"])'
  <2>0. UNCHANGED <<shown, state, text>>
    BY <1>3 DEF Load, ResolveKnown, ResolveNew, Exit, diskVars
  <2>1. state' # None /\ Carries(text[state].data)'
    BY <1>2, <2>0 DEF Carries
  <2>2. ASSUME pc'["daemon"] # "off" PROVE Carries(data["daemon"])'
    <3>1. CASE UNCHANGED <<pc["daemon"], data["daemon"]>>
      BY <1>2, <2>0, <2>2, <3>1 DEF Carries
    <3>2. CASE p = "daemon" /\ Load(p)
      <4>1. data'["daemon"] = text[state].data
        BY <1>0, <1>1, <1>2, <2>0, <3>2 DEF Load, Intact, Damaged
      <4>2. QED
        BY <1>2, <2>0, <4>1 DEF Carries
    <3>3. CASE p = "daemon" /\ ResolveNew(p)
      <4>1. pc["daemon"] = "loaded" /\ Carries(data["daemon"])
        BY <1>2, <2>0, <3>3 DEF ResolveNew
      <4>2. PICK id \in Candidates(p) \ {data[p].id} :
              data' = [data EXCEPT ![p] = [data[p] EXCEPT !.id = id]]
        BY <3>3 DEF ResolveNew, Set
      <4>3. data["daemon"].id # None
        BY <2>0, <4>1 DEF Carries
      <4>4. id = cfg["daemon"] /\ cfg["daemon"] # None
        BY <3>3, <4>2, <4>3 DEF Candidates, Preferred
      <4>5. id \in Pin
        BY <1>0, <4>4 DEF FileTypeOK
      <4>6. data'["daemon"].id = id /\ data'["daemon"].created = data["daemon"].created
        BY <1>0, <3>3, <4>2 DEF Data
      <4>7. QED
        BY <2>0, <4>1, <4>5, <4>6 DEF Carries
    <3>4. CASE p = "daemon" /\ ResolveKnown(p)
      <4>1. Carries(data["daemon"]) /\ UNCHANGED data
        BY <1>2, <2>0, <3>4 DEF ResolveKnown
      <4>2. QED
        BY <2>0, <4>1 DEF Carries
    <3>5. CASE p = "daemon" /\ Exit(p)
      BY <1>0, <2>2, <3>5 DEF Exit, GoTo
    <3>6. CASE p # "daemon"
      <4>1. UNCHANGED <<pc["daemon"], data["daemon"]>>
        BY <1>0, <1>3, <3>6 DEF Load, ResolveKnown, ResolveNew, Exit, Set, GoTo
      <4>2. QED
        BY <3>1, <4>1
    <3>7. QED
      BY <1>3, <3>2, <3>3, <3>4, <3>5, <3>6
  <2>3. QED
    BY <2>1, <2>2
<1>4. ASSUME NEW p \in Process, Open(p) \/ Write(p) \/ Replace(p) \/ FlushRaises(p)
      PROVE  /\ state' # None /\ Carries(text[state].data)'
             /\ pc'["daemon"] # "off" => Carries(data["daemon"])'
  <2>1. UNCHANGED <<shown, data>>
    BY <1>0, <1>4, FlushStep
  <2>2. state' # None /\ text'[state'].data \in {text[state].data, data["daemon"]}
    BY <1>2, <1>4, <2>1, FlushKeepsText
  <2>3. pc["daemon"] # "off"
    BY <1>1, <1>4 DEF Open, Write, Replace, FlushRaises, Process, Flushing
  <2>4. QED
    BY <1>2, <2>1, <2>2, <2>3 DEF Carries
<1>5. CASE Build
  <2>1. /\ shown' = [id |-> ident["daemon"], created |-> data["daemon"].created]
        /\ UNCHANGED <<state, text, data>> /\ pc["daemon"] = "dated"
    BY <1>5 DEF Build, diskVars
  <2>2. state # None /\ text[state].data = data["daemon"] /\ data["daemon"].id = ident["daemon"]
    BY <1>0, <1>1, <2>1 DEF Intact, Fresh, IdentInv
  <2>3. QED
    BY <2>1, <2>2 DEF Carries
<1>6. CASE Date \/ Record
  <2>1. UNCHANGED <<shown, state, text>> /\ Carries(data["daemon"])
    BY <1>2, <1>6 DEF Date, Record, diskVars
  <2>2. data'["daemon"].id = data["daemon"].id
    BY <1>0, <1>6, DaemonStep
  <2>3. data'["daemon"].created = data["daemon"].created
    <3>1. data["daemon"].created # 0
      BY <1>2, <2>1 DEF Carries
    <3>2. CASE Date
      BY <3>1, <3>2 DEF Date
    <3>3. CASE Record
      <4>1. PICK n : data' = [data EXCEPT !["daemon"] = [data["daemon"] EXCEPT !.record = n]]
        BY <3>3 DEF Record, Set
      <4>2. QED
        BY <1>0, <4>1 DEF Data
    <3>4. QED
      BY <1>6, <3>2, <3>3
  <2>4. QED
    BY <1>2, <2>1, <2>2, <2>3 DEF Carries
<1>7. CASE EditConfig \/ UNCHANGED fileVars
  BY <1>2, <1>7 DEF EditConfig, fileVars, diskVars, processVars, Carries
<1>8. CASE FileLost
  BY <1>8 DEF FileLost, Damaged
<1>9. QED
  BY <1>3, <1>4, <1>5, <1>6, <1>7, <1>8 DEF FileNext

IdentityInv == FileInv /\ IdentInv /\ DateInv /\ BoardInv /\ KeptInv

LEMMA IdentityInvariant == FileSpec => []IdentityInv
<1>1. FileInit => IdentInv /\ DateInv /\ BoardInv /\ KeptInv
  <2> SUFFICES ASSUME FileInit PROVE IdentInv /\ DateInv /\ BoardInv /\ KeptInv
    OBVIOUS
  <2>1. IdentInv
    BY DEF FileInit, IdentInv
  <2>2. DateInv
    BY DEF FileInit, DateInv, Bound, Flushing, Process
  <2>3. BoardInv
    BY DEF FileInit, BoardInv, NoData, Empty
  <2>4. KeptInv
    BY DEF FileInit, KeptInv
  <2>5. QED
    BY <2>1, <2>2, <2>3, <2>4
<1>2. FileInv /\ FileInv' /\ IdentInv /\ DateInv /\ KeptInv /\ [FileNext]_fileVars => KeptInv'
  BY KeptKept
<1>3. FileInv => FileTypeOK
  BY DEF FileInv
<1>4. QED
  BY <1>1, <1>2, <1>3, FileInvariant, IdentKept, DateKept, BoardKept, PTL DEF FileSpec, IdentityInv

(* "An asset must keep one id for its whole life" (identity.py:3), and one *)
(* creation time: an entity that says otherwise than the last one has an   *)
(* id the operator set, or a damaged file behind it; and not even that can *)
(* change the id of a board whose serial can be read, with no ENTITY_ID.   *)
THEOREM IdentitySurvives == FileSpec => IdentityKept
<1> DEFINE Kept ==
      shown' # shown /\ shown.id # None =>
          /\ \/ shown'.id = shown.id
             \/ shown'.id \in Pin
             \/ Damaged /\ (serial = None \/ pinned \/ "serial" \in harm)
          /\ (shown'.created = shown.created \/ Damaged)
<1>1. IdentityInv /\ [FileNext]_fileVars => [Kept]_fileVars
  <2> SUFFICES ASSUME IdentityInv, [FileNext]_fileVars, shown' # shown, shown.id # None
               PROVE  Kept
    OBVIOUS
  <2>1. Build
    <3>1. ASSUME NEW p \in Process,
                 \/ Load(p) \/ ResolveKnown(p) \/ ResolveNew(p) \/ Exit(p)
                 \/ Open(p) \/ Write(p) \/ Replace(p) \/ FlushRaises(p)
          PROVE  UNCHANGED shown
      BY <3>1, Zenon DEF Load, ResolveKnown, ResolveNew, Exit, Open, Write, Replace, FlushRaises
    <3>2. CASE Date \/ Record \/ EditConfig \/ FileLost \/ UNCHANGED fileVars
      BY <3>2 DEF Date, Record, EditConfig, FileLost, fileVars
    <3>3. QED
      BY <3>1, <3>2 DEF FileNext
  <2>2. /\ shown'.id = ident["daemon"] /\ shown'.created = data["daemon"].created
        /\ pc["daemon"] = "dated" /\ "daemon" \in Process
    BY <2>1 DEF Build, Process
  <2>3. data["daemon"].id = ident["daemon"]
    BY <2>2 DEF IdentityInv, IdentInv
  <2>4. CASE ~Damaged
    <3>1. Carries(data["daemon"])
      BY <2>2, <2>4 DEF IdentityInv, KeptInv
    <3>2. QED
      BY <2>2, <2>3, <3>1 DEF Carries
  <2>5. CASE Damaged
    <3>1. ASSUME serial # None, ~pinned, "serial" \notin harm PROVE shown'.id = shown.id
      <4>1. ident["daemon"] \in {Board, None} /\ shown.id \in {Board, None}
        BY <2>2, <3>1 DEF IdentityInv, BoardInv
      <4>2. ident["daemon"] # None
        BY <2>2 DEF IdentityInv, FileInv, FileTypeOK
      <4>3. QED
        BY <2>2, <4>1, <4>2
    <3>2. QED
      BY <2>5, <3>1
  <2>6. QED
    BY <2>4, <2>5
<1>2. QED
  BY <1>1, IdentityInvariant, PTL DEF FileSpec, IdentityKept

-----------------------------------------------------------------------------
(* The operator's tools.                                                   *)

(* The daemon comes up only through Build, which shows its id; the records *)
(* it writes from then on have that id.                                    *)
LEMMA ShownKept ==
    IdentityInv /\ IdentityInv' /\ ShownInv /\ [FileNext]_fileVars => ShownInv'
<1> SUFFICES ASSUME IdentityInv, IdentityInv', ShownInv, [FileNext]_fileVars,
                    Bound("daemon")' = "up"
             PROVE  /\ shown'.id = ident'["daemon"]
                    /\ ~Damaged' => state' # None /\ text'[state'].data.id = ident'["daemon"]
  BY DEF ShownInv
<1>0. /\ "daemon" \in Process /\ FileTypeOK /\ pc \in [Process -> Points]
      /\ then \in [Process -> {"identified", "dated", "up"}]
  BY DEF IdentityInv, FileInv, FileTypeOK, Process
<1>D. ~Damaged' => ~Damaged
  BY HarmGrows DEF Damaged
<1>I. pc["daemon"] \notin {"off", "loaded"} => data["daemon"].id = ident["daemon"]
  BY <1>0 DEF IdentityInv, IdentInv
<1>1. ASSUME NEW p \in Process, Load(p) \/ ResolveKnown(p) \/ ResolveNew(p) \/ Exit(p)
      PROVE  /\ Bound("daemon") = "up"
             /\ UNCHANGED <<ident["daemon"], shown, state, text>>
  <2>1. CASE p = "daemon"
    <3>1. Bound("daemon")' \in {"loaded", "identified", "off"}
      BY <1>0, <1>1, <2>1 DEF Load, ResolveKnown, ResolveNew, Exit, Set, GoTo, AfterResolve,
                              Bound, Flushing
    <3>2. QED
      BY <3>1
  <2>2. CASE p # "daemon"
    <3>1. UNCHANGED <<pc["daemon"], then["daemon"], ident["daemon"], shown, state, text>>
      BY <1>0, <1>1, <2>2 DEF Load, ResolveKnown, ResolveNew, Exit, Set, GoTo, FileTypeOK,
                              diskVars
    <3>2. QED
      BY <3>1 DEF Bound
  <2>3. QED
    BY <2>1, <2>2
<1>2. ASSUME NEW p \in Process, Open(p) \/ Write(p) \/ Replace(p) \/ FlushRaises(p)
      PROVE  /\ shown'.id = ident'["daemon"]
             /\ ~Damaged' => state' # None /\ text'[state'].data.id = ident'["daemon"]
  <2>1. UNCHANGED <<shown, ident, data>> /\ Bound("daemon") = "up"
    BY <1>0, <1>2, FlushStep
  <2>2. pc["daemon"] \notin {"off", "loaded"}
    BY <2>1 DEF Bound, Flushing
  <2>3. ASSUME ~Damaged' PROVE state' # None /\ text'[state'].data.id = ident'["daemon"]
    <3>1. state # None /\ text[state].data.id = ident["daemon"]
      BY <1>D, <2>1, <2>3 DEF ShownInv
    <3>2. state' # None /\ text'[state'].data \in {text[state].data, data["daemon"]}
      BY <1>2, <2>3, <3>1, FlushKeepsText DEF IdentityInv
    <3>3. QED
      BY <1>I, <2>1, <2>2, <3>1, <3>2
  <2>4. QED
    BY <2>1, <2>3 DEF ShownInv
<1>3. ~Date
  BY <1>0 DEF Date, Set, GoTo, Bound, Flushing
<1>4. CASE Build
  <2>1. shown'.id = ident'["daemon"] /\ pc'["daemon"] = "up"
    BY <1>0, <1>4 DEF Build, GoTo
  <2>2. ASSUME ~Damaged' PROVE state' # None /\ text'[state'].data = data'["daemon"]
    <3>1. Intact' /\ Fresh'
      BY <2>2, WholeParts DEF IdentityInv, FileInv, WholeInv, Damaged, Foreign
    <3>2. QED
      BY <2>1, <3>1 DEF Intact, Fresh
  <2>3. data'["daemon"].id = ident'["daemon"]
    BY <1>0, <2>1 DEF IdentityInv, IdentInv
  <2>4. QED
    BY <2>1, <2>2, <2>3
<1>5. CASE Record
  <2>1. Bound("daemon") = "up" /\ UNCHANGED <<shown, ident, state, text, harm>>
    BY <1>5 DEF Record, Bound, Flushing, diskVars
  <2>2. QED
    BY <1>D, <2>1 DEF ShownInv
<1>6. CASE EditConfig \/ FileLost \/ UNCHANGED fileVars
  <2>1. /\ Bound("daemon") = "up" /\ UNCHANGED <<shown, ident>>
        /\ ~Damaged' => UNCHANGED <<state, text>>
    BY <1>6 DEF EditConfig, FileLost, fileVars, diskVars, processVars, Bound, Damaged
  <2>2. QED
    BY <1>D, <2>1 DEF ShownInv
<1>7. QED
  BY <1>D, <1>1, <1>2, <1>3, <1>4, <1>5, <1>6 DEF FileNext, ShownInv

(* A script reads the file after the daemon next to it has come up; then   *)
(* that daemon is up, or gone, until another one starts.                   *)
LEMMA ScriptKept == IdentityInv /\ ShownInv /\ ScriptInv /\ [FileNext]_fileVars => ScriptInv'
<1> SUFFICES ASSUME IdentityInv, ShownInv, ScriptInv, [FileNext]_fileVars,
                    pc'["script"] = "loaded", ~apart'
             PROVE  /\ Bound("daemon")' \in {"up", "off"}
                    /\ ~Damaged' => /\ shown'.id # None
                                    /\ data'["script"].id = shown'.id
                                    /\ cfg'["script"] \in {None, shown'.id}
  BY DEF ScriptInv
<1>0. /\ "daemon" \in Process /\ "script" \in Process /\ "daemon" # "script" /\ FileTypeOK
      /\ pc \in [Process -> Points] /\ then \in [Process -> {"identified", "dated", "up"}]
  BY DEF IdentityInv, FileInv, FileTypeOK, Process
<1>1. ~Damaged' => ~Damaged
  BY HarmGrows DEF Damaged
<1>2. CASE Load("script")
  <2>1. Bound("daemon") = "up" /\ cfg["daemon"] = pin /\ UNCHANGED <<shown, then>>
    BY <1>2 DEF Load
  <2>2. Bound("daemon")' = "up"
    BY <1>0, <1>2, <2>1 DEF Load, GoTo, Bound, Flushing
  <2>3. shown.id = ident["daemon"] /\ ident["daemon"] # None /\ data["daemon"].id = ident["daemon"]
    BY <1>0, <2>1 DEF ShownInv, IdentityInv, IdentInv, FileTypeOK, Bound, Flushing
  <2>4. cfg'["script"] = pin
    BY <1>0, <1>2 DEF Load, FileTypeOK
  <2>5. pin # None => pin = shown.id
    BY <1>0, <2>1, <2>3 DEF IdentityInv, IdentInv, Bound, Flushing
  <2>6. ASSUME ~Damaged' PROVE data'["script"].id = shown.id
    <3>1. Intact
      BY <1>1, <2>6, WholeParts DEF IdentityInv, FileInv
    <3>2. state # None /\ text[state].data.id = shown.id /\ text[state].kind = "whole"
      BY <1>1, <2>1, <2>3, <2>6, <3>1 DEF Intact, ShownInv
    <3>3. QED
      BY <1>0, <1>2, <2>6, <3>2 DEF Load, FileTypeOK, Damaged
  <2>7. QED
    BY <2>1, <2>2, <2>3, <2>4, <2>5, <2>6
<1>3. ASSUME ~Load("script"), NEW p \in Process,
             Load(p) \/ ResolveKnown(p) \/ ResolveNew(p) \/ Exit(p)
      PROVE  p = "daemon" /\ Exit(p)
  <2>1. p # "script"
    BY <1>0, <1>3 DEF ResolveKnown, ResolveNew, Exit, Set, GoTo, AfterResolve
  <2>2. p = "daemon"
    BY <2>1 DEF Process
  <2>3. pc["script"] = "loaded"
    BY <1>0, <1>3, <2>2 DEF Load, ResolveKnown, ResolveNew, Exit, Set, GoTo
  <2>4. ~Load(p)
    BY <2>1 DEF Load
  <2>5. ~apart
    BY <1>3, <2>4 DEF ResolveKnown, ResolveNew, Exit
  <2>6. Bound("daemon") \in {"up", "off"}
    BY <2>3, <2>5 DEF ScriptInv
  <2>7. QED
    BY <1>3, <2>2, <2>4, <2>6 DEF ResolveKnown, ResolveNew, Bound, Flushing
<1>4. CASE Exit("daemon")
  <2>1. /\ pc["script"] = "loaded" /\ UNCHANGED <<shown, data["script"], cfg["script"], apart>>
        /\ Bound("daemon")' = "off"
    BY <1>0, <1>4 DEF Exit, GoTo, FileTypeOK, Bound, Flushing
  <2>2. QED
    BY <1>1, <2>1 DEF ScriptInv
<1>5. ASSUME NEW p \in Process, Open(p) \/ Write(p) \/ Replace(p) \/ FlushRaises(p)
      PROVE  /\ pc["script"] = "loaded"
             /\ UNCHANGED <<shown, data, cfg, apart, Bound("daemon")>>
  <2>1. UNCHANGED <<shown, data, cfg, apart, Bound("daemon")>>
    BY <1>0, <1>5, FlushStep
  <2>2. p # "script"
    <3>1. ASSUME p = "script" PROVE FALSE
      BY <1>0, <1>5, <3>1, FlushStep DEF Flushing
    <3>2. QED
      BY <3>1
  <2>3. pc["script"] = "loaded"
    BY <1>0, <1>5, <2>2 DEF Open, Write, Replace, FlushRaises, GoTo
  <2>4. QED
    BY <2>1, <2>3
<1>6. CASE Date \/ Build \/ Record
  <2>1. pc["script"] = "loaded" /\ ~apart
    BY <1>0, <1>6, DaemonStep
  <2>2. Bound("daemon") \in {"up", "off"}
    BY <2>1 DEF ScriptInv
  <2>3. Record
    BY <1>6, <2>2 DEF Date, Build, Bound, Flushing
  <2>4. UNCHANGED <<shown, cfg, harm>> /\ data'["script"] = data["script"]
    BY <1>0, <2>3, DaemonStep DEF Record
  <2>5. Bound("daemon")' = "up"
    BY <1>0, <2>3 DEF Record, Set, GoTo, Bound, Flushing
  <2>6. QED
    BY <1>1, <2>1, <2>4, <2>5 DEF ScriptInv
<1>7. CASE EditConfig \/ FileLost \/ UNCHANGED fileVars
  <2>1. UNCHANGED <<pc, then, shown, data, cfg, apart>>
    BY <1>7 DEF EditConfig, FileLost, fileVars, processVars
  <2>2. QED
    BY <1>1, <2>1 DEF ScriptInv, Bound
<1>8. CASE \E p \in Process : Open(p) \/ Write(p) \/ Replace(p) \/ FlushRaises(p)
  BY <1>1, <1>5, <1>8 DEF ScriptInv
<1>9. QED
  BY <1>2, <1>3, <1>4, <1>6, <1>7, <1>8 DEF FileNext

(* A script that starts next to a daemon with the same ENTITY_ID resolves  *)
(* the id that daemon publishes, and does not write the file.              *)
THEOREM ScriptsResolveAlike == FileSpec => ScriptsAgree
<1> DEFINE Agree ==
      pc["script"] = "loaded" /\ pc'["script"] \in {"open", "up"} /\ ~apart /\ ~Damaged =>
          pc'["script"] = "up" /\ ident'["script"] = shown.id
<1>1. FileInit => ShownInv /\ ScriptInv
  BY DEF FileInit, ShownInv, ScriptInv, Bound, Flushing, Process
<1>2. IdentityInv /\ ScriptInv /\ [FileNext]_fileVars => [Agree]_fileVars
  <2> SUFFICES ASSUME IdentityInv, ScriptInv, [FileNext]_fileVars,
                      pc["script"] = "loaded", pc'["script"] \in {"open", "up"}, ~apart, ~Damaged
               PROVE  pc'["script"] = "up" /\ ident'["script"] = shown.id
    OBVIOUS
  <2>0. /\ "daemon" \in Process /\ "script" \in Process /\ "daemon" # "script" /\ FileTypeOK
        /\ pc \in [Process -> Points]
    BY DEF IdentityInv, FileInv, FileTypeOK, Process
  <2>1. /\ shown.id # None /\ data["script"].id = shown.id
        /\ cfg["script"] \in {None, shown.id}
    BY DEF ScriptInv
  <2>2. Candidates("script") = {shown.id}
    BY <2>1 DEF Candidates, Preferred
  <2>3. ASSUME NEW p \in Process,
               Load(p) \/ Exit(p) \/ Open(p) \/ Write(p) \/ Replace(p) \/ FlushRaises(p)
        PROVE  FALSE
    BY <2>0, <2>3 DEF Load, Exit, Open, Write, Replace, FlushRaises, GoTo, Flushing
  <2>4. ASSUME NEW p \in Process, ResolveKnown(p) \/ ResolveNew(p)
        PROVE  p = "script" /\ ResolveKnown(p)
    <3>1. p = "script"
      BY <2>0, <2>4 DEF ResolveKnown, ResolveNew, Set, GoTo
    <3>2. ~ResolveNew(p)
      BY <2>1, <2>2, <3>1 DEF ResolveNew
    <3>3. QED
      BY <2>4, <3>1, <3>2
  <2>5. ~ (Date \/ Build \/ Record)
    BY <2>0, DaemonStep
  <2>6. ~ (EditConfig \/ FileLost \/ UNCHANGED fileVars)
    BY DEF EditConfig, FileLost, fileVars, processVars
  <2>7. ResolveKnown("script")
    BY <2>3, <2>4, <2>5, <2>6 DEF FileNext
  <2>8. QED
    BY <2>0, <2>1, <2>7 DEF ResolveKnown, GoTo, AfterResolve, FileTypeOK
<1>3. QED
  BY <1>1, <1>2, IdentityInvariant, ShownKept, ScriptKept, PTL DEF FileSpec, ScriptsAgree
=============================================================================
