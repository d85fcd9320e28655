------------------------------ MODULE ConfigStore ------------------------------
(***************************************************************************)
(* The start of the gateway, init_data in src/src/utilities.c: the local   *)
(* configuration is loaded and, when the published one is newer, fetched   *)
(* anew and saved.  A configuration is a version, the core modules linked  *)
(* to the gateway and the sensors linked to each.                          *)
(*                                                                         *)
(* The published configuration lies in rows of a table an administrator    *)
(* edits one by one and then gives a new version.  No scan asks for a      *)
(* consistent read, so any may return rows as they were.  A list of        *)
(* sensors is <<m, r>>: the r-th revision of the list of core module m;    *)
(* <<m, 0>> is an empty one.                                               *)
(*                                                                         *)
(* The file is written without fsync: what the process has written stays   *)
(* in the page cache until the kernel writes it to the disk, and is lost   *)
(* when the power fails before.                                            *)
(***************************************************************************)
EXTENDS Integers, FiniteSets

CONSTANTS
    Modules,    \* core modules there may be
    MaxVersion, \* bound: versions published
    MaxEdits,   \* bound: edits of the table
    MaxStarts   \* bound: starts of the process

ASSUME ModulesAssumption == IsFiniteSet(Modules)
ASSUME BoundsAssumption == {MaxVersion, MaxEdits, MaxStarts} \subseteq Nat

VARIABLES
    pc,             \* where init_data stands
    config_version, \* memory: bridge_data
    cms,            \*   the core modules in cm
    sens,           \*   the sensors of each
    todo,           \* core modules whose sensors are still to be fetched
    http_response,  \* the answer left on the stack of update_sensors
    file,           \* config.json as processes see it
    safe,           \*   as it is on the disk
    synced,         \*   all that was written of it is on the disk
    published,      \* the table: the version of the gateway
    linked,         \*   the core modules linked to it
    wasLinked,      \*   and those that were at some time
    revision,       \*   revisions of the sensors linked to each
    editing,        \*   edited since that version
    unanswered,     \* history: some scan was not answered in full
    missed,         \* history: a scan of this update failed or was behind the table
    incomplete,     \* history: the gateway's row lacks ConfigVersion or DeviceID
    edits, starts   \* history: for the bounds

memory == <<config_version, cms, sens>>
disk == <<file, safe, synced>>
table == <<published, linked, wasLinked, revision, editing, edits>>
update == <<todo, http_response, unanswered, missed, incomplete>>
vars == <<pc, memory, disk, table, update, starts>>

Lists == Modules \X (0..MaxEdits + 1)
NoSensors == [m \in Modules |-> <<m, 0>>]

\* A file is whole, empty or torn; the rest is what it held when last whole.
\* It is of a full update if that missed nothing.
Files == [state : {"whole", "empty", "torn"}, version : 0..MaxVersion,
          cms : SUBSET Modules, sens : [Modules -> Lists],
          origin : {"full", "other"}]

\* A gateway is set up with a configuration of some version, older or newer
\* than the table's.
Init ==
    /\ pc = "off" /\ config_version = 0 /\ cms = {} /\ sens = NoSensors
    /\ todo = {} /\ http_response = {}
    /\ \E version \in 0..MaxVersion, modules \in SUBSET Modules :
         file = [state |-> "whole", version |-> version, cms |-> modules,
                 sens |-> [m \in Modules |-> <<m, 1>>], origin |-> "other"]
    /\ safe = file /\ synced = TRUE
    /\ published = 0 /\ linked = Modules /\ wasLinked = {Modules}
    /\ revision = [m \in Modules |-> 1]
    /\ editing = FALSE /\ edits = 0
    /\ unanswered = FALSE /\ missed = FALSE /\ incomplete = FALSE /\ starts = 0

-----------------------------------------------------------------------------
(* load_local_config. *)

\* The process ends, and its memory with it.
Ends ==
    /\ pc' = "off"
    /\ config_version' = 0 /\ cms' = {} /\ sens' = NoSensors
    /\ todo' = {} /\ http_response' = {} /\ missed' = FALSE /\ incomplete' = FALSE
    /\ UNCHANGED <<unanswered, table, starts>>

Start ==
    /\ pc \in {"off", "failed"} /\ starts < MaxStarts
    /\ pc' = "load" /\ starts' = starts + 1
    /\ UNCHANGED <<memory, disk, table, update>>

Load ==
    /\ pc = "load" /\ file.state = "whole"
    /\ config_version' = file.version /\ cms' = file.cms /\ sens' = file.sens
    /\ pc' = "check"
    /\ UNCHANGED <<disk, table, update, starts>>

\* Nothing can be read of an empty file: init fails.
LoadFails ==
    /\ pc = "load" /\ file.state = "empty"
    /\ pc' = "failed"
    /\ UNCHANGED <<memory, disk, table, update, starts>>

\* A cut file parses to NULL, which is followed; and the objects of the core
\* modules are released twice, which may end the process.
LoadDies ==
    /\ pc = "load" /\ (file.state = "torn" \/ (file.state = "whole" /\ file.cms # {}))
    /\ Ends /\ UNCHANGED disk

\* check_internet.
Online ==
    /\ pc = "check"
    /\ pc' = "gateway"
    /\ UNCHANGED <<memory, disk, table, update, starts>>

Offline ==
    /\ pc = "check"
    /\ pc' = "running"
    /\ UNCHANGED <<memory, disk, table, update, starts>>

-----------------------------------------------------------------------------
(* load_remote_config. *)

\* A plausible bug: any version but the one in the file is taken.
UpdateNeededIfDifferent ==
    /\ pc = "gateway"
    /\ \E ver \in 0..published : ver # config_version /\ config_version' = ver
    /\ cms' = {}
    /\ pc' = "modules"
    /\ UNCHANGED <<sens, disk, table, update, starts>>

\* A plausible bug: the old core modules stay until the new ones are there.
UpdateNeededKeepsOld ==
    /\ pc = "gateway"
    /\ \E ver \in 0..published : ver > config_version /\ config_version' = ver
    /\ cms' = cms
    /\ pc' = "modules"
    /\ UNCHANGED <<sens, disk, table, update, starts>>

\* A plausible bug: the file is emptied before the new modules are fetched.
UpdateNeededEmptiesFile ==
    /\ pc = "gateway"
    /\ \E ver \in 0..published : ver > config_version /\ config_version' = ver
    /\ cms' = {}
    /\ pc' = "modules"
    /\ file' = [file EXCEPT !.state = "empty"] /\ synced' = FALSE
    /\ UNCHANGED <<sens, safe, table, update, starts>>

\* The version is taken over and, at the start of update_core_module, the core
\* modules are freed.
UpdateNeeded ==
    /\ pc = "gateway"
    /\ \E ver \in 0..published : ver > config_version /\ config_version' = ver
    /\ cms' = {}
    /\ pc' = "modules"
    /\ UNCHANGED <<sens, disk, table, update, starts>>

\* The row has no DeviceID: the version is taken over, and nothing else.
VersionOnly ==
    /\ pc = "gateway"
    /\ \E ver \in 0..published : ver > config_version /\ config_version' = ver
    /\ incomplete' = TRUE
    /\ pc' = "running"
    /\ UNCHANGED <<cms, sens, todo, http_response, unanswered, missed, disk, table,
                   starts>>

\* The row has no ConfigVersion: the core modules are fetched whatever the
\* version, and saved with the one in memory.
UpdateUnversioned ==
    /\ pc = "gateway"
    /\ cms' = {}
    /\ incomplete' = TRUE
    /\ pc' = "modules"
    /\ UNCHANGED <<config_version, sens, todo, http_response, unanswered, missed,
                   disk, table, starts>>

NoUpdate ==
    /\ pc = "gateway"
    /\ \E ver \in 0..published : ver <= config_version
    /\ pc' = "running"
    /\ UNCHANGED <<memory, disk, table, update, starts>>

\* The scan fails, or does not find exactly one gateway, or a row with neither
\* a version nor a DeviceID: the local configuration stays in use.
GatewayFails ==
    /\ pc = "gateway"
    /\ pc' = "running"
    /\ UNCHANGED <<memory, disk, table, update, starts>>

\* A scan whose answer is cut: the JSON parses to NULL, which is followed.
AnswerCut ==
    /\ pc \in {"gateway", "modules", "sensors"}
    /\ Ends /\ UNCHANGED disk

\* check_internet waits for ever, or recv_timeout on a closed connection.
Hangs ==
    /\ pc \in {"check", "gateway", "modules", "sensors"}
    /\ pc' = "hung"
    /\ UNCHANGED <<memory, disk, table, update, starts>>

-----------------------------------------------------------------------------
(* update_core_module and update_sensors. *)

ModulesFound ==
    /\ pc = "modules"
    /\ \E found \in wasLinked :
         /\ cms' = found /\ todo' = found
         /\ missed' = (missed \/ found # linked)
         /\ pc' = IF found = {} THEN "save" ELSE "sensors"
    /\ sens' = NoSensors
    /\ UNCHANGED <<config_version, http_response, unanswered, incomplete, disk,
                   table, starts>>

\* The file is left alone and the process runs without core modules.
ModulesFail ==
    /\ pc = "modules"
    /\ pc' = "running"
    /\ missed' = TRUE
    /\ UNCHANGED <<memory, todo, http_response, unanswered, incomplete, disk, table,
                   starts>>

\* update_sensors is done with module m, whatever came of it.
Done(m) ==
    /\ todo' = todo \ {m}
    /\ pc' = IF todo' = {} THEN "save" ELSE "sensors"

SensorsFound ==
    /\ pc = "sensors"
    /\ \E m \in todo : \E found \in 1..revision[m] :
         /\ sens' = [sens EXCEPT ![m] = <<m, found>>]
         /\ http_response' = {<<m, found>>}
         /\ missed' = (missed \/ found # revision[m])
         /\ Done(m)
    /\ UNCHANGED <<config_version, cms, unanswered, incomplete, disk, table, starts>>

\* A plausible bug: the error of send_http_request_to_dynamodb is ignored.
SensorsFailUnseen ==
    /\ pc = "sensors"
    /\ \E m \in todo :
         /\ \/ http_response = {} /\ sens' = sens
            \/ \E l \in http_response : sens' = [sens EXCEPT ![m] = l]
         /\ Done(m)
    /\ missed' = TRUE
    /\ UNCHANGED <<config_version, cms, http_response, unanswered, incomplete, disk,
                   table, starts>>

\* A plausible bug: the whole update is begun again.
SensorsFailRestart ==
    /\ pc = "sensors"
    /\ pc' = "modules"
    /\ missed' = TRUE
    /\ UNCHANGED <<memory, todo, http_response, unanswered, incomplete, disk, table,
                   starts>>

\* A plausible bug: the remaining core modules are given up.
SensorsFailEnds ==
    /\ pc = "sensors"
    /\ pc' = "save"
    /\ missed' = TRUE
    /\ UNCHANGED <<memory, todo, http_response, unanswered, incomplete, disk, table,
                   starts>>

\* The request is not sent, or refused, in an answer perhaps; which is only
\* reported: the core module is left without sensors.
SensorsFail ==
    /\ pc = "sensors"
    /\ \E m \in todo : Done(m)
    /\ http_response' \in {http_response, {}}
    /\ missed' = TRUE
    /\ UNCHANGED <<memory, unanswered, incomplete, disk, table, starts>>

\* Nothing, or too little, is received: what is judged is the answer the last
\* call left in the buffer, at the same place of the stack.
SensorsUnanswered ==
    /\ pc = "sensors"
    /\ \E m \in todo :
         /\ \/ http_response = {} /\ sens' = sens
            \/ \E l \in http_response : sens' = [sens EXCEPT ![m] = l]
         /\ Done(m)
    /\ unanswered' = TRUE /\ missed' = TRUE
    /\ UNCHANGED <<config_version, cms, http_response, incomplete, disk, table, starts>>

-----------------------------------------------------------------------------
(* update_config_file. *)

\* Nothing reads the answer on the stack from here on.
Truncate ==
    /\ pc = "save"
    /\ file' = [file EXCEPT !.state = "empty"] /\ synced' = FALSE
    /\ pc' = "write" /\ http_response' = {}
    /\ UNCHANGED <<memory, todo, unanswered, missed, incomplete, safe, table, starts>>

Saved(version) ==
    [state |-> "whole", version |-> version, cms |-> cms, sens |-> sens,
     origin |-> IF missed \/ incomplete THEN "other" ELSE "full"]

\* A plausible bug: the version is asked for again when the file is written.
WriteLatest ==
    /\ pc = "write"
    /\ file' = Saved(published) /\ synced' = FALSE
    /\ pc' = "running"
    /\ UNCHANGED <<memory, safe, table, update, starts>>

Write ==
    /\ pc = "write"
    /\ file' = Saved(config_version) /\ synced' = FALSE
    /\ pc' = "running"
    /\ UNCHANGED <<memory, safe, table, update, starts>>

\* What is left of the file when less than all of it arrives.
Spoilt == {[file EXCEPT !.state = state] : state \in {"empty", "torn"}}

\* No room on the disk: reported, or not noticed before fclose.
WriteFails ==
    /\ pc = "write"
    /\ file' \in Spoilt /\ synced' = FALSE
    /\ pc' = "running"
    /\ UNCHANGED <<memory, safe, table, update, starts>>

-----------------------------------------------------------------------------
(* The end of the process, and the disk. *)

\* The process ends, within the write with what it has written so far; what is
\* in the page cache stays.
Crash ==
    /\ pc \notin {"off", "failed"}
    /\ IF pc = "write" THEN file' \in Spoilt ELSE UNCHANGED file
    /\ Ends /\ UNCHANGED <<safe, synced>>

\* The kernel writes the page cache to the disk, sooner or later.
Sync ==
    /\ ~synced
    /\ safe' = file /\ synced' = TRUE
    /\ UNCHANGED <<pc, memory, file, table, update, starts>>

\* Without a sync, the disk has the file of before, the new one or part of it.
PowerFails ==
    /\ ~synced
    /\ file' \in {safe, file} \cup Spoilt
    /\ safe' = file' /\ synced' = TRUE
    /\ Ends

-----------------------------------------------------------------------------
(* The administrator. *)

EditSensors ==
    /\ edits < MaxEdits
    /\ edits' = edits + 1 /\ editing' = TRUE
    /\ \E m \in Modules : revision' = [revision EXCEPT ![m] = @ + 1]
    /\ UNCHANGED <<pc, memory, disk, published, linked, wasLinked, update, starts>>

EditLinks ==
    /\ edits < MaxEdits
    /\ edits' = edits + 1 /\ editing' = TRUE
    /\ \E m \in Modules :
         linked' = IF m \in linked THEN linked \ {m} ELSE linked \cup {m}
    /\ wasLinked' = wasLinked \cup {linked'}
    /\ UNCHANGED <<pc, memory, disk, published, revision, update, starts>>

Publish ==
    /\ published < MaxVersion
    /\ published' = published + 1 /\ editing' = FALSE
    /\ UNCHANGED <<pc, memory, disk, linked, wasLinked, revision, edits, update, starts>>

LoadStep == Load \/ LoadFails \/ LoadDies \/ Online \/ Offline
RemoteStep ==
    UpdateNeeded \/ VersionOnly \/ UpdateUnversioned \/ NoUpdate \/ GatewayFails
FetchStep ==
    ModulesFound \/ ModulesFail \/ SensorsFound \/ SensorsFail \/ SensorsUnanswered
SaveStep == Truncate \/ Write \/ WriteFails
InitData == LoadStep \/ RemoteStep \/ FetchStep \/ SaveStep \/ AnswerCut \/ Hangs
Admin == EditSensors \/ EditLinks \/ Publish

Disk == Sync \/ PowerFails

Next == Start \/ InitData \/ Crash \/ Disk \/ Admin

\* A process that runs takes its next step; nothing is assumed of the others.
Spec == Init /\ [][Next]_vars /\ WF_vars(InitData)

-----------------------------------------------------------------------------
(* Properties. *)

Places == {"off", "load", "check", "gateway", "modules", "sensors", "save",
           "write", "running", "failed", "hung"}

\* The type invariant; sensors are fetched for the core modules of the update
\* only, and for all of them before the file is written.
TypeOK ==
    /\ pc \in Places
    /\ config_version \in 0..MaxVersion /\ published \in 0..MaxVersion
    /\ cms \subseteq Modules /\ linked \subseteq Modules /\ wasLinked \subseteq SUBSET Modules
    /\ sens \in [Modules -> Lists]
    /\ file \in Files /\ safe \in Files
    /\ revision \in [Modules -> 1..edits + 1]
    /\ todo \subseteq cms
    /\ pc \in {"load", "check", "gateway", "modules", "save", "write"} => todo = {}
    /\ http_response \subseteq Lists
    /\ synced \in BOOLEAN /\ editing \in BOOLEAN
    /\ unanswered \in BOOLEAN /\ missed \in BOOLEAN /\ incomplete \in BOOLEAN
    /\ edits \in 0..MaxEdits /\ starts \in 0..MaxStarts

\* The version in the file never falls back, whatever is published, however
\* often the process starts and wherever it is stopped; only the power can
\* bring an older one back, the last that had reached the disk.
VersionNeverFalls ==
    [][file'.version >= file.version \/ (~synced /\ file' = safe)]_file

\* The file of an update that missed nothing is what is published, when it has
\* the published version and the table is not being edited: the version is
\* read before the rows it stands for, so an edit in between is fetched now or
\* with the next version.  It is not when a scan failed or read old rows.
UpToDate ==
    file.origin = "full" /\ file.state = "whole" /\ file.version = published /\ ~editing =>
      /\ file.cms = linked
      /\ \A m \in linked : file.sens[m] = <<m, revision[m]>>

\* The gateway runs on the configuration in its file; or on no core module at
\* all, and then the file has an older version, so that the next start fetches
\* the published one again.  Where the gateway's row lacked its version or its
\* DeviceID the versions say nothing.
RunsOnFileOrNothing ==
    pc = "running" /\ file.state = "whole" =>
      \/ /\ config_version = file.version \/ incomplete
         /\ cms = file.cms
         /\ \A m \in cms : sens[m] = file.sens[m]
      \/ cms = {} /\ (config_version > file.version \/ incomplete)

\* A core module is given the sensors of another only after a scan that was
\* not answered in full.
OwnSensors == ~unanswered => \A m \in cms : sens[m][1] = m

\* A whole file is only ever lost to the write of an update that has fetched
\* all it will, or to the power failing before that write reached the disk,
\* which may be long after fclose: in a later start, too.
WholeFileIsKept ==
    [][file.state = "whole" /\ file'.state # "whole" =>
         (pc = "save" /\ pc' = "write") \/ (pc' = "off" /\ ~synced)]_vars

\* Every start ends, in running, in an exit, or on a request without an end.
StartEnds == pc = "load" ~> pc \in {"running", "failed", "off", "hung"}
=============================================================================
