------------------------- MODULE ConfigStore_proofs -------------------------
(***************************************************************************)
(* Proofs about ConfigStore, for any core modules and any number of        *)
(* versions, edits and starts.                                             *)
(***************************************************************************)
EXTENDS ConfigStore, FiniteSetTheorems, TLAPS

Flags ==
    /\ synced \in BOOLEAN /\ editing \in BOOLEAN
    /\ unanswered \in BOOLEAN /\ missed \in BOOLEAN /\ incomplete \in BOOLEAN

\* The versions in memory and in the table, and the modules a fetch is about.
Counts ==
    /\ pc \in Places
    /\ config_version \in 0..MaxVersion /\ published \in 0..MaxVersion
    /\ cms \subseteq Modules /\ linked \subseteq Modules
    /\ wasLinked \subseteq SUBSET Modules
    /\ todo \subseteq cms
    /\ pc \in {"off", "failed", "load", "check", "gateway", "modules", "save", "write"}
         => todo = {}
    /\ edits \in 0..MaxEdits /\ starts \in 0..MaxStarts

\* The lists of sensors in memory and in the table.
Sensors ==
    /\ sens \in [Modules -> Lists]
    /\ revision \in [Modules -> 1..edits + 1]
    /\ http_response \subseteq Lists

\* The file, and what is on the disk of it.
Stored == file \in Files /\ safe \in Files

\* Where the start stands in relation to the file: the same before an update,
\* ahead of it within one, and the table is not behind either.
Place ==
    /\ pc \in {"check", "gateway"} =>
         /\ config_version = file.version /\ cms = file.cms /\ sens = file.sens
    /\ pc \in {"modules", "sensors", "save", "write"} =>
         /\ config_version >= file.version
         /\ incomplete \/ (config_version > file.version /\ config_version <= published)
    /\ pc = "modules" => cms = {}
    /\ pc \in {"check", "gateway", "modules", "sensors", "save"} => file.state = "whole"
    /\ pc = "write" => file.state = "empty"
    /\ safe.version <= file.version
    /\ RunsOnFileOrNothing

\* A file of an update that missed nothing is what is published.
Current(f) ==
    /\ f.origin = "full" => f.version <= published
    /\ f.origin = "full" /\ f.state = "whole" /\ f.version = published /\ ~editing =>
         /\ f.cms = linked
         /\ \A m \in linked : f.sens[m] = <<m, revision[m]>>

\* So is what such an update has fetched so far.
Fetched ==
    pc \in {"sensors", "save", "write"} /\ ~missed /\ ~incomplete =>
      (config_version = published /\ ~editing =>
         /\ cms = linked
         /\ \A m \in cms \ todo : sens[m] = <<m, revision[m]>>)

Fresh == Current(file) /\ Current(safe) /\ Fetched

\* Every list is its module's, in memory, in the file and on the disk.
Own ==
    ~unanswered =>
      \A m \in Modules : sens[m][1] = m /\ file.sens[m][1] = m /\ safe.sens[m][1] = m

IInv == Flags /\ Counts /\ Sensors /\ Stored /\ Place /\ Fresh /\ Own

USE BoundsAssumption

LEMMA ListFact == \A m \in Modules : \A r \in 0..MaxEdits + 1 : <<m, r>> \in Lists
  BY DEF Lists

LEMMA NoSensorsType == NoSensors \in [Modules -> Lists]
  BY ListFact, 0 \in 0..MaxEdits + 1 DEF NoSensors

\* What is left of a file still holds what it was.
LEMMA SpoiltFile ==
    ASSUME file \in Files, NEW f \in Spoilt
    PROVE  /\ f \in Files /\ f.state \in {"empty", "torn"}
           /\ f.version = file.version /\ f.cms = file.cms /\ f.sens = file.sens
           /\ f.origin = file.origin
  BY DEF Files, Spoilt

LEMMA TruncatedFile ==
    /\ [file EXCEPT !.state = "empty"] \in Spoilt
    /\ file \in Files => [file EXCEPT !.state = "empty"].state = "empty"
  BY DEF Spoilt, Files

\* What update_config_file writes is what memory holds.
LEMMA SavedFile ==
    ASSUME Counts, Sensors
    PROVE  /\ Saved(config_version) \in Files
           /\ Saved(config_version).state = "whole"
           /\ Saved(config_version).version = config_version
           /\ Saved(config_version).cms = cms /\ Saved(config_version).sens = sens
           /\ Saved(config_version).origin = "full" => ~missed /\ ~incomplete
  BY DEF Saved, Files, Counts, Sensors

\* The steps that write to the file, and what they make of it.
FileStep == Truncate \/ Write \/ WriteFails \/ Crash \/ PowerFails

LEMMA OtherSteps == [Next]_vars => FileStep \/ UNCHANGED file
  BY DEF Next, InitData, LoadStep, RemoteStep, FetchStep, SaveStep, Disk, Admin,
     FileStep, Start, Load, LoadFails, LoadDies, Online, Offline, UpdateNeeded,
     VersionOnly, UpdateUnversioned, NoUpdate, GatewayFails, ModulesFound,
     ModulesFail, SensorsFound, SensorsFail, SensorsUnanswered, AnswerCut, Hangs,
     Sync, EditSensors, EditLinks, Publish, vars, disk

LEMMA FileSteps ==
    ASSUME Counts, Sensors, Stored, Place, FileStep
    PROVE  \/ file' = safe /\ PowerFails
           \/ file' = Saved(config_version) /\ Write
           \/ /\ file' \in Files
              /\ file'.state \in {file.state, "empty", "torn"}
              /\ file'.version = file.version /\ file'.cms = file.cms
              /\ file'.sens = file.sens /\ file'.origin = file.origin
<1>1. \/ file' = file
      \/ file' = safe /\ PowerFails
      \/ file' = Saved(config_version) /\ Write
      \/ file' \in Spoilt
  BY TruncatedFile DEF FileStep, Truncate, Write, WriteFails, Crash, PowerFails
<1> QED BY <1>1, SpoiltFile DEF Stored

LEMMA NextFlags == Flags /\ [Next]_vars => Flags'
<1> SUFFICES ASSUME Flags, [Next]_vars PROVE Flags'
  OBVIOUS
<1> USE DEF Flags, memory, disk, table, update
<1>1. CASE Start
  BY <1>1, Zenon DEF Start
<1>2. CASE Load
  BY <1>2, Zenon DEF Load
<1>3. CASE LoadFails \/ Online \/ Offline
  BY <1>3, Zenon DEF LoadFails, Online, Offline
<1>4. CASE LoadDies \/ AnswerCut
  BY <1>4, Zenon DEF LoadDies, AnswerCut, Ends
<1>5. CASE UpdateNeeded
  BY <1>5, Zenon DEF UpdateNeeded
<1>6. CASE VersionOnly
  BY <1>6, Zenon DEF VersionOnly
<1>7. CASE UpdateUnversioned
  BY <1>7, Zenon DEF UpdateUnversioned
<1>8. CASE NoUpdate \/ GatewayFails \/ Hangs
  BY <1>8, Zenon DEF NoUpdate, GatewayFails, Hangs
<1>9. CASE ModulesFound
  BY <1>9, Zenon DEF ModulesFound
<1>10. CASE ModulesFail
  BY <1>10, Zenon DEF ModulesFail
<1>11. CASE SensorsFound
  BY <1>11, Zenon DEF SensorsFound
<1>12. CASE SensorsFail
  BY <1>12, Zenon DEF SensorsFail
<1>13. CASE SensorsUnanswered
  BY <1>13, Zenon DEF SensorsUnanswered
<1>14. CASE Truncate
  BY <1>14, Zenon DEF Truncate
<1>15. CASE Write
  BY <1>15, Zenon DEF Write
<1>16. CASE WriteFails
  BY <1>16, Zenon DEF WriteFails
<1>17. CASE Crash
  BY <1>17, Zenon DEF Crash, Ends
<1>18. CASE Sync
  BY <1>18, Zenon DEF Sync
<1>19. CASE PowerFails
  BY <1>19, Zenon DEF PowerFails, Ends
<1>20. CASE EditSensors \/ EditLinks \/ Publish
  BY <1>20, Zenon DEF EditSensors, EditLinks, Publish
<1>21. CASE UNCHANGED vars
  BY <1>21, Zenon DEF vars
<1> QED
  BY <1>1, <1>2, <1>3, <1>4, <1>5, <1>6, <1>7, <1>8, <1>9, <1>10, <1>11, <1>12,
     <1>13, <1>14, <1>15, <1>16, <1>17, <1>18, <1>19, <1>20, <1>21
     DEF Next, InitData, LoadStep, RemoteStep, FetchStep, SaveStep, Disk, Admin

LEMMA NextCounts == Counts /\ Stored /\ [Next]_vars => Counts'
<1> SUFFICES ASSUME Counts, Stored, [Next]_vars PROVE Counts'
  OBVIOUS
<1> USE DEF Counts, Places, Done, memory, disk, table, update
<1>1. CASE Start
  BY <1>1, SMTT(30) DEF Start
<1>2. CASE Load
  <2>1. file.version \in 0..MaxVersion /\ file.cms \subseteq Modules
    BY DEF Stored, Files
  <2> QED
    BY <1>2, <2>1, SMTT(30) DEF Load
<1>3. CASE LoadFails \/ Online \/ Offline
  BY <1>3, SMTT(30) DEF LoadFails, Online, Offline
<1>4. CASE LoadDies \/ AnswerCut
  BY <1>4, SMTT(30) DEF LoadDies, AnswerCut, Ends
<1>5. CASE UpdateNeeded
  BY <1>5, SMTT(30) DEF UpdateNeeded
<1>6. CASE VersionOnly
  BY <1>6, SMTT(30) DEF VersionOnly
<1>7. CASE UpdateUnversioned
  BY <1>7, SMTT(30) DEF UpdateUnversioned
<1>8. CASE NoUpdate \/ GatewayFails \/ Hangs
  BY <1>8, SMTT(30) DEF NoUpdate, GatewayFails, Hangs
<1>9. CASE ModulesFound
  BY <1>9, SMTT(30) DEF ModulesFound
<1>10. CASE ModulesFail
  BY <1>10, SMTT(30) DEF ModulesFail
<1>11. CASE SensorsFound
  BY <1>11, SMTT(30) DEF SensorsFound
<1>12. CASE SensorsFail
  BY <1>12, SMTT(30) DEF SensorsFail
<1>13. CASE SensorsUnanswered
  BY <1>13, SMTT(30) DEF SensorsUnanswered
<1>14. CASE Truncate
  BY <1>14, SMTT(30) DEF Truncate
<1>15. CASE Write
  BY <1>15, SMTT(30) DEF Write
<1>16. CASE WriteFails
  BY <1>16, SMTT(30) DEF WriteFails
<1>17. CASE Crash
  BY <1>17, SMTT(30) DEF Crash, Ends
<1>18. CASE Sync
  BY <1>18, SMTT(30) DEF Sync
<1>19. CASE PowerFails
  BY <1>19, SMTT(30) DEF PowerFails, Ends
<1>20. CASE EditSensors \/ EditLinks \/ Publish
  BY <1>20, SMTT(30) DEF EditSensors, EditLinks, Publish
<1>21. CASE UNCHANGED vars
  BY <1>21, SMTT(30) DEF vars
<1> QED
  BY <1>1, <1>2, <1>3, <1>4, <1>5, <1>6, <1>7, <1>8, <1>9, <1>10, <1>11, <1>12,
     <1>13, <1>14, <1>15, <1>16, <1>17, <1>18, <1>19, <1>20, <1>21
     DEF Next, InitData, LoadStep, RemoteStep, FetchStep, SaveStep, Disk, Admin

LEMMA NextSensors == Counts /\ Sensors /\ Stored /\ [Next]_vars => Sensors'
<1> SUFFICES ASSUME Counts, Sensors, Stored, [Next]_vars PROVE Sensors'
  OBVIOUS
<1> USE NoSensorsType, ListFact DEF Sensors, Counts, memory, disk, table, update
<1>1. CASE Start
  BY <1>1, SMTT(30) DEF Start
<1>2. CASE Load
  <2>1. file.sens \in [Modules -> Lists]
    BY DEF Stored, Files
  <2> QED
    BY <1>2, <2>1, SMTT(30) DEF Load
<1>3. CASE LoadFails \/ Online \/ Offline
  BY <1>3, SMTT(30) DEF LoadFails, Online, Offline
<1>4. CASE LoadDies \/ AnswerCut
  BY <1>4, SMTT(30) DEF LoadDies, AnswerCut, Ends
<1>5. CASE UpdateNeeded
  BY <1>5, SMTT(30) DEF UpdateNeeded
<1>6. CASE VersionOnly
  BY <1>6, SMTT(30) DEF VersionOnly
<1>7. CASE UpdateUnversioned
  BY <1>7, SMTT(30) DEF UpdateUnversioned
<1>8. CASE NoUpdate \/ GatewayFails \/ Hangs
  BY <1>8, SMTT(30) DEF NoUpdate, GatewayFails, Hangs
<1>9. CASE ModulesFound
  BY <1>9, SMTT(30) DEF ModulesFound
<1>10. CASE ModulesFail
  BY <1>10, SMTT(30) DEF ModulesFail
<1>11. CASE SensorsFound
  BY <1>11, SMTT(30) DEF SensorsFound
<1>12. CASE SensorsFail
  BY <1>12, SMTT(30) DEF SensorsFail
<1>13. CASE SensorsUnanswered
  BY <1>13, SMTT(30) DEF SensorsUnanswered
<1>14. CASE Truncate
  BY <1>14, SMTT(30) DEF Truncate
<1>15. CASE Write
  BY <1>15, SMTT(30) DEF Write
<1>16. CASE WriteFails
  BY <1>16, SMTT(30) DEF WriteFails
<1>17. CASE Crash
  BY <1>17, SMTT(30) DEF Crash, Ends
<1>18. CASE Sync
  BY <1>18, SMTT(30) DEF Sync
<1>19. CASE PowerFails
  BY <1>19, SMTT(30) DEF PowerFails, Ends
<1>20. CASE EditSensors \/ EditLinks \/ Publish
  BY <1>20, SMTT(30) DEF EditSensors, EditLinks, Publish
<1>21. CASE UNCHANGED vars
  BY <1>21, SMTT(30) DEF vars
<1> QED
  BY <1>1, <1>2, <1>3, <1>4, <1>5, <1>6, <1>7, <1>8, <1>9, <1>10, <1>11, <1>12,
     <1>13, <1>14, <1>15, <1>16, <1>17, <1>18, <1>19, <1>20, <1>21
     DEF Next, InitData, LoadStep, RemoteStep, FetchStep, SaveStep, Disk, Admin

LEMMA NextStored == Counts /\ Sensors /\ Stored /\ Place /\ [Next]_vars => Stored'
<1> SUFFICES ASSUME Counts, Sensors, Stored, Place, [Next]_vars PROVE Stored'
  OBVIOUS
<1>1. file' \in Files
  BY OtherSteps, FileSteps, SavedFile DEF Stored
<1>2. safe' \in {safe, file, file'}
  BY DEF Next, InitData, LoadStep, RemoteStep, FetchStep, SaveStep, Disk, Admin,
     Start, Load, LoadFails, LoadDies, Online, Offline, UpdateNeeded,
     VersionOnly, UpdateUnversioned, NoUpdate, GatewayFails, ModulesFound,
     ModulesFail, SensorsFound, SensorsFail, SensorsUnanswered, AnswerCut, Hangs,
     Truncate, Write, WriteFails, Crash, PowerFails,
     Sync, EditSensors, EditLinks, Publish, vars, disk
<1> QED BY <1>1, <1>2 DEF Stored

LEMMA NextPlace == Counts /\ Sensors /\ Stored /\ Place /\ [Next]_vars => Place'
<1> SUFFICES ASSUME Counts, Sensors, Stored, Place, [Next]_vars PROVE Place'
  OBVIOUS
<1> USE DEF Place, RunsOnFileOrNothing, Counts, Done, memory, disk, table, update
<1>1. CASE Start
  BY <1>1, SMTT(30) DEF Start
<1>2. CASE Load
  BY <1>2, SMTT(30) DEF Load
<1>3. CASE LoadFails \/ Online \/ Offline
  BY <1>3, SMTT(30) DEF LoadFails, Online, Offline
<1>4. CASE LoadDies \/ AnswerCut
  BY <1>4, SMTT(30) DEF LoadDies, AnswerCut, Ends
<1>5. CASE UpdateNeeded
  BY <1>5, SMTT(30) DEF UpdateNeeded
<1>6. CASE VersionOnly
  BY <1>6, SMTT(30) DEF VersionOnly
<1>7. CASE UpdateUnversioned
  BY <1>7, SMTT(30) DEF UpdateUnversioned
<1>8. CASE NoUpdate \/ GatewayFails \/ Hangs
  BY <1>8, SMTT(30) DEF NoUpdate, GatewayFails, Hangs
<1>9. CASE ModulesFound
  BY <1>9, SMTT(30) DEF ModulesFound
<1>10. CASE ModulesFail
  BY <1>10, SMTT(30) DEF ModulesFail
<1>11. CASE SensorsFound
  BY <1>11, SMTT(30) DEF SensorsFound
<1>12. CASE SensorsFail
  BY <1>12, SMTT(30) DEF SensorsFail
<1>13. CASE SensorsUnanswered
  BY <1>13, SMTT(30) DEF SensorsUnanswered
<1>14. CASE Truncate
  BY <1>14, SMTT(30) DEF Truncate
<1>15. CASE Write
  <2>0. file.version \in Int /\ safe.version \in Int
    BY DEF Stored, Files
  <2>1. pc = "write" /\ pc' = "running" /\ file' = Saved(config_version)
        /\ UNCHANGED <<memory, safe, update, table>>
    BY <1>15 DEF Write
  <2>2. /\ file'.state = "whole" /\ file'.version = config_version
        /\ file'.cms = cms /\ file'.sens = sens
        /\ file'.origin = "full" => ~missed /\ ~incomplete
    BY <2>1, SavedFile
  <2> QED
    BY <2>0, <2>1, <2>2, SMTT(30)
<1>16. CASE WriteFails
  <2>0. file.version \in Int /\ safe.version \in Int
    BY DEF Stored, Files
  <2>1. pc = "write" /\ pc' = "running" /\ file' \in Spoilt
        /\ UNCHANGED <<memory, safe, update, table>>
    BY <1>16 DEF WriteFails
  <2>2. /\ file'.state \in {"empty", "torn"} /\ file'.version = file.version
        /\ file'.cms = file.cms /\ file'.sens = file.sens
        /\ file'.origin = file.origin
    BY <2>1, SpoiltFile DEF Stored
  <2> QED
    BY <2>0, <2>1, <2>2, SMTT(30)
<1>17. CASE Crash
  <2>0. file.version \in Int /\ safe.version \in Int
    BY DEF Stored, Files
  <2>1. pc' = "off" /\ (file' = file \/ file' \in Spoilt)
        /\ UNCHANGED <<safe, unanswered, table>>
    BY <1>17 DEF Crash, Ends
  <2>2. \/ file' = file
        \/ /\ file'.state \in {"empty", "torn"} /\ file'.version = file.version
           /\ file'.cms = file.cms /\ file'.sens = file.sens
           /\ file'.origin = file.origin
    BY <2>1, SpoiltFile DEF Stored
  <2> QED
    BY <2>0, <2>1, <2>2, SMTT(30)
<1>18. CASE Sync
  <2>0. file.version \in Int /\ safe.version \in Int
    BY DEF Stored, Files
  <2> QED
    BY <1>18, <2>0, SMTT(30) DEF Sync
<1>19. CASE PowerFails
  <2>0. file.version \in Int /\ safe.version \in Int
    BY DEF Stored, Files
  <2>1. pc' = "off" /\ (file' = file \/ file' = safe \/ file' \in Spoilt)
        /\ safe' = file' /\ UNCHANGED <<unanswered, table>>
    BY <1>19 DEF PowerFails, Ends
  <2>2. \/ file' = file \/ file' = safe
        \/ /\ file'.state \in {"empty", "torn"} /\ file'.version = file.version
           /\ file'.cms = file.cms /\ file'.sens = file.sens
           /\ file'.origin = file.origin
    BY <2>1, SpoiltFile DEF Stored
  <2> QED
    BY <2>0, <2>1, <2>2, SMTT(30)
<1>20. CASE EditSensors \/ EditLinks \/ Publish
  BY <1>20, SMTT(30) DEF EditSensors, EditLinks, Publish
<1>21. CASE UNCHANGED vars
  BY <1>21, SMTT(30) DEF vars
<1> QED
  BY <1>1, <1>2, <1>3, <1>4, <1>5, <1>6, <1>7, <1>8, <1>9, <1>10, <1>11, <1>12,
     <1>13, <1>14, <1>15, <1>16, <1>17, <1>18, <1>19, <1>20, <1>21
     DEF Next, InitData, LoadStep, RemoteStep, FetchStep, SaveStep, Disk, Admin

LEMMA NextFresh == Counts /\ Sensors /\ Stored /\ Place /\ Fresh /\ [Next]_vars => Fresh'
<1> SUFFICES ASSUME Counts, Sensors, Stored, Place, Fresh, [Next]_vars PROVE Fresh'
  OBVIOUS
<1> USE DEF Place, Fresh, Fetched, Current, Counts, Done, memory, disk, table, update
<1>1. CASE Start
  BY <1>1, SMTT(30) DEF Start
<1>2. CASE Load
  BY <1>2, SMTT(30) DEF Load
<1>3. CASE LoadFails \/ Online \/ Offline
  BY <1>3, SMTT(30) DEF LoadFails, Online, Offline
<1>4. CASE LoadDies \/ AnswerCut
  BY <1>4, SMTT(30) DEF LoadDies, AnswerCut, Ends
<1>5. CASE UpdateNeeded
  BY <1>5, SMTT(30) DEF UpdateNeeded
<1>6. CASE VersionOnly
  BY <1>6, SMTT(30) DEF VersionOnly
<1>7. CASE UpdateUnversioned
  BY <1>7, SMTT(30) DEF UpdateUnversioned
<1>8. CASE NoUpdate \/ GatewayFails \/ Hangs
  BY <1>8, SMTT(30) DEF NoUpdate, GatewayFails, Hangs
<1>9. CASE ModulesFound
  <2>1. PICK found \in wasLinked :
          /\ cms' = found /\ todo' = found
          /\ missed' = (missed \/ found # linked)
    BY <1>9 DEF ModulesFound
  <2>2. ~missed' => cms' = linked
    BY <2>1, Zenon
  <2>3. cms' = todo' /\ UNCHANGED <<file, safe, table>>
    BY <1>9, <2>1 DEF ModulesFound
  <2> QED
    BY <2>2, <2>3, SMTT(30)
<1>10. CASE ModulesFail
  BY <1>10, SMTT(30) DEF ModulesFail
<1>11. CASE SensorsFound
  <2>1. PICK m \in todo : \E found \in 1..revision[m] :
          /\ sens' = [sens EXCEPT ![m] = <<m, found>>]
          /\ missed' = (missed \/ found # revision[m])
          /\ Done(m)
    BY <1>11 DEF SensorsFound
  <2>2. PICK found \in 1..revision[m] :
          /\ sens' = [sens EXCEPT ![m] = <<m, found>>]
          /\ missed' = (missed \/ found # revision[m])
    BY <2>1
  <2>3. ~missed' => ~missed /\ found = revision[m]
    BY <2>2, Zenon
  <2>4. todo' = todo \ {m} /\ m \in Modules /\ m \in todo
    BY <2>1
  <2>5. /\ pc = "sensors"
        /\ UNCHANGED <<config_version, cms, incomplete, file, safe, table>>
    BY <1>11 DEF SensorsFound
  <2>6. sens'[m] = <<m, found>> /\ \A k \in Modules \ {m} : sens'[k] = sens[k]
    BY <2>2, <2>4 DEF Sensors
  <2> QED
    BY <2>3, <2>4, <2>5, <2>6, SMTT(30)
<1>12. CASE SensorsFail
  BY <1>12, SMTT(30) DEF SensorsFail
<1>13. CASE SensorsUnanswered
  BY <1>13, SMTT(30) DEF SensorsUnanswered
<1>14. CASE Truncate
  BY <1>14, SMTT(30) DEF Truncate
<1>15. CASE Write
  <2>0. file.version \in Int /\ safe.version \in Int
    BY DEF Stored, Files
  <2>1. pc = "write" /\ pc' = "running" /\ file' = Saved(config_version)
        /\ UNCHANGED <<memory, safe, update, table>>
    BY <1>15 DEF Write
  <2>2. /\ file'.state = "whole" /\ file'.version = config_version
        /\ file'.cms = cms /\ file'.sens = sens
        /\ file'.origin = "full" => ~missed /\ ~incomplete
    BY <2>1, SavedFile
  <2> QED
    BY <2>0, <2>1, <2>2, SMTT(30)
<1>16. CASE WriteFails
  <2>0. file.version \in Int /\ safe.version \in Int
    BY DEF Stored, Files
  <2>1. pc = "write" /\ pc' = "running" /\ file' \in Spoilt
        /\ UNCHANGED <<memory, safe, update, table>>
    BY <1>16 DEF WriteFails
  <2>2. /\ file'.state \in {"empty", "torn"} /\ file'.version = file.version
        /\ file'.cms = file.cms /\ file'.sens = file.sens
        /\ file'.origin = file.origin
    BY <2>1, SpoiltFile DEF Stored
  <2> QED
    BY <2>0, <2>1, <2>2, SMTT(30)
<1>17. CASE Crash
  <2>0. file.version \in Int /\ safe.version \in Int
    BY DEF Stored, Files
  <2>1. pc' = "off" /\ (file' = file \/ file' \in Spoilt)
        /\ UNCHANGED <<safe, unanswered, table>>
    BY <1>17 DEF Crash, Ends
  <2>2. \/ file' = file
        \/ /\ file'.state \in {"empty", "torn"} /\ file'.version = file.version
           /\ file'.cms = file.cms /\ file'.sens = file.sens
           /\ file'.origin = file.origin
    BY <2>1, SpoiltFile DEF Stored
  <2> QED
    BY <2>0, <2>1, <2>2, SMTT(30)
<1>18. CASE Sync
  BY <1>18, SMTT(30) DEF Sync
<1>19. CASE PowerFails
  <2>0. file.version \in Int /\ safe.version \in Int
    BY DEF Stored, Files
  <2>1. pc' = "off" /\ (file' = file \/ file' = safe \/ file' \in Spoilt)
        /\ safe' = file' /\ UNCHANGED <<unanswered, table>>
    BY <1>19 DEF PowerFails, Ends
  <2>2. \/ file' = file \/ file' = safe
        \/ /\ file'.state \in {"empty", "torn"} /\ file'.version = file.version
           /\ file'.cms = file.cms /\ file'.sens = file.sens
           /\ file'.origin = file.origin
    BY <2>1, SpoiltFile DEF Stored
  <2> QED
    BY <2>0, <2>1, <2>2, SMTT(30)
<1>20. CASE EditSensors \/ EditLinks \/ Publish
  <2>0. file.version \in Int /\ safe.version \in Int
    BY DEF Stored, Files
  <2>1. CASE EditSensors \/ EditLinks
    <3>1. editing' /\ UNCHANGED <<file, safe, published>>
      BY <2>1, Zenon DEF EditSensors, EditLinks
    <3> QED
      BY <3>1, SMTT(30)
  <2>2. CASE Publish
    <3>1. published' > published /\ published' \in Int
      BY <2>2 DEF Publish
    <3>2. UNCHANGED <<pc, memory, file, safe, missed, incomplete>>
      BY <2>2 DEF Publish
    <3> QED
      BY <2>0, <3>1, <3>2, SMTT(30)
  <2> QED
    BY <1>20, <2>1, <2>2
<1>21. CASE UNCHANGED vars
  BY <1>21, SMTT(30) DEF vars
<1> QED
  BY <1>1, <1>2, <1>3, <1>4, <1>5, <1>6, <1>7, <1>8, <1>9, <1>10, <1>11, <1>12,
     <1>13, <1>14, <1>15, <1>16, <1>17, <1>18, <1>19, <1>20, <1>21
     DEF Next, InitData, LoadStep, RemoteStep, FetchStep, SaveStep, Disk, Admin

LEMMA NextOwn == Counts /\ Sensors /\ Stored /\ Place /\ Own /\ [Next]_vars => Own'
<1> SUFFICES ASSUME Counts, Sensors, Stored, Place, Own, [Next]_vars PROVE Own'
  OBVIOUS
<1> USE DEF Own, memory, disk, table, update
<1>1. CASE Start
  BY <1>1, SMTT(30) DEF Start
<1>2. CASE Load
  BY <1>2, SMTT(30) DEF Load
<1>3. CASE LoadFails \/ Online \/ Offline
  BY <1>3, SMTT(30) DEF LoadFails, Online, Offline
<1>4. CASE LoadDies \/ AnswerCut
  BY <1>4, SMTT(30) DEF LoadDies, AnswerCut, Ends, NoSensors
<1>5. CASE UpdateNeeded
  BY <1>5, SMTT(30) DEF UpdateNeeded
<1>6. CASE VersionOnly
  BY <1>6, SMTT(30) DEF VersionOnly
<1>7. CASE UpdateUnversioned
  BY <1>7, SMTT(30) DEF UpdateUnversioned
<1>8. CASE NoUpdate \/ GatewayFails \/ Hangs
  BY <1>8, SMTT(30) DEF NoUpdate, GatewayFails, Hangs
<1>9. CASE ModulesFound
  <2>1. sens' = NoSensors /\ UNCHANGED <<unanswered, file, safe>>
    BY <1>9 DEF ModulesFound
  <2> QED
    BY <2>1, SMTT(30) DEF NoSensors
<1>10. CASE ModulesFail
  BY <1>10, SMTT(30) DEF ModulesFail
<1>11. CASE SensorsFound
  BY <1>11, SMTT(30) DEF SensorsFound
<1>12. CASE SensorsFail
  BY <1>12, SMTT(30) DEF SensorsFail
<1>13. CASE SensorsUnanswered
  BY <1>13, SMTT(30) DEF SensorsUnanswered
<1>14. CASE Truncate
  BY <1>14, SMTT(30) DEF Truncate
<1>15. CASE Write
  <2>1. pc = "write" /\ pc' = "running" /\ file' = Saved(config_version)
        /\ UNCHANGED <<memory, safe, update, table>>
    BY <1>15 DEF Write
  <2>2. /\ file'.state = "whole" /\ file'.version = config_version
        /\ file'.cms = cms /\ file'.sens = sens
        /\ file'.origin = "full" => ~missed /\ ~incomplete
    BY <2>1, SavedFile
  <2> QED
    BY <2>1, <2>2, SMTT(30)
<1>16. CASE WriteFails
  <2>1. pc = "write" /\ pc' = "running" /\ file' \in Spoilt
        /\ UNCHANGED <<memory, safe, update, table>>
    BY <1>16 DEF WriteFails
  <2>2. /\ file'.state \in {"empty", "torn"} /\ file'.version = file.version
        /\ file'.cms = file.cms /\ file'.sens = file.sens
        /\ file'.origin = file.origin
    BY <2>1, SpoiltFile DEF Stored
  <2> QED
    BY <2>1, <2>2, SMTT(30)
<1>17. CASE Crash
  <2>1. pc' = "off" /\ (file' = file \/ file' \in Spoilt)
        /\ UNCHANGED <<safe, unanswered, table>>
    BY <1>17 DEF Crash, Ends
  <2>2. \/ file' = file
        \/ /\ file'.state \in {"empty", "torn"} /\ file'.version = file.version
           /\ file'.cms = file.cms /\ file'.sens = file.sens
           /\ file'.origin = file.origin
    BY <2>1, SpoiltFile DEF Stored
  <2>3. sens' = NoSensors
    BY <1>17 DEF Crash, Ends
  <2> QED
    BY <2>1, <2>2, <2>3, SMTT(30) DEF NoSensors
<1>18. CASE Sync
  BY <1>18, SMTT(30) DEF Sync
<1>19. CASE PowerFails
  <2>1. pc' = "off" /\ (file' = file \/ file' = safe \/ file' \in Spoilt)
        /\ safe' = file' /\ UNCHANGED <<unanswered, table>>
    BY <1>19 DEF PowerFails, Ends
  <2>2. \/ file' = file \/ file' = safe
        \/ /\ file'.state \in {"empty", "torn"} /\ file'.version = file.version
           /\ file'.cms = file.cms /\ file'.sens = file.sens
           /\ file'.origin = file.origin
    BY <2>1, SpoiltFile DEF Stored
  <2>3. sens' = NoSensors
    BY <1>19 DEF PowerFails, Ends
  <2> QED
    BY <2>1, <2>2, <2>3, SMTT(30) DEF NoSensors
<1>20. CASE EditSensors \/ EditLinks \/ Publish
  BY <1>20, SMTT(30) DEF EditSensors, EditLinks, Publish
<1>21. CASE UNCHANGED vars
  BY <1>21, SMTT(30) DEF vars
<1> QED
  BY <1>1, <1>2, <1>3, <1>4, <1>5, <1>6, <1>7, <1>8, <1>9, <1>10, <1>11, <1>12,
     <1>13, <1>14, <1>15, <1>16, <1>17, <1>18, <1>19, <1>20, <1>21
     DEF Next, InitData, LoadStep, RemoteStep, FetchStep, SaveStep, Disk, Admin

-----------------------------------------------------------------------------

LEMMA InitIInv == Init => IInv
<1> SUFFICES ASSUME Init PROVE IInv
  OBVIOUS
<1>1. Flags
  BY Zenon DEF Init, Flags
<1>2. Counts
  BY SMTT(30) DEF Init, Counts, Places
<1>3. [m \in Modules |-> <<m, 1>>] \in [Modules -> Lists]
  BY ListFact, 1 \in 0..MaxEdits + 1
<1>4. Sensors
  <2>1. [m \in Modules |-> 1] \in [Modules -> 1..edits + 1]
    BY DEF Init
  <2> QED
    BY <2>1, NoSensorsType DEF Init, Sensors
<1>5. PICK version \in 0..MaxVersion, modules \in SUBSET Modules :
        file = [state |-> "whole", version |-> version, cms |-> modules,
                sens |-> [m \in Modules |-> <<m, 1>>], origin |-> "other"]
  BY DEF Init
<1>6. /\ file \in Files /\ safe = file /\ file.origin = "other"
      /\ file.sens = [m \in Modules |-> <<m, 1>>] /\ file.version \in 0..MaxVersion
  BY <1>3, <1>5 DEF Init, Files
<1>7. Stored /\ Place /\ Fresh
  BY <1>6 DEF Init, Stored, Place, RunsOnFileOrNothing, Fresh, Current, Fetched
<1>8. Own
  BY <1>6 DEF Init, Own, NoSensors
<1> QED
  BY <1>1, <1>2, <1>4, <1>7, <1>8 DEF IInv

LEMMA NextIInv == IInv /\ [Next]_vars => IInv'
  BY NextFlags, NextCounts, NextSensors, NextStored, NextPlace, NextFresh, NextOwn
     DEF IInv

LEMMA Invariant == Spec => []IInv
  BY InitIInv, NextIInv, PTL DEF Spec

\* Every state is well typed: sensors are fetched for modules of the update
\* only, and the file is written when none is left, however the scans fail.
THEOREM TypeCorrect == Spec => []TypeOK
<1>1. IInv => TypeOK
  BY DEF IInv, Flags, Counts, Sensors, Stored, TypeOK
<1> QED
  BY Invariant, <1>1, PTL

\* An update whose scans all succeed and are not behind the table has fetched
\* what is published, however the administrator's edits fall between them; and
\* so has a file that a power failure brings back.
THEOREM UpToDateHolds == Spec => []UpToDate
<1>1. IInv => UpToDate
  BY DEF IInv, Fresh, Current, UpToDate
<1> QED
  BY Invariant, <1>1, PTL

\* The gateway runs on its file, or on nothing and will fetch again.
THEOREM RunsOnFileOrNothingHolds == Spec => []RunsOnFileOrNothing
<1>1. IInv => RunsOnFileOrNothing
  BY DEF IInv, Place
<1> QED
  BY Invariant, <1>1, PTL

\* Before any scan goes unanswered every core module has its own sensors.
THEOREM OwnSensorsHolds == Spec => []OwnSensors
<1>1. IInv => OwnSensors
  BY DEF IInv, Own, Counts, OwnSensors
<1> QED
  BY Invariant, <1>1, PTL

\* Nothing but the write of an update costs the gateway its file, or the power
\* before that write is on the disk: no failing scan, no crash elsewhere.
THEOREM WholeFileIsKeptHolds == Spec => WholeFileIsKept
<1>1. ASSUME IInv, [Next]_vars, file.state = "whole", file'.state # "whole"
      PROVE  (pc = "save" /\ pc' = "write") \/ (pc' = "off" /\ ~synced)
  <2>1. FileStep
    BY <1>1, OtherSteps
  <2>2. ~Write
    BY <1>1, SavedFile DEF Write, IInv
  <2>3. CASE Truncate
    BY <2>3 DEF Truncate
  <2>4. CASE WriteFails \/ Crash
    BY <1>1, <2>4 DEF WriteFails, Crash, IInv, Place
  <2>5. CASE PowerFails
    BY <2>5 DEF PowerFails, Ends
  <2> QED
    BY <2>1, <2>2, <2>3, <2>4, <2>5 DEF FileStep
<1> QED
  BY Invariant, <1>1, PTL DEF Spec, WholeFileIsKept

\* The version in the file never falls back but to the last on the disk.
THEOREM VersionNeverFallsHolds == Spec => VersionNeverFalls
<1>1. IInv /\ [Next]_vars => [file'.version >= file.version \/ (~synced /\ file' = safe)]_file
  <2> SUFFICES ASSUME IInv, [Next]_vars, file' # file
               PROVE  file'.version >= file.version \/ (~synced /\ file' = safe)
    OBVIOUS
  <2>1. FileStep
    BY OtherSteps
  <2>2. CASE PowerFails /\ file' = safe
    BY <2>2 DEF PowerFails
  <2>3. CASE Write
    BY <2>3, SavedFile DEF Write, IInv, Place, Stored
  <2>4. CASE file'.version = file.version
    BY <2>4 DEF IInv, Stored, Files
  <2> QED
    BY <2>1, <2>2, <2>3, <2>4, FileSteps DEF IInv
<1> QED
  BY Invariant, <1>1, PTL DEF Spec, VersionNeverFalls

-----------------------------------------------------------------------------
(* How long a start may last.  That it ends is liveness and stays with     *)
(* TLC; that its own steps are bounded by the core modules has a proof.    *)

\* The most steps init_data can take before it ends: one scan for each core
\* module whose sensors are still to be fetched, and those around them.
Left ==
    CASE pc = "load" -> Cardinality(Modules) + 6
      [] pc = "check" -> Cardinality(Modules) + 5
      [] pc = "gateway" -> Cardinality(Modules) + 4
      [] pc = "modules" -> Cardinality(Modules) + 3
      [] pc = "sensors" -> Cardinality(todo) + 2
      [] pc = "save" -> 2
      [] pc = "write" -> 1
      [] OTHER -> 0

\* A start is over within Cardinality(Modules) + 6 steps of init_data,
\* whichever scans fail or are behind the table, and whatever the administrator
\* does to it in between: no failure sends it back, no edit gives it more to do.
StartIsBounded ==
    [][/\ Start => Left' = Cardinality(Modules) + 6
       /\ InitData => Left \in Nat /\ Left' \in Nat /\ Left' < Left
       /\ Admin \/ Sync => Left' = Left]_vars

USE ModulesAssumption

\* Some of the core modules are no more than all of them.
LEMMA SomeModules ==
    ASSUME NEW S \in SUBSET Modules
    PROVE  /\ Cardinality(Modules) \in Nat /\ Cardinality(S) \in Nat
           /\ Cardinality(S) <= Cardinality(Modules)
           /\ \A m \in S : Cardinality(S \ {m}) = Cardinality(S) - 1
<1>1. IsFiniteSet(S) /\ Cardinality(S) <= Cardinality(Modules)
  BY FS_Subset
<1> QED BY <1>1, FS_CardinalityType, FS_RemoveElement

LEMMA LeftType ==
    ASSUME Counts
    PROVE  /\ Left \in Nat
           /\ pc \notin {"off", "running", "failed", "hung"} => Left > 0
<1>1. Cardinality(Modules) \in Nat /\ Cardinality(todo) \in Nat
  BY SomeModules DEF Counts
<1>2. pc \in {"off", "load", "check", "gateway", "modules", "sensors", "save",
              "write", "running", "failed", "hung"}
  BY DEF Counts, Places
<1> QED BY <1>1, <1>2 DEF Left

\* The ends of a start.
LEMMA LeftEnds ==
    ASSUME Counts, pc \notin {"off", "running", "failed", "hung"},
           pc' \in {"off", "running", "failed", "hung"}
    PROVE  Left \in Nat /\ Left' \in Nat /\ Left' < Left
<1>1. Left' = 0
  BY DEF Left
<1> QED BY <1>1, LeftType

\* update_sensors is done with one core module.
LEMMA LeftDone ==
    ASSUME Counts, pc = "sensors", NEW m \in todo, Done(m)
    PROVE  Left \in Nat /\ Left' \in Nat /\ Left' < Left
<1>1. /\ Cardinality(todo) \in Nat /\ Cardinality(todo') \in Nat
      /\ Cardinality(todo') = Cardinality(todo) - 1
  <2>1. todo \in SUBSET Modules /\ todo' = todo \ {m} /\ todo' \in SUBSET Modules
    BY DEF Counts, Done
  <2> QED BY <2>1, SomeModules
<1>2. Left = Cardinality(todo) + 2
  BY DEF Left
<1>3. CASE pc' = "sensors"
  <2>1. Left' = Cardinality(todo') + 2
    BY <1>3 DEF Left
  <2> QED BY <1>1, <1>2, <2>1
<1>4. CASE pc' = "save"
  <2>1. Left' = 2
    BY <1>4 DEF Left
  <2> QED BY <1>1, <1>2, <2>1
<1> QED BY <1>3, <1>4 DEF Done

LEMMA LeftShrinks ==
    ASSUME Counts, InitData
    PROVE  Left \in Nat /\ Left' \in Nat /\ Left' < Left
<1>0. Cardinality(Modules) \in Nat
  BY SomeModules
<1>1. CASE Load \/ Online \/ UpdateNeeded \/ UpdateUnversioned
  BY <1>0, <1>1 DEF Load, Online, UpdateNeeded, UpdateUnversioned, Left
<1>2. CASE LoadFails \/ LoadDies \/ Offline \/ NoUpdate \/ GatewayFails
           \/ AnswerCut \/ Hangs \/ ModulesFail \/ Write \/ WriteFails
           \/ VersionOnly
  BY <1>2, LeftEnds DEF LoadFails, LoadDies, Offline, NoUpdate, GatewayFails,
     AnswerCut, Hangs, ModulesFail, Write, WriteFails, VersionOnly, Ends
<1>3. CASE ModulesFound
  <2>1. PICK found \in wasLinked :
          todo' = found /\ pc' = IF found = {} THEN "save" ELSE "sensors"
    BY <1>3 DEF ModulesFound
  <2>2. Cardinality(found) \in Nat /\ Cardinality(found) <= Cardinality(Modules)
    BY SomeModules DEF Counts
  <2>3. Left = Cardinality(Modules) + 3
    BY <1>3 DEF ModulesFound, Left
  <2>4. Left' \in {2, Cardinality(found) + 2}
    BY <2>1 DEF Left
  <2> QED BY <1>0, <2>2, <2>3, <2>4
<1>4. CASE SensorsFound \/ SensorsFail \/ SensorsUnanswered
  BY <1>4, LeftDone DEF SensorsFound, SensorsFail, SensorsUnanswered
<1>5. CASE Truncate
  BY <1>5 DEF Truncate, Left
<1> QED BY <1>1, <1>2, <1>3, <1>4, <1>5
           DEF InitData, LoadStep, RemoteStep, FetchStep, SaveStep

THEOREM StartIsBoundedHolds == Spec => StartIsBounded
<1>1. ASSUME IInv, [Next]_vars
      PROVE  [/\ Start => Left' = Cardinality(Modules) + 6
              /\ InitData => Left \in Nat /\ Left' \in Nat /\ Left' < Left
              /\ Admin \/ Sync => Left' = Left]_vars
  <2>1. Counts
    BY <1>1 DEF IInv
  <2>2. Start => Left' = Cardinality(Modules) + 6
    BY DEF Start, Left
  <2>3. Admin \/ Sync => Left' = Left
    BY DEF Admin, EditSensors, EditLinks, Publish, Sync, Left, update
  <2> QED BY <2>1, <2>2, <2>3, LeftShrinks
<1> QED BY <1>1, Invariant, PTL DEF Spec, StartIsBounded
==============================================================================
