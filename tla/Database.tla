------------------------------ MODULE Database ------------------------------
(***************************************************************************)
(* The settings store of the ESP8266 firmware and the requests that use    *)
(* it: FutronixESP8266 and AdminServer on top of Database, EEPROMDatabase  *)
(* and EEPROMInterface.                                                    *)
(*                                                                         *)
(* The records exist twice: in one flash sector and in program memory      *)
(* (EEPROMDatabase::_entries).  A write to the EEPROM rewrites the whole   *)
(* sector: EEPROM.end() erases it and then programs it upward from address *)
(* 0, and power may fail in between.  Reads leave the flash alone, so an   *)
(* action runs from one change of the flash to the next: it starts with    *)
(* the request and ends with the erase, and the actions that program the   *)
(* records follow.                                                         *)
(***************************************************************************)
EXTENDS StoreLayout

CONSTANT SceneArgs      \* scene numbers a rename request may carry

ASSUME SceneArgsAssumption == SceneArgs \subseteq Int

VARIABLES
    flash,      \* content of the sector
    mem,        \* content of _entries
    phase,      \* what the main loop is doing with the store
    written,    \* records programmed since the last erase
    job         \* the setup that follows the clear under way, if any

vars == <<flash, mem, phase, written, job>>

NoJob == [setup |-> FALSE]
Jobs  == {NoJob} \cup [ssid : Texts \cup {DefaultSsid}, passwd : Texts \cup {DefaultPasswd}]

\* "clearing" and "saving": the sector is being programmed.  "cleared":
\* between the two commits of a setup that clears the database first.
Phases == {"off", "idle", "clearing", "cleared", "saving"}

TypeOK ==
    /\ flash \in Images
    /\ mem \in Images
    /\ phase \in Phases
    /\ written \in 0 .. RecordCount
    /\ job \in Jobs

\* A new chip: the sector has never been programmed.
Init ==
    /\ flash = ErasedImage
    /\ mem = BlankImage
    /\ phase = "off"
    /\ written = 0
    /\ job = NoJob

-----------------------------------------------------------------------------
\* The EEPROM library at work under EEPROMInterface::close.

EraseFor(nextPhase) ==
    /\ flash' = ErasedImage
    /\ written' = 0
    /\ phase' = nextPhase

\* The content being programmed: zeroes, or the records in memory.
Buffer == IF phase = "clearing" THEN BlankImage ELSE mem

\* Mutant: the sector is programmed from its end downward.
ProgramRecordDownward ==
    /\ phase \in {"clearing", "saving"}
    /\ written < RecordCount
    /\ LET r == RecordCount - 1 - written IN flash' = [flash EXCEPT ![r] = Buffer[r]]
    /\ written' = written + 1
    /\ UNCHANGED <<mem, phase, job>>

ProgramRecord ==
    /\ phase \in {"clearing", "saving"}
    /\ written < RecordCount
    /\ flash' = [flash EXCEPT ![written] = Buffer[written]]
    /\ written' = written + 1
    /\ UNCHANGED <<mem, phase, job>>

-----------------------------------------------------------------------------
\* EEPROMDatabase and Database.

\* EEPROMInterface::readRaw of a record and of all of them.
ReadRecord(r) == flash[r]
ReadAllRecords == [r \in Records |-> ReadRecord(r)]

\* Mutant: memory is left with the records just read and no others.
RefreshOnly(records) == mem' = [r \in records |-> flash[r]]

\* EEPROMDatabase::getEntry of each of the records.  The cached text is never
\* returned, because "initialized" is never set: every access reads the flash.
Refresh(records) ==
    mem' = [r \in Records |-> IF r \in records THEN ReadRecord(r) ELSE mem[r]]

\* Mutant: the magic word is not put in.
SaveUnmarked(image) ==
    /\ mem' = image
    /\ EraseFor("saving")

\* Database::save of a given content of the memory.
SaveAs(image) ==
    /\ mem' = Marked(image)
    /\ EraseFor("saving")

\* Mutant: setData does not cut the text, which runs into the next record.
EntriesOverrun(index) == {{index, index + 1} \cap Records}

\* Entries that getEntry(index)->setData may reach.  The bound check lets the
\* index one past the last record through; what the entry found there points
\* to is undefined, and it may be nothing or the text of any record.
EntriesFor(index) ==
    IF index \in Records THEN {{index}}
    ELSE IF index = RecordCount THEN {{}} \cup {{r} : r \in Records}
    ELSE {{}}

\* Mutant: clear(true) leaves the program memory alone.
FinishClearKeepingMemory ==
    /\ phase = "clearing"
    /\ written = RecordCount
    /\ phase' = IF job = NoJob THEN "idle" ELSE "cleared"
    /\ UNCHANGED <<flash, mem, written, job>>

FinishClear ==
    /\ phase = "clearing"
    /\ written = RecordCount
    /\ IF job = NoJob
       THEN phase' = "idle" /\ UNCHANGED mem
       ELSE phase' = "cleared" /\ mem' = BlankImage
    /\ UNCHANGED <<flash, written, job>>

FinishSave ==
    /\ phase = "saving"
    /\ written = RecordCount
    /\ phase' = "idle"
    /\ UNCHANGED <<flash, mem, written, job>>

-----------------------------------------------------------------------------
\* FutronixESP8266, called by AdminServer's handlers and by the sketch.

\* Mutant: a store that is set up is not read.
BeginWithoutReading ==
    /\ phase = "off"
    /\ IF SetUp(flash)
       THEN phase' = "idle" /\ job' = NoJob /\ UNCHANGED <<flash, written, mem>>
       ELSE EraseFor("clearing") /\ mem' = flash
            /\ job' = [ssid |-> DefaultSsid, passwd |-> DefaultPasswd]

\* Mutant: begin() installs the defaults without asking hasBeenSetUp.
BeginWithDefaults ==
    /\ phase = "off"
    /\ mem' = flash
    /\ EraseFor("clearing")
    /\ job' = [ssid |-> DefaultSsid, passwd |-> DefaultPasswd]

\* Database::begin: readAllEntries into the configured entries.
ReadAllEntries == mem' = ReadAllRecords

\* begin(): the records are read and, on a store that is not set up, the
\* defaults are installed by setup(..., true).
Begin ==
    /\ phase = "off"
    /\ ReadAllEntries
    /\ IF SetUp(flash)
       THEN phase' = "idle" /\ job' = NoJob /\ UNCHANGED <<flash, written>>
       ELSE EraseFor("clearing") /\ job' = [ssid |-> DefaultSsid, passwd |-> DefaultPasswd]

\* handleSetup without clearDatabase.
Setup(ssid, passwd) ==
    /\ phase = "idle"
    /\ SaveAs(WithCredentials(mem, ssid, passwd))
    /\ UNCHANGED job

\* handleSetup with clearDatabase=true: the first of its two commits.
SetupClearing(ssid, passwd) ==
    /\ phase = "idle"
    /\ EraseFor("clearing")
    /\ job' = [ssid |-> ssid, passwd |-> passwd]
    /\ UNCHANGED mem

\* The rest of setup(..., true).
SetupAfterClear ==
    /\ phase = "cleared"
    /\ SaveAs(WithCredentials(mem, job.ssid, job.passwd))
    /\ job' = NoJob

\* handleRenameScene: scenes are numbered from 1 in requests.
RenameScene(scene, name) ==
    /\ phase = "idle"
    /\ \E entries \in EntriesFor(scene - 1) : SaveAs(WithText(mem, entries, name))
    /\ UNCHANGED job

ClearSceneNames ==
    /\ phase = "idle"
    /\ EraseFor("clearing")
    /\ UNCHANGED <<mem, job>>

GetSceneNames ==
    /\ phase = "idle"
    /\ Refresh(SceneRecords)
    /\ UNCHANGED <<flash, phase, written, job>>

\* handleStatus: hasBeenSetUp forces a read of the magic word.
Status ==
    /\ phase = "idle"
    /\ Refresh({MagicWordIndex})
    /\ UNCHANGED <<flash, phase, written, job>>

\* Power fails, or the chip resets: memory is lost, the flash stays as it is.
PowerLoss ==
    /\ phase # "off"
    /\ phase' = "off"
    /\ mem' = BlankImage
    /\ job' = NoJob
    /\ UNCHANGED <<flash, written>>

Working == Begin \/ ProgramRecord \/ FinishClear \/ FinishSave \/ SetupAfterClear

Requested ==
    \/ \E ssid, passwd \in Texts : Setup(ssid, passwd) \/ SetupClearing(ssid, passwd)
    \/ \E scene \in SceneArgs, name \in Texts : RenameScene(scene, name)
    \/ ClearSceneNames
    \/ GetSceneNames
    \/ Status

Next == Working \/ Requested \/ PowerLoss

Spec == Init /\ [][Next]_vars

\* A device that has power runs what it has begun to its end.
FairSpec == Spec /\ WF_vars(Working)

-----------------------------------------------------------------------------
\* The store as its callers see it, and what they may rely on.

Store == IF phase = "clearing" THEN BlankImage
         ELSE IF phase = "saving" THEN mem
         ELSE flash

Last == IF SetUp(Store) THEN Store
        ELSE IF phase = "off" THEN flash
        ELSE mem

Writing == phase \in {"clearing", "saving"}

Abstract == INSTANCE SceneStore WITH store <- Store, last <- Last, writing <- Writing

\* Every request takes effect in one step on the store its callers see, a
\* rename changes the text of no other scene while the store is set up, and a
\* power loss harms the store only in the middle of a write.
ImplementsStore == Abstract!StoreSpec

\* A store that carries the magic word is whole, whatever write was cut short
\* by whatever power loss: the word is in the record programmed last, so it
\* works as a commit mark (hasBeenSetUp relies on it).
MagicWordMarksWholeStore ==
    SetUp(flash) => \A r \in Records : flash[r] # Erased

\* Between requests the copy in memory agrees with a store that is set up.
\* save() writes all records from memory, so a copy that had gone stale in any
\* record would overwrite that record at the next rename or setup.
MemoryAgreesWithFlash ==
    phase = "idle" /\ SetUp(flash) => mem = flash

\* A store that is set up is given up only by a request, or by a power loss that
\* cuts the programming of it short: no restart, and no step the device takes on
\* its own, falls back to the factory settings (begin's test of hasBeenSetUp).
SetUpLastsUntilRequestOrTornWrite ==
    [][SetUp(Store) /\ ~SetUp(Store)'
         => phase = "idle" \/ (phase = "saving" /\ phase' = "off")]_vars

\* After a setup that clears the database, and after the factory setup on a torn
\* or new store, no scene name of before is saved again: setup(..., true) clears
\* both copies before it saves.
ClearingSetupForgetsNames ==
    [][phase = "cleared" /\ phase' = "saving" => \A r \in SceneRecords : Store'[r] = Blank]_vars

\* Once the power stays on, a device that is starting, on whatever a cut write
\* left behind, ends up set up and ready for requests.
StartsUp ==
    (<>[][~PowerLoss]_vars) => (phase = "off" ~> phase = "idle" /\ SetUp(flash))

-----------------------------------------------------------------------------
\* What comments of the code say and the code does not do.

\* FutronixESP8266.h on clearSceneNames: "clears EEPROM DB of scene names".
\* That says nothing of the credentials.
ClearingNamesKeepsCredentials ==
    [][ClearSceneNames => /\ Store'[WifiSsidIndex] = Store[WifiSsidIndex]
                          /\ Store'[WifiPasswdIndex] = Store[WifiPasswdIndex]]_vars

\* FutronixESP8266.h on renameScene: "renames the specified scene with given
\* name".  On a store that is set up, renaming changes scene names only.
RenameChangesSceneNamesOnly ==
    [][\A scene \in SceneArgs, name \in Texts :
         SetUp(Store) /\ scene <= RecordCount /\ RenameScene(scene, name) =>
            \A r \in Records \ SceneRecords : Store'[r] = Store[r]]_vars

=============================================================================
