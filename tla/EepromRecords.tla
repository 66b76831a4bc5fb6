---------------------------- MODULE EepromRecords ----------------------------
(***************************************************************************)
(* The records of the settings store as bytes: EEPROMDatabase and its      *)
(* DatabaseEntry objects on top of EEPROMInterface.  Records have a fixed  *)
(* size and lie one after the other from address 0; a text ends at a zero  *)
(* byte.  Database takes the texts for granted and looks at commits and    *)
(* power losses; here a commit is one step, and what is asked is whether   *)
(* the copying of bytes, with its cuts and terminators, amounts to storing *)
(* and reading texts.                                                      *)
(***************************************************************************)
EXTENDS Integers, Sequences, FiniteSetsExt

CONSTANTS
    RecordCount,    \* 8 in the firmware
    RecordSize,     \* RECORD_FIXED_SIZE, 50 in the firmware
    SectorSize,     \* EEPROM_SIZE, 4096
    InputTexts,     \* texts callers put into entries, sequences of non-zero bytes
    SavedTexts,     \* those among them that setEntry is to save at once
    Leftovers       \* bytes that may fill a buffer fresh from malloc

ASSUME SizeAssumption ==
    /\ RecordCount \in Nat \ {0}
    /\ RecordSize \in Nat \ {0, 1}
    /\ SectorSize \in Nat
    /\ RecordCount * RecordSize < SectorSize
    /\ Leftovers \subseteq 0 .. 255

ASSUME TextAssumption ==
    /\ InputTexts \subseteq Seq(1 .. 255)
    /\ SavedTexts \subseteq InputTexts

Bytes     == 0 .. 255
Erased    == 255        \* a byte of an erased sector
Records   == 0 .. RecordCount - 1
Addresses == 0 .. SectorSize - 1
Offsets   == 0 .. RecordSize - 1
TotalSize == RecordCount * RecordSize

VARIABLES
    sector,         \* the bytes of the EEPROM
    data            \* per record: its buffer in program memory

vars == <<sector, data>>

\* Every buffer ends its text, so that getData() hands out a C string whatever was
\* read, a record without any zero byte included.
TypeOK ==
    /\ sector \in [Addresses -> Bytes]
    /\ data \in [Records -> [Offsets -> Bytes]]
    /\ \A r \in Records : \E k \in Offsets : data[r][k] = 0

-----------------------------------------------------------------------------
\* EEPROMInterface

\* Mutant: records are laid out without their terminators.
StartIndexPacked(r) == r * (RecordSize - 1)

\* EEPROMDatabase::configure
StartIndex(r) == r * RecordSize

\* The C string at an address, as far as a record reaches: setData, which gets
\* it, cuts it off there even if no terminator was found in the record.
CString(bytes, start) ==
    LET end == Min({n \in 0 .. RecordSize : n = RecordSize \/ bytes[start + n] = 0})
    IN [k \in 1 .. end |-> bytes[start + k - 1]]

\* readRaw of a record, with setData's reading of it.
ReadText(r) == CString(sector, StartIndex(r))

\* doWrite with a terminator.  For the empty text the terminator is written at
\* the address the text starts at and, because dbIndex was not moved, at 1.
DoWrite(bytes, start) ==
    LET dbIndex == IF bytes = <<>> THEN 0 ELSE start + Len(bytes) - 1
    IN sector' = [a \in Addresses |->
                    IF a - start + 1 \in DOMAIN bytes THEN bytes[a - start + 1]
                    ELSE IF a = dbIndex + 1 \/ (bytes = <<>> /\ a = start) THEN 0
                    ELSE sector[a]]

-----------------------------------------------------------------------------
\* DatabaseEntry

\* Mutant: the text is cut to the size of the record, with no room for its end.
SetDataUnterminated(buffer, text) ==
    LET len == Min({Len(text), RecordSize})
    IN [k \in Offsets |-> IF k < len THEN text[k + 1] ELSE IF k = len THEN 0 ELSE buffer[k]]

\* What setData makes of a buffer; the bytes after the terminator stay.
SetData(buffer, text) ==
    LET len == Min({Len(text), RecordSize - 1})
    IN [k \in Offsets |-> IF k < len THEN text[k + 1] ELSE IF k = len THEN 0 ELSE buffer[k]]

GetData(r) == CString(data[r], 0)

-----------------------------------------------------------------------------
\* EEPROMDatabase

\* Buffers come from malloc, with whatever was in memory: one byte throughout.
Buffers == {[k \in Offsets |-> b] : b \in Leftovers}

\* A new chip after configure and readAllEntries.
Init ==
    /\ sector = [a \in Addresses |-> Erased]
    /\ \E buffer \in Buffers : data = [r \in Records |-> SetData(buffer, ReadText(r))]

\* configure and readAllEntries after a restart.
ReadAllEntries(buffer) ==
    /\ data' = [r \in Records |-> SetData(buffer, ReadText(r))]
    /\ UNCHANGED sector

GetEntry(r) ==
    /\ data' = [data EXCEPT ![r] = SetData(@, ReadText(r))]
    /\ UNCHANGED sector

\* setEntry without saving, and a setData on an entry from getEntry.
SetEntry(r, text) ==
    /\ data' = [data EXCEPT ![r] = SetData(@, text)]
    /\ UNCHANGED sector

\* setEntry with saving: writeString of the entry's data.
SetEntrySaving(r, text) ==
    /\ data' = [data EXCEPT ![r] = SetData(@, text)]
    /\ DoWrite(GetData(r)', StartIndex(r))

\* save(): the buffers one after the other, bytes after the terminators included.
Save ==
    /\ DoWrite([k \in 1 .. TotalSize |-> data[(k - 1) \div RecordSize][(k - 1) % RecordSize]], 0)
    /\ UNCHANGED data

Clear(clearProgramMemory) ==
    /\ sector' = [a \in Addresses |-> 0]
    /\ data' = IF clearProgramMemory
               THEN [r \in Records |-> SetData(data[r], <<>>)]
               ELSE data

Next ==
    \/ \E buffer \in Buffers : ReadAllEntries(buffer)
    \/ \E r \in Records : GetEntry(r)
    \/ \E r \in Records, text \in InputTexts : SetEntry(r, text)
    \/ \E r \in Records, text \in SavedTexts : SetEntrySaving(r, text)
    \/ Save
    \/ \E clearProgramMemory \in BOOLEAN : Clear(clearProgramMemory)

Spec == Init /\ [][Next]_vars

-----------------------------------------------------------------------------
\* A record's text as far as setData lets it into memory.
StoredText(r) == SubSeq(ReadText(r), 1, Min({Len(ReadText(r)), RecordSize - 1}))

Stored == [r \in Records |-> StoredText(r)]
Cached == [r \in Records |-> GetData(r)]

Texts == INSTANCE RecordTexts WITH
    stored <- Stored,
    cached <- Cached,
    ErasedText <- [k \in 1 .. RecordSize - 1 |-> Erased]

\* Bytes move as texts: what one record is given is cut to its size and comes
\* back, and no other record is touched, whatever is left after terminators, as
\* long as setEntry saves no empty text.
ImplementsTexts == Texts!TextsSpec

=============================================================================
