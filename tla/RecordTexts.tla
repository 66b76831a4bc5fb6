----------------------------- MODULE RecordTexts -----------------------------
(***************************************************************************)
(* What EEPROMDatabase promises: a table of texts that exists twice, as    *)
(* stored in the EEPROM and as cached in program memory.  A text too long  *)
(* for its record is cut; texts never run into each other.                 *)
(***************************************************************************)
EXTENDS Integers, Sequences

CONSTANTS
    RecordCount,    \* records of the table
    RecordSize,     \* bytes of a record, the last one for a terminator
    InputTexts,     \* texts callers store
    ErasedText      \* what a record of an erased sector reads as

VARIABLES stored, cached

textVars == <<stored, cached>>

Records == 0 .. RecordCount - 1

Shorter(m, n) == IF m < n THEN m ELSE n
Cut(text) == SubSeq(text, 1, Shorter(Len(text), RecordSize - 1))

TextsInit ==
    /\ stored = [r \in Records |-> ErasedText]
    /\ cached = stored

Read(r) ==
    /\ cached' = [cached EXCEPT ![r] = stored[r]]
    /\ UNCHANGED stored

ReadAll ==
    /\ cached' = stored
    /\ UNCHANGED stored

Change(r, text) ==
    /\ cached' = [cached EXCEPT ![r] = Cut(text)]
    /\ UNCHANGED stored

SaveAll ==
    /\ stored' = cached
    /\ UNCHANGED cached

\* One record is changed in both places, and no other.
ChangeAndSave(r, text) ==
    /\ cached' = [cached EXCEPT ![r] = Cut(text)]
    /\ stored' = [stored EXCEPT ![r] = Cut(text)]

EraseAll(forget) ==
    /\ stored' = [r \in Records |-> <<>>]
    /\ cached' = IF forget THEN stored' ELSE cached

TextsNext ==
    \/ ReadAll
    \/ SaveAll
    \/ \E forget \in BOOLEAN : EraseAll(forget)
    \/ \E r \in Records : Read(r)
    \/ \E r \in Records, text \in InputTexts : Change(r, text) \/ ChangeAndSave(r, text)

TextsSpec == TextsInit /\ [][TextsNext]_textVars

=============================================================================
