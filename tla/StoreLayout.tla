---------------------------- MODULE StoreLayout ----------------------------
(***************************************************************************)
(* The record layout of the settings store of the ESP8266 firmware         *)
(* (Database.h): MaxScenes scene names, then the WiFi SSID, the WiFi       *)
(* password and, in the last record, the magic word that marks the store   *)
(* as initialised.  A record holds one text; texts are taken as they are   *)
(* after DatabaseEntry::setData has cut them to the record's size.         *)
(***************************************************************************)
EXTENDS Integers

CONSTANTS
    MaxScenes,      \* MAX_SCENES, 5 in the firmware
    Texts,          \* texts a request may carry: names, SSIDs, passwords
    Blank,          \* the empty text, a record of zero bytes
    Erased,         \* what a record of an erased flash sector reads as
    MagicWord,      \* MAGIC_WORD
    DefaultSsid,    \* the credentials FutronixESP8266::begin installs
    DefaultPasswd

ASSUME MaxScenesAssumption == MaxScenes \in Nat \ {0}

\* The magic word and the erased pattern (49 bytes of 0xFF) are recognisable:
\* no request carries one, and the defaults are neither.
ASSUME TextAssumption ==
    /\ MagicWord \notin Texts \cup {Blank, Erased, DefaultSsid, DefaultPasswd}
    /\ Erased \notin Texts \cup {Blank, DefaultSsid, DefaultPasswd}

WifiSsidIndex   == MaxScenes
WifiPasswdIndex == MaxScenes + 1
MagicWordIndex  == MaxScenes + 2
RecordCount     == MaxScenes + 3

SceneRecords == 0 .. MaxScenes - 1
Records      == 0 .. RecordCount - 1

Values == Texts \cup {Blank, Erased, MagicWord, DefaultSsid, DefaultPasswd}

Images      == [Records -> Values]
BlankImage  == [r \in Records |-> Blank]
ErasedImage == [r \in Records |-> Erased]

\* Database::hasBeenSetUp on a given content.
SetUp(image) == image[MagicWordIndex] = MagicWord

\* What Database::save writes: the given content with the magic word put in.
Marked(image) == [image EXCEPT ![MagicWordIndex] = MagicWord]

WithCredentials(image, ssid, passwd) ==
    [image EXCEPT ![WifiSsidIndex] = ssid, ![WifiPasswdIndex] = passwd]

WithText(image, entries, text) ==
    [r \in Records |-> IF r \in entries THEN text ELSE image[r]]

\* The content a sector has when programming it from address 0 upward stopped
\* after n records.
Torn(image, n) == [r \in Records |-> IF r < n THEN image[r] ELSE Erased]

=============================================================================
