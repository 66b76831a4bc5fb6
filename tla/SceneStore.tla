----------------------------- MODULE SceneStore -----------------------------
(***************************************************************************)
(* What the settings store promises its callers.  "store" is the content   *)
(* the device keeps without power; every operation replaces it in one      *)
(* step.  "last" is what the next saving operation starts from: the stored *)
(* content while the store is set up and, after the store was wiped, the   *)
(* content it had before, as far as it was not read again since.  Only     *)
(* while a write is being carried out ("writing") can a power loss harm    *)
(* what is stored, and it never leaves a damaged store that looks set up.  *)
(***************************************************************************)
EXTENDS StoreLayout

VARIABLES store, last, writing

storeVars == <<store, last, writing>>

StoreInit ==
    /\ store = ErasedImage
    /\ last = ErasedImage
    /\ writing = FALSE

Save(image) ==
    /\ ~writing
    /\ store' = Marked(image)
    /\ last' = store'
    /\ writing' = TRUE

\* A scene is renamed: at most one record gets a new text.
Rename(entries, name) ==
    /\ \A r, s \in entries : r = s
    /\ Save(WithText(last, entries, name))

Configure(ssid, passwd) == Save(WithCredentials(last, ssid, passwd))

Wipe ==
    /\ ~writing
    /\ store' = BlankImage
    /\ writing' = TRUE
    /\ UNCHANGED last

\* The write is complete, or the device is just reading: records that are
\* read again replace what was remembered of them.
Settle(records) ==
    /\ writing' = FALSE
    /\ last' = [r \in Records |-> IF r \in records THEN store[r] ELSE last[r]]
    /\ UNCHANGED store

\* Power is lost during a write.
LoseInWrite ==
    /\ writing
    /\ \E n \in 0 .. RecordCount - 1 : store' = Torn(store, n)
    /\ last' = store'
    /\ writing' = FALSE

StoreNext ==
    \/ \E entries \in SUBSET Records, name \in Texts : Rename(entries, name)
    \/ \E ssid, passwd \in Texts \cup {DefaultSsid, DefaultPasswd} : Configure(ssid, passwd)
    \/ Wipe
    \/ \E records \in SUBSET Records : Settle(records)
    \/ LoseInWrite

StoreSpec == StoreInit /\ [][StoreNext]_storeVars

=============================================================================
