---------------------------- MODULE SceneMailbox ----------------------------
(***************************************************************************)
(* What a device promises those who ask it for scenes.  One request can    *)
(* wait, and a later one replaces it.  A request that is taken up shows    *)
(* the dimmer the code of its scene, at once and for good: nothing else    *)
(* is shown until it is done and reported.  Only a power loss forgets.     *)
(***************************************************************************)
CONSTANTS
    Scenes,     \* what can be asked for
    Codes,      \* Codes[s] is what the dimmer is shown for scene s
    None,       \* no scene
    Nothing     \* no code

VARIABLES
    waiting,    \* the scene asked for last, until it is taken up
    busy,       \* the scene being shown
    reported,   \* what the device says it showed last
    shown       \* what the dimmer saw last

mailbox == <<waiting, busy, reported, shown>>

MailboxInit ==
    /\ waiting = None /\ busy = None /\ reported = None
    /\ shown = Nothing

\* A request, or its withdrawal.
Ask ==
    /\ waiting' \in Scenes \cup {None}
    /\ UNCHANGED <<busy, reported, shown>>

TakeUp ==
    /\ busy = None /\ waiting # None
    /\ busy' = waiting
    /\ shown' = Codes[waiting]
    /\ waiting' = None
    /\ UNCHANGED reported

Done ==
    /\ busy # None
    /\ reported' = busy
    /\ busy' = None
    /\ UNCHANGED <<waiting, shown>>

Forget == MailboxInit'

MailboxNext == Ask \/ TakeUp \/ Done \/ Forget

MailboxSpec == MailboxInit /\ [][MailboxNext]_mailbox

=============================================================================
