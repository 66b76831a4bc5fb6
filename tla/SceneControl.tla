---------------------------- MODULE SceneControl ----------------------------
(***************************************************************************)
(* How a scene request reaches the infrared transmitter of the ESP8266     *)
(* firmware.  Requests come from Alexa, in the callbacks of the emulated   *)
(* Wemo devices, and from the admin web server.  Both only put the scene   *)
(* number into the global SCENE_TO_SET; the sketch's loop() takes it out   *)
(* and sends it.                                                           *)
(*                                                                         *)
(* The TCP callbacks run whenever the sketch yields: between two passes of *)
(* loop(), while the web server waits for its client, and in the delay()   *)
(* after each infrared frame.  They do not run between two statements that *)
(* do not yield, so an action goes from one yield to the next.             *)
(***************************************************************************)
EXTENDS Integers, Sequences

CONSTANTS
    DeviceCount,    \* emulated Wemo devices, 5 in the firmware
    AdminArgs       \* what /admin/setScene?scene= may parse to

ASSUME DeviceCountAssumption == DeviceCount \in Nat
ASSUME AdminArgsAssumption == AdminArgs \subseteq Int

NoScene == -1
NoFrame == 0
Repetitions == 3

\* CommandInterface::_commands
Commands == << \h11, \h12, \h13, \h14, \h15, \h16, \h17, \h18, \h19, \h10,
               \h1a, \h1b, \h1c, \h3d, \h37, \h35, \h32, \h36, \h34, \h3a >>

\* CommandInterface::setScene.  Its last test is an assignment, "scene = 255",
\* so that every other number selects the code meant for 255.
Command(scene) ==
    IF scene \in 0 .. 19 THEN Commands[scene + 1]
    ELSE IF scene = -1 THEN \h02
    ELSE \h3f

VARIABLES
    SCENE_TO_SET,   \* the one-place mailbox
    step,           \* where loop() yields: "listen", "check" or "sending"
    scene,          \* loop()'s local variable while it is sending
    framesSent,     \* frames of it sent
    currentScene,   \* FutronixESP8266::_currentScene
    onAir,          \* the code of the last frame sent, all the dimmer hears
    wanted          \* history: the scene the device was last asked for

vars == <<SCENE_TO_SET, step, scene, framesSent, currentScene, onAir, wanted>>

Requests == (0 .. DeviceCount - 1) \cup AdminArgs

TypeOK ==
    /\ SCENE_TO_SET \in Requests \cup {NoScene}
    /\ step \in {"listen", "check", "sending"}
    /\ scene \in Requests \cup {NoScene}
    /\ framesSent \in 0 .. Repetitions
    /\ currentScene \in Requests \cup {NoScene}
    /\ onAir \in {Command(s) : s \in Requests} \cup {NoFrame}
    /\ wanted \in Requests \cup {NoScene}

Init ==
    /\ SCENE_TO_SET = NoScene
    /\ step = "listen"
    /\ scene = NoScene
    /\ framesSent = 0
    /\ currentScene = NoScene
    /\ onAir = NoFrame
    /\ wanted = NoScene

-----------------------------------------------------------------------------
\* Requests

\* Alexa switches a device on or off: Fauxmo finds the device, WemoEmulator its
\* handler, and SceneCallbackHandler queues the scene.  The handler is called
\* with 1 for "off" as well.
WemoCallback(device) ==
    /\ SCENE_TO_SET' = device
    /\ wanted' = device
    /\ UNCHANGED <<step, scene, framesSent, currentScene, onAir>>

\* adminServer.listen() serves /admin/setScene.  A negative number empties the
\* mailbox: it takes a waiting request back.
AdminSetScene(n) ==
    /\ step = "listen"
    /\ SCENE_TO_SET' = n
    /\ wanted' = IF n >= 0 THEN n ELSE currentScene
    /\ step' = "check"
    /\ UNCHANGED <<scene, framesSent, currentScene, onAir>>

-----------------------------------------------------------------------------
\* loop()

\* No request for the web server, or one that leaves the scene alone.
Listen ==
    /\ step = "listen"
    /\ step' = "check"
    /\ UNCHANGED <<SCENE_TO_SET, scene, framesSent, currentScene, onAir, wanted>>

NothingToSend ==
    /\ step = "check"
    /\ SCENE_TO_SET < 0
    /\ step' = "listen"
    /\ UNCHANGED <<SCENE_TO_SET, scene, framesSent, currentScene, onAir, wanted>>

\* Mutant: the request stays in the mailbox while it is being sent.
StartKeepingRequest ==
    /\ step = "check"
    /\ SCENE_TO_SET >= 0
    /\ scene' = SCENE_TO_SET
    /\ onAir' = Command(SCENE_TO_SET)
    /\ framesSent' = 1
    /\ step' = "sending"
    /\ UNCHANGED <<SCENE_TO_SET, currentScene, wanted>>

\* The mailbox is emptied and the first frame sent, up to its delay().
StartSending ==
    /\ step = "check"
    /\ SCENE_TO_SET >= 0
    /\ scene' = SCENE_TO_SET
    /\ SCENE_TO_SET' = NoScene
    /\ onAir' = Command(SCENE_TO_SET)
    /\ framesSent' = 1
    /\ step' = "sending"
    /\ UNCHANGED <<currentScene, wanted>>

\* Mutant: the repetition is made for the scene in the mailbox, if any.
RepeatLatest ==
    /\ step = "sending"
    /\ framesSent < Repetitions
    /\ onAir' = Command(IF SCENE_TO_SET >= 0 THEN SCENE_TO_SET ELSE scene)
    /\ framesSent' = framesSent + 1
    /\ UNCHANGED <<SCENE_TO_SET, step, scene, currentScene, wanted>>

RepeatFrame ==
    /\ step = "sending"
    /\ framesSent < Repetitions
    /\ onAir' = Command(scene)
    /\ framesSent' = framesSent + 1
    /\ UNCHANGED <<SCENE_TO_SET, step, scene, currentScene, wanted>>

\* Mutant: the mailbox is emptied after the sending, not before.
FinishEmptyingMailbox ==
    /\ step = "sending"
    /\ framesSent = Repetitions
    /\ currentScene' = scene
    /\ SCENE_TO_SET' = NoScene
    /\ scene' = NoScene
    /\ framesSent' = 0
    /\ step' = "listen"
    /\ UNCHANGED <<onAir, wanted>>

\* Mutant: the scene recorded as current is the one in the mailbox.
FinishWithLatest ==
    /\ step = "sending"
    /\ framesSent = Repetitions
    /\ currentScene' = IF SCENE_TO_SET >= 0 THEN SCENE_TO_SET ELSE scene
    /\ scene' = NoScene
    /\ framesSent' = 0
    /\ step' = "listen"
    /\ UNCHANGED <<SCENE_TO_SET, onAir, wanted>>

\* The last delay() is over and FutronixESP8266::setScene returns.
FinishSending ==
    /\ step = "sending"
    /\ framesSent = Repetitions
    /\ currentScene' = scene
    /\ scene' = NoScene
    /\ framesSent' = 0
    /\ step' = "listen"
    /\ UNCHANGED <<SCENE_TO_SET, onAir, wanted>>

Loop == Listen \/ NothingToSend \/ StartSending \/ RepeatFrame \/ FinishSending

Request ==
    \/ \E device \in 0 .. DeviceCount - 1 : WemoCallback(device)
    \/ \E n \in AdminArgs : AdminSetScene(n)

Next == Loop \/ Request

Spec == Init /\ [][Next]_vars

-----------------------------------------------------------------------------
\* The last request is never lost: it waits in the mailbox, is being sent, or
\* was the last one sent.  It would be lost if a callback's write to SCENE_TO_SET
\* were overwritten when loop() empties it.
LastRequestIsKept ==
    wanted = IF SCENE_TO_SET >= 0 THEN SCENE_TO_SET
             ELSE IF step = "sending" THEN scene
             ELSE currentScene

\* What /admin/getCurrentScene can report is what the dimmer was last told,
\* whatever requests came in during the sending.
ReportedSceneIsOnAir ==
    step # "sending" =>
        IF currentScene = NoScene THEN onAir = NoFrame ELSE onAir = Command(currentScene)

\* The mailbox, the burst and the report together are the one-place mailbox of
\* SceneMailbox, in which a burst is a single showing: its later frames are
\* steps that change nothing there.
Scenes == {s \in Requests : s >= 0}

Mailbox == INSTANCE SceneMailbox WITH
    Codes <- [s \in Scenes |-> Command(s)], None <- NoScene, Nothing <- NoFrame,
    waiting <- IF SCENE_TO_SET >= 0 THEN SCENE_TO_SET ELSE NoScene,
    busy <- scene, reported <- currentScene, shown <- onAir

\* However callbacks, admin requests, the frames of a burst and power losses
\* interleave, the device shows each request it takes up once, in full and
\* uninterrupted, takes up the latest one and reports just what it showed.
ImplementsMailbox == Mailbox!MailboxSpec

\* The frames of one burst all carry the same code: a request that arrives in
\* the delay between two of them does not get into the rest.
BurstCarriesOneScene ==
    [][step = "sending" /\ step' = "sending" => onAir' = onAir]_vars

=============================================================================
