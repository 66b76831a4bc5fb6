------------------------------- MODULE Device -------------------------------
(***************************************************************************)
(* A device from power-on to power loss: the constructor and begin() of    *)
(* FutronixESP8266, the one attempt to join the WiFi, the Wemo devices     *)
(* that are added only if it succeeds, the admin server that is started in *)
(* any case, and then the scene control of SceneControl.                   *)
(*                                                                         *)
(* begin() yields in the delay() of EEPROMInterface::doRead, where nothing *)
(* listens yet, and in that of WifiConnection::connect.  What the store    *)
(* holds is reduced to the credentials it would hand out; how it is        *)
(* written is the subject of Database.                                     *)
(***************************************************************************)
EXTENDS SceneControl

CONSTANTS
    PollLimit,      \* bound of i in WifiConnection::connect, 10 in the firmware
    Networks,       \* credentials of WiFi networks that a setup may bring
    Factory,        \* the credentials begin() installs
    NotSetUp,       \* a store without the magic word
    Null            \* a null pointer

ASSUME PollLimitAssumption == PollLimit \in Nat
ASSUME CredentialsAssumption ==
    /\ Factory \notin {NotSetUp, Null}
    /\ {NotSetUp, Null} \cap Networks = {}

VARIABLES
    boot,           \* how far setup() has got
    station,        \* whether WiFi.status() is WL_CONNECTED
    stored,         \* credentials in the store, or NotSetUp
    credentials,    \* WifiConnection::_wifiSsid and _wifiPasswd
    polls,          \* i in WifiConnection::connect
    isConnected,    \* WifiConnection::isConnected, which decides on the emulation
    devices,        \* names in Fauxmo::_devices
    handlers        \* scene numbers of WemoEmulator::_callbackHandlers

startVars == <<boot, station, stored, credentials, polls, isConnected, devices, handlers>>
deviceVars == <<vars, startVars>>

Boots == {"off", "connecting", "starting", "running"}

\* The emulation listens and takes devices: WemoEmulator::_enabled.
Enabled == isConnected

SceneName(n) == <<"scene", n + 1>>

DeviceTypeOK ==
    /\ TypeOK
    /\ boot \in Boots
    /\ station \in BOOLEAN
    /\ stored \in Networks \cup {Factory, NotSetUp}
    /\ credentials \in Networks \cup {Factory, NotSetUp, Null}
    /\ polls \in 0 .. PollLimit + 1
    /\ isConnected \in BOOLEAN
    /\ devices \in Seq({SceneName(n) : n \in 0 .. DeviceCount - 1})
    /\ handlers \in Seq(0 .. DeviceCount - 1)
    /\ Len(handlers) = Len(devices) /\ Len(devices) <= DeviceCount
    /\ devices # <<>> => Enabled

\* A new chip, somewhere with or without the network its SDK may know.
DeviceInit ==
    /\ Init
    /\ boot = "off"
    /\ station \in BOOLEAN
    /\ stored = NotSetUp
    /\ credentials = Null
    /\ polls = 0
    /\ isConnected = FALSE
    /\ devices = <<>>
    /\ handlers = <<>>

-----------------------------------------------------------------------------
\* FutronixESP8266

\* Database::getWifiSsid and getWifiPasswd, called by the constructor: the
\* store is not yet open (_enabled), so both are null pointers.
CredentialsAtConstruction == Null

\* FutronixESP8266::begin up to connect(), which finds the WiFi connected or
\* goes into its first delay().
PowerOn ==
    /\ boot = "off"
    /\ credentials' = CredentialsAtConstruction
    /\ stored' = IF stored = NotSetUp THEN Factory ELSE stored
    /\ isConnected' = station
    /\ boot' = IF station THEN "starting" ELSE "connecting"
    /\ UNCHANGED <<vars, station, polls, devices, handlers>>

\* Mutant: gives up with one test to go.
PollEndingEarly ==
    /\ boot = "connecting"
    /\ IF polls >= PollLimit
       THEN boot' = "starting" /\ UNCHANGED <<polls, isConnected>>
       ELSE /\ polls' = polls + 1
            /\ isConnected' = station
            /\ boot' = IF station THEN "starting" ELSE "connecting"
    /\ UNCHANGED <<vars, station, stored, credentials, devices, handlers>>

\* connect() after a delay(): it gives up without another look at the status,
\* or counts and tests again.
Poll ==
    /\ boot = "connecting"
    /\ IF polls > PollLimit
       THEN boot' = "starting" /\ UNCHANGED <<polls, isConnected>>
       ELSE /\ polls' = polls + 1
            /\ isConnected' = station
            /\ boot' = IF station THEN "starting" ELSE "connecting"
    /\ UNCHANGED <<vars, station, stored, credentials, devices, handlers>>

\* Mutant: a device is taken whether or not the emulation was begun.
AddDeviceUnasked ==
    /\ boot = "starting"
    /\ Len(devices) < DeviceCount
    /\ devices' = Append(devices, SceneName(Len(devices)))
    /\ handlers' = Append(handlers, Len(devices))
    /\ UNCHANGED <<vars, boot, station, stored, credentials, polls, isConnected>>

\* startWemoServers: the next scene becomes a device, with a server in Fauxmo and
\* a handler in WemoEmulator.
AddDevice ==
    /\ boot = "starting" /\ Enabled
    /\ Len(devices) < DeviceCount
    /\ devices' = Append(devices, SceneName(Len(devices)))
    /\ handlers' = Append(handlers, Len(devices))
    /\ UNCHANGED <<vars, boot, station, stored, credentials, polls, isConnected>>

\* AdminServer::begin, connected or not.
StartAdmin ==
    /\ boot = "starting"
    /\ Enabled => Len(devices) = DeviceCount
    /\ boot' = "running"
    /\ UNCHANGED <<vars, station, stored, credentials, polls, isConnected, devices, handlers>>

Start == PowerOn \/ Poll \/ AddDevice \/ StartAdmin

-----------------------------------------------------------------------------
\* Requests to a running device; they need the network.

\* Mutant: the index is counted before the names are compared.
HandlerAfter(d) ==
    LET index == CHOOSE i \in DOMAIN devices :
                    devices[i] = devices[d] /\ \A j \in 1 .. i - 1 : devices[j] # devices[d]
    IN  handlers[IF index < Len(handlers) THEN index + 1 ELSE index]

\* WemoEmulator's callback: the first device of that name has its handler at the
\* same index.
HandlerOf(d) ==
    LET index == CHOOSE i \in DOMAIN devices :
                    devices[i] = devices[d] /\ \A j \in 1 .. i - 1 : devices[j] # devices[d]
    IN  handlers[index]

Switch(d) ==
    /\ boot = "running" /\ station
    /\ WemoCallback(HandlerOf(d))
    /\ UNCHANGED startVars

SetScene(n) ==
    /\ boot = "running" /\ station
    /\ AdminSetScene(n)
    /\ UNCHANGED startVars

\* handleSetup and handleClearSceneNames change what the store hands out after
\* the next start; WifiConnection keeps what it was constructed with.
Store(c) ==
    /\ boot = "running" /\ station
    /\ Listen
    /\ stored' = c
    /\ UNCHANGED <<boot, station, credentials, polls, isConnected, devices, handlers>>

DeviceRequest ==
    \/ \E d \in DOMAIN devices : Switch(d)
    \/ \E n \in AdminArgs : SetScene(n)
    \/ \E c \in Networks \cup {NotSetUp} : Store(c)

Run == boot = "running" /\ Loop /\ UNCHANGED startVars

-----------------------------------------------------------------------------
\* The surroundings

\* The station comes and goes as the SDK finds the network it knows by itself:
\* WiFi.begin refuses a null SSID.
StationChanges ==
    /\ station' = ~station
    /\ UNCHANGED <<vars, boot, stored, credentials, polls, isConnected, devices, handlers>>

\* Memory is lost; onAir and wanted start again with the device.
PowerLoss ==
    /\ boot # "off"
    /\ boot' = "off"
    /\ credentials' = Null /\ polls' = 0 /\ isConnected' = FALSE
    /\ devices' = <<>> /\ handlers' = <<>>
    /\ SCENE_TO_SET' = NoScene /\ step' = "listen" /\ scene' = NoScene
    /\ framesSent' = 0 /\ currentScene' = NoScene
    /\ onAir' = NoFrame /\ wanted' = NoScene
    /\ UNCHANGED <<station, stored>>

DeviceNext == Start \/ Run \/ DeviceRequest \/ StationChanges \/ PowerLoss

DeviceSpec == DeviceInit /\ [][DeviceNext]_deviceVars

\* The processor goes on with what it has begun: delay() returns, setup() goes on
\* and loop() is called again.
DeviceFairSpec == DeviceSpec /\ WF_deviceVars(Start) /\ WF_deviceVars(Run)

-----------------------------------------------------------------------------
\* A running device emulates either all of its scenes or none, and whichever
\* device Alexa switches, the handler found by its name is the one for its own
\* scene: the devices of Fauxmo and the handlers of WemoEmulator are two arrays
\* that are only related by the order in which they were filled.
SwitchesReachTheirScenes ==
    boot = "running" =>
        /\ Len(devices) = IF Enabled THEN DeviceCount ELSE 0
        /\ \A d \in DOMAIN devices : HandlerOf(d) = d - 1

\* A station that comes up while connect() has a test to go, and stays up, gets
\* Alexa her devices.  In the last of its delays connect() has none to go.
WifiInTimeServesAlexa ==
    (boot = "connecting" /\ polls <= PollLimit /\ station)
        ~> (boot = "running" /\ Len(devices) = DeviceCount) \/ ~station \/ boot = "off"

\* A scene is put into the mailbox that was not waiting there.  The idle steps of
\* loop() are none of this, whatever requests might look like them.
SceneRequest ==
    /\ \/ \E d \in DOMAIN devices : Switch(d)
       \/ \E n \in AdminArgs : SetScene(n)
    /\ SCENE_TO_SET' >= 0 /\ SCENE_TO_SET' # SCENE_TO_SET

\* Once no new scene is asked for and the power stays on, the device comes to rest
\* with the last request on the air and reported as the current scene, whether the
\* station is up or not.  Setups, requests that only look, and requests that take a
\* waiting one back may go on for ever.
LastRequestGetsSent ==
    (<>[][~SceneRequest /\ ~PowerLoss]_deviceVars) =>
        <>[](SCENE_TO_SET < 0 /\ currentScene = wanted
             /\ (wanted # NoScene => onAir = Command(wanted)))

-----------------------------------------------------------------------------
\* What comments of the code say and the code does not do.

\* WifiConnection.h: "Connects to the Wifi."; FutronixESP8266.h on what setup()
\* stores: "set wifi name & passwd".  A device tries the credentials it holds.
TriesStoredCredentials == boot = "connecting" => credentials = stored

=============================================================================
