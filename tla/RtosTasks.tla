----------------------------- MODULE RtosTasks -----------------------------
(***************************************************************************)
(* The tasks of the RTOS firmware (aws_iot.c, ssl_connection.c): wifi_task *)
(* watches the WiFi station and keeps wifi_alive; mqtt_task opens a TLS    *)
(* connection while there is WiFi, subscribes and polls until it drops.    *)
(* The scheduler may switch at any instruction, so an action has at most   *)
(* one access to what the other task or the network changes.  beat_task    *)
(* changes nothing, its publishing is commented out, and with it the       *)
(* publish queue stays empty.                                              *)
(***************************************************************************)
EXTENDS Integers

CONSTANT MaxRetries     \* initial value of retries, 30 in the firmware

ASSUME RetriesAssumption == MaxRetries \in 1 .. 255

\* Connect status of the station: "failed" is wrong password, no access point
\* or connection failure, "connecting" is idle and connecting.
Stations == {"connecting", "failed", "got_ip"}

VARIABLES
    station,        \* what the SDK's get_connect_status returns
    wifiStep,       \* wifi_task: "waiting", "watching" or "pausing"
    status,         \* its last reading
    retries,
    wifi_alive,
    mqttStep,       \* where mqtt_task is
    ssl_reset,
    contexts,       \* TLS contexts initialised and not destroyed
    broken          \* the connection of mqtt_task is lost for good

wifiVars == <<wifiStep, status, retries, wifi_alive>>
mqttVars == <<mqttStep, ssl_reset, contexts>>
vars == <<station, wifiVars, mqttVars, broken>>

MqttSteps == {"top", "connecting", "handshake", "connected", "subscribing", "session"}

TypeOK ==
    /\ station \in Stations
    /\ wifiStep \in {"waiting", "watching", "pausing"}
    /\ status \in Stations
    /\ retries \in 0 .. MaxRetries
    /\ wifi_alive \in BOOLEAN
    /\ mqttStep \in MqttSteps
    /\ ssl_reset \in BOOLEAN
    /\ contexts \in {0, 1}
    /\ broken \in BOOLEAN

Init ==
    /\ station = "connecting"
    /\ wifiStep = "waiting"
    /\ status = "connecting"
    /\ retries = MaxRetries
    /\ wifi_alive = FALSE
    /\ mqttStep = "top"
    /\ ssl_reset = FALSE
    /\ contexts = 0
    /\ broken = FALSE

-----------------------------------------------------------------------------
\* wifi_task

\* Mutant: the wait is not given up, and retries, a uint8_t, wraps.
WaitOn ==
    /\ wifiStep = "waiting"
    /\ status # "got_ip"
    /\ status' = station
    /\ IF station = "failed"
       THEN wifiStep' = "watching" /\ UNCHANGED retries
       ELSE retries' = (retries - 1) % 256 /\ UNCHANGED wifiStep
    /\ UNCHANGED <<station, wifi_alive, mqttVars, broken>>

\* One pass of the loop that waits for the connection.
Wait ==
    /\ wifiStep = "waiting"
    /\ status # "got_ip"
    /\ retries > 0
    /\ status' = station
    /\ IF station = "failed"
       THEN wifiStep' = "watching" /\ UNCHANGED retries
       ELSE retries' = (retries - 1) % 256 /\ UNCHANGED wifiStep
    /\ UNCHANGED <<station, wifi_alive, mqttVars, broken>>

\* Mutant: the task does not go on without an address.
StopWaitingWithAddress ==
    /\ wifiStep = "waiting"
    /\ status = "got_ip"
    /\ wifiStep' = "watching"
    /\ UNCHANGED <<station, status, retries, wifi_alive, mqttVars, broken>>

StopWaiting ==
    /\ wifiStep = "waiting"
    /\ status = "got_ip" \/ retries = 0
    /\ wifiStep' = "watching"
    /\ UNCHANGED <<station, status, retries, wifi_alive, mqttVars, broken>>

\* One pass of the loop that watches the connection, or its end.
Watch ==
    /\ wifiStep = "watching"
    /\ status' = station
    /\ wifi_alive' = (station = "got_ip")
    /\ wifiStep' = IF station = "got_ip" THEN "watching" ELSE "pausing"
    /\ UNCHANGED <<station, retries, mqttVars, broken>>

\* The pause is over.  retries keeps what is left of it.
Resume ==
    /\ wifiStep = "pausing"
    /\ wifi_alive' = FALSE
    /\ wifiStep' = "waiting"
    /\ UNCHANGED <<station, status, retries, mqttVars, broken>>

WifiTask == Wait \/ StopWaiting \/ Watch \/ Resume

-----------------------------------------------------------------------------
\* mqtt_task

Dead == broken \/ station # "got_ip"

\* ssl_destroy, and on to the next pass of the task's loop.
Destroy ==
    /\ contexts' = contexts - 1
    /\ mqttStep' = "top"

\* Mutant: ssl_reset is not cleared for the new connection.
StartKeepingReset ==
    /\ mqttStep = "top"
    /\ wifi_alive
    /\ contexts' = contexts + 1
    /\ broken' = FALSE
    /\ mqttStep' = "connecting"
    /\ UNCHANGED <<station, wifiVars, ssl_reset>>

\* Mutant: a connection is tried whether there is WiFi or not.
StartWithoutWifi ==
    /\ mqttStep = "top"
    /\ ssl_reset' = FALSE
    /\ contexts' = contexts + 1
    /\ broken' = FALSE
    /\ mqttStep' = "connecting"
    /\ UNCHANGED <<station, wifiVars>>

\* The pass begins: ssl_init.
StartConnection ==
    /\ mqttStep = "top"
    /\ wifi_alive
    /\ ssl_reset' = FALSE
    /\ contexts' = contexts + 1
    /\ broken' = FALSE
    /\ mqttStep' = "connecting"
    /\ UNCHANGED <<station, wifiVars>>

\* ssl_connect up to mbedtls_net_connect.
NetConnected ==
    /\ mqttStep = "connecting"
    /\ ~Dead
    /\ mqttStep' = "handshake"
    /\ UNCHANGED <<station, wifiVars, ssl_reset, contexts, broken>>

\* The handshake loop ends.  While the connection is dead it goes round: its
\* errors other than a certificate's are retried forever, and wifi_alive is not
\* looked at.
HandshakeDone ==
    /\ mqttStep = "handshake"
    /\ ~Dead
    /\ mqttStep' = "connected"
    /\ UNCHANGED <<station, wifiVars, ssl_reset, contexts, broken>>

\* ssl_connect returns an error: no connection, or a certificate refused.
ConnectFails ==
    /\ mqttStep = "connecting" \/ (mqttStep = "handshake" /\ ~Dead)
    /\ Destroy
    /\ UNCHANGED <<station, wifiVars, ssl_reset, broken>>

MqttConnected ==
    /\ mqttStep = "connected"
    /\ ~Dead
    /\ mqttStep' = "subscribing"
    /\ UNCHANGED <<station, wifiVars, ssl_reset, contexts, broken>>

\* A read or write of the MQTT library on a dead connection: mqtt_ssl_read and
\* mqtt_ssl_write ask for a reset unless they only timed out.
TlsError(reset) ==
    /\ Dead
    /\ ssl_reset' = (ssl_reset \/ reset)
    /\ broken' = (broken \/ reset)

\* Mutant: the contexts are not destroyed when mqtt_connect fails.
MqttConnectFailsKeepingContexts ==
    /\ mqttStep = "connected"
    /\ (\E reset \in BOOLEAN : TlsError(reset)) \/ UNCHANGED <<ssl_reset, broken>>
    /\ mqttStep' = "top"
    /\ UNCHANGED <<station, wifiVars, contexts>>

\* mqtt_connect fails, on a dead connection or refused by the broker.
MqttConnectFails ==
    /\ mqttStep = "connected"
    /\ (\E reset \in BOOLEAN : TlsError(reset)) \/ UNCHANGED <<ssl_reset, broken>>
    /\ Destroy
    /\ UNCHANGED <<station, wifiVars>>

\* The return value of mqtt_subscribe is not looked at.
Subscribe ==
    /\ mqttStep = "subscribing"
    /\ IF Dead THEN \E reset \in BOOLEAN : TlsError(reset)
       ELSE UNCHANGED <<ssl_reset, broken>>
    /\ mqttStep' = "session"
    /\ UNCHANGED <<station, wifiVars, contexts>>

\* mqtt_yield on a dead connection: a TLS error is recorded, or the library
\* finds the broker gone.  On a live one it changes nothing.
PollFails ==
    /\ mqttStep = "session"
    /\ TlsError(TRUE)
    /\ UNCHANGED <<station, wifiVars, mqttStep, contexts>>

Disconnected ==
    /\ mqttStep = "session"
    /\ Dead
    /\ Destroy
    /\ UNCHANGED <<station, wifiVars, ssl_reset, broken>>

\* The test of the polling loop fails.
LeaveSession ==
    /\ mqttStep = "session"
    /\ ~wifi_alive \/ ssl_reset
    /\ Destroy
    /\ UNCHANGED <<station, wifiVars, ssl_reset, broken>>

MqttTask ==
    \/ StartConnection \/ NetConnected \/ HandshakeDone \/ MqttConnected
    \/ ConnectFails \/ MqttConnectFails \/ Subscribe
    \/ PollFails \/ Disconnected \/ LeaveSession

-----------------------------------------------------------------------------
\* The network

\* A short loss of the WiFi leaves the TCP connection as it is.
StationChanges ==
    /\ station' \in Stations \ {station}
    /\ UNCHANGED <<wifiVars, mqttVars, broken>>

Break ==
    /\ mqttStep \notin {"top", "connecting"}
    /\ ~broken
    /\ broken' = TRUE
    /\ UNCHANGED <<station, wifiVars, mqttVars>>

Network == StationChanges \/ Break

Next == WifiTask \/ MqttTask \/ Network

Spec == Init /\ [][Next]_vars

\* Both tasks are scheduled and their calls return.  A read on a dead connection
\* ends with an error or, at the latest, with the end of the keep-alive interval.
FairSpec == Spec /\ WF_vars(WifiTask) /\ WF_vars(MqttTask)

-----------------------------------------------------------------------------
\* Every path through mqtt_task's loop destroys the contexts that ssl_init made,
\* once: none is leaked, none freed twice, wherever the connection drops.
ContextsAreFreed == contexts = IF mqttStep = "top" THEN 0 ELSE 1

\* A session that works is not given up: mqtt_task leaves it only if WiFi was
\* lost or this very connection broke, never because of a reset that was asked
\* for on an earlier connection.
HealthySessionStays ==
    [][mqttStep = "session" /\ mqttStep' = "top" => ~wifi_alive \/ Dead]_vars

\* wifi_alive settles on what the station's status settles on, however often the
\* connection was lost and whatever is left of the retries.
WifiAliveFollowsStation ==
    /\ <>[](station = "got_ip") => <>[]wifi_alive
    /\ <>[](station # "got_ip") => <>[]~wifi_alive

Refused == ~Dead /\ (ConnectFails \/ MqttConnectFails)

\* Once the network stays up and the broker refuses nothing, mqtt_task comes to a
\* session that lasts.  The one place where it may hang instead is the handshake,
\* on a connection that broke during it.
Reconnects ==
    (<>[](station = "got_ip") /\ <>[][~Break /\ ~Refused]_vars) =>
        \/ <>[](mqttStep = "session" /\ ~broken)
        \/ <>[](mqttStep = "handshake" /\ broken)

\* Without WiFi mqtt_task comes to rest with everything freed, or hangs in the
\* handshake.
RestsWithoutWifi ==
    <>[](station # "got_ip") =>
        \/ <>[](mqttStep = "top" /\ contexts = 0)
        \/ <>[](mqttStep = "handshake")

=============================================================================
