-------------------------- MODULE RtosTasksProofs --------------------------
(***************************************************************************)
(* Theorems about the tasks of the RTOS firmware, for every number of      *)
(* retries that fits its uint8_t.                                          *)
(***************************************************************************)
EXTENDS RtosTasks, TLAPS

USE RetriesAssumption DEF RetriesAssumption

\* A reset was asked for on the connection that is still open, which is then
\* lost; before the first call of the MQTT library there is none.
ResetIsOfThisConnection ==
    /\ mqttStep \in {"subscribing", "session"} /\ ssl_reset => broken
    /\ mqttStep \in {"connecting", "handshake", "connected"} => ~ssl_reset

IInv == TypeOK /\ ContextsAreFreed /\ ResetIsOfThisConnection

LEMMA InitHolds == Init => IInv
<1>. SUFFICES ASSUME Init PROVE IInv
  OBVIOUS
<1>1. wifi_alive \in BOOLEAN /\ ssl_reset \in BOOLEAN /\ broken \in BOOLEAN
  BY Zenon DEF Init
<1>2. TypeOK
  BY <1>1 DEF Init, TypeOK, Stations, MqttSteps
<1>3. ContextsAreFreed
  BY DEF Init, ContextsAreFreed
<1>4. ResetIsOfThisConnection
  BY DEF Init, ResetIsOfThisConnection
<1>. QED BY <1>2, <1>3, <1>4 DEF IInv

LEMMA WifiTaskKeepsInv ==
    ASSUME IInv, WifiTask
    PROVE  IInv'
<1>. USE DEF IInv, TypeOK, ContextsAreFreed, ResetIsOfThisConnection, mqttVars, Stations
<1>1. CASE Wait
  <2>1. retries' \in 0 .. MaxRetries
    BY <1>1 DEF Wait
  <2>2. QED BY <1>1, <2>1 DEF Wait
<1>2. CASE StopWaiting
  BY <1>2 DEF StopWaiting
<1>3. CASE Watch
  BY <1>3 DEF Watch
<1>4. CASE Resume
  BY <1>4 DEF Resume
<1>. QED BY <1>1, <1>2, <1>3, <1>4 DEF WifiTask

LEMMA MqttTaskKeepsInv ==
    ASSUME IInv, MqttTask
    PROVE  IInv'
<1>. USE DEF IInv, TypeOK, ContextsAreFreed, ResetIsOfThisConnection, wifiVars,
             MqttSteps, Destroy, TlsError
<1>1. CASE StartConnection
  <2>1. ssl_reset' \in BOOLEAN /\ broken' \in BOOLEAN /\ ~ssl_reset'
    BY <1>1, Zenon DEF StartConnection
  <2>. QED BY <1>1, <2>1 DEF StartConnection
<1>2. CASE NetConnected \/ HandshakeDone \/ MqttConnected
  BY <1>2 DEF NetConnected, HandshakeDone, MqttConnected
<1>3. CASE ConnectFails
  BY <1>3 DEF ConnectFails
<1>4. CASE MqttConnectFails
  BY <1>4 DEF MqttConnectFails
<1>5. CASE Subscribe
  BY <1>5 DEF Subscribe
<1>6. CASE PollFails
  BY <1>6 DEF PollFails
<1>7. CASE Disconnected
  BY <1>7 DEF Disconnected
<1>8. CASE LeaveSession
  BY <1>8 DEF LeaveSession
<1>. QED BY <1>1, <1>2, <1>3, <1>4, <1>5, <1>6, <1>7, <1>8 DEF MqttTask

LEMMA NetworkKeepsInv ==
    ASSUME IInv, Network
    PROVE  IInv'
<1>. USE DEF IInv, TypeOK, ContextsAreFreed, ResetIsOfThisConnection, wifiVars, mqttVars
<1>1. CASE StationChanges
  BY <1>1 DEF StationChanges
<1>2. CASE Break
  <2>1. broken' /\ broken' \in BOOLEAN
    BY <1>2, Zenon DEF Break
  <2>. QED BY <1>2, <2>1 DEF Break
<1>. QED BY <1>1, <1>2 DEF Network

LEMMA StepKeepsInv == IInv /\ [Next]_vars => IInv'
<1>. SUFFICES ASSUME IInv, [Next]_vars PROVE IInv'
  OBVIOUS
<1>1. CASE Next
  BY <1>1, WifiTaskKeepsInv, MqttTaskKeepsInv, NetworkKeepsInv DEF Next
<1>2. CASE UNCHANGED vars
  BY <1>2 DEF vars, wifiVars, mqttVars, IInv, TypeOK, ContextsAreFreed, ResetIsOfThisConnection
<1>. QED BY <1>1, <1>2

\* The inductive invariant holds in every state the tasks reach.
THEOREM Invariance == Spec => []IInv
BY InitHolds, StepKeepsInv, PTL DEF Spec

\* The state of both tasks has its type; retries, counted down in a uint8_t,
\* never wraps (wifi_task's loop conditions).
THEOREM TypeCorrect == Spec => []TypeOK
BY Invariance, PTL DEF IInv

\* Each connection's contexts are destroyed once (the ssl_destroy on every path
\* of mqtt_task).
THEOREM ContextsBalance == Spec => []ContextsAreFreed
BY Invariance, PTL DEF IInv

LEMMA SessionStep ==
    ASSUME IInv, [Next]_vars, mqttStep = "session", mqttStep' = "top"
    PROVE  ~wifi_alive \/ Dead
<1>1. Disconnected \/ LeaveSession
  BY DEF Next, WifiTask, Wait, StopWaiting, Watch, Resume, MqttTask, StartConnection,
         NetConnected, HandshakeDone, MqttConnected, ConnectFails, MqttConnectFails,
         Subscribe, PollFails, Network, StationChanges, Break, vars, mqttVars
<1>2. CASE Disconnected
  BY <1>2 DEF Disconnected
<1>3. CASE LeaveSession
  BY <1>3 DEF LeaveSession, IInv, ResetIsOfThisConnection, Dead
<1>. QED BY <1>1, <1>2, <1>3

\* No session is given up while it works: the reset that ends one was asked for on
\* its own connection (mqtt_task clears ssl_reset before each).
THEOREM SessionsLast == Spec => HealthySessionStays
<1>1. IInv /\ [Next]_vars =>
        [mqttStep = "session" /\ mqttStep' = "top" => ~wifi_alive \/ Dead]_vars
  BY SessionStep
<1>. QED BY <1>1, Invariance, PTL DEF Spec, HealthySessionStays

-----------------------------------------------------------------------------
\* wifi_task: wifi_alive is what it last read, and is set only while it watches.
AliveIsWatched ==
    /\ wifi_alive => wifiStep = "watching" /\ status = "got_ip"
    /\ wifiStep = "pausing" => status # "got_ip"

\* The rest of wifi_task's round: the passes it waits, and the steps to follow.
RoundLeft ==
    CASE wifiStep = "watching" -> 1
      [] wifiStep = "waiting"  -> 2 + retries
      [] wifiStep = "pausing"  -> 3 + retries

\* The safety half of WifiAliveFollowsStation: mqtt_task sees WiFi only while
\* wifi_task watches a station it last found with an address, and a round that is
\* back to waiting comes to watching again, with or without retries left.
THEOREM WifiTaskComesRound ==
    Spec => []AliveIsWatched
            /\ [][WifiTask /\ wifiStep # "watching" =>
                      RoundLeft' \in Nat /\ RoundLeft' < RoundLeft]_vars
<1>. DEFINE Nearer == RoundLeft' \in Nat /\ RoundLeft' < RoundLeft
<1>1. Init => AliveIsWatched
  BY Zenon DEF Init, AliveIsWatched
<1>2. AliveIsWatched /\ [Next]_vars => AliveIsWatched'
  <2>. SUFFICES ASSUME AliveIsWatched, [Next]_vars PROVE AliveIsWatched'
    OBVIOUS
  <2>. USE DEF AliveIsWatched
  <2>1. CASE Wait
    BY <2>1 DEF Wait
  <2>2. CASE StopWaiting
    BY <2>2 DEF StopWaiting
  <2>3. CASE Watch
    <3>1. status' = station /\ wifi_alive' = (station = "got_ip")
          /\ wifiStep' = IF station = "got_ip" THEN "watching" ELSE "pausing"
      BY <2>3 DEF Watch
    <3>. QED BY <3>1
  <2>4. CASE Resume
    BY <2>4, Zenon DEF Resume
  <2>5. CASE MqttTask \/ Network \/ UNCHANGED vars
    <3>1. UNCHANGED wifiVars
      BY <2>5 DEF MqttTask, StartConnection, NetConnected, HandshakeDone, MqttConnected,
             ConnectFails, MqttConnectFails, Subscribe, PollFails, Disconnected, LeaveSession,
             Network, StationChanges, Break, vars
    <3>. QED BY <3>1 DEF wifiVars
  <2>. QED BY <2>1, <2>2, <2>3, <2>4, <2>5 DEF Next, WifiTask
<1>3. ASSUME IInv, WifiTask, wifiStep # "watching" PROVE Nearer
  <2>1. retries \in 0 .. MaxRetries /\ MaxRetries \in 1 .. 255
    BY <1>3 DEF IInv, TypeOK
  <2>2. CASE Wait
    <3>1. CASE station = "failed"
      BY <2>1, <2>2, <3>1 DEF Wait, RoundLeft
    <3>2. CASE station # "failed"
      <4>1. retries' = retries - 1
        BY <2>1, <2>2, <3>2 DEF Wait
      <4>. QED BY <2>1, <2>2, <3>2, <4>1 DEF Wait, RoundLeft
    <3>. QED BY <3>1, <3>2
  <2>3. CASE StopWaiting
    BY <2>1, <2>3 DEF StopWaiting, RoundLeft
  <2>4. CASE Resume
    BY <2>1, <2>4 DEF Resume, RoundLeft
  <2>. QED BY <1>3, <2>2, <2>3, <2>4 DEF WifiTask, Watch
<1>4. IInv /\ [Next]_vars => [WifiTask /\ wifiStep # "watching" => Nearer]_vars
  BY <1>3
<1>. QED BY <1>1, <1>2, <1>4, Invariance, PTL DEF Spec

\* What is left of a pass of mqtt_task, counted in steps.
PassLeft ==
    CASE mqttStep = "top"         -> 0
      [] mqttStep = "session"     -> IF ssl_reset THEN 1 ELSE 2
      [] mqttStep = "subscribing" -> 3
      [] mqttStep = "connected"   -> 4
      [] mqttStep = "handshake"   -> 5
      [] mqttStep = "connecting"  -> 6

\* The step on which Reconnects and RestsWithoutWifi rest: whatever mqtt_task does
\* in a pass brings it nearer to its end, in a session too, where each failing poll
\* but the first changes nothing, and no pass begins without WiFi.
THEOREM PassesComeToAnEnd ==
    Spec => [][MqttTask => \/ PassLeft' \in Nat /\ PassLeft' < PassLeft
                           \/ wifi_alive /\ mqttStep = "top"]_vars
<1>. DEFINE Nearer == PassLeft' \in Nat /\ PassLeft' < PassLeft
            Begins == wifi_alive /\ mqttStep = "top"
<1>1. ASSUME IInv, MqttTask, ~UNCHANGED vars PROVE Nearer \/ Begins
  <2>1. CASE StartConnection
    BY <2>1 DEF StartConnection
  <2>2. CASE NetConnected \/ HandshakeDone \/ MqttConnected
    BY <2>2 DEF NetConnected, HandshakeDone, MqttConnected, PassLeft
  <2>3. CASE ConnectFails \/ MqttConnectFails
    BY <2>3 DEF ConnectFails, MqttConnectFails, Destroy, PassLeft
  <2>4. CASE Subscribe
    BY <2>4 DEF Subscribe, PassLeft
  <2>5. CASE PollFails
    <3>1. mqttStep = "session" /\ mqttStep' = "session" /\ ssl_reset'
      BY <2>5 DEF PollFails, TlsError
    <3>2. ~ssl_reset
      <4>1. SUFFICES ASSUME ssl_reset PROVE FALSE
        OBVIOUS
      <4>2. broken
        BY <1>1, <3>1, <4>1 DEF IInv, ResetIsOfThisConnection
      <4>3. ssl_reset' = ssl_reset /\ broken' = broken
        BY <1>1, <2>5, <4>1, <4>2 DEF IInv, TypeOK, PollFails, TlsError
      <4>. QED BY <1>1, <2>5, <4>3 DEF PollFails, vars, mqttVars
    <3>. QED BY <3>1, <3>2 DEF PassLeft
  <2>6. CASE Disconnected \/ LeaveSession
    BY <2>6 DEF Disconnected, LeaveSession, Destroy, PassLeft
  <2>. QED BY <1>1, <2>1, <2>2, <2>3, <2>4, <2>5, <2>6 DEF MqttTask
<1>2. IInv /\ [Next]_vars => [MqttTask => Nearer \/ Begins]_vars
  BY <1>1
<1>. QED BY <1>2, Invariance, PTL DEF Spec

=============================================================================
