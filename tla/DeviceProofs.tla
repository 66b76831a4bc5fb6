---------------------------- MODULE DeviceProofs ----------------------------
(***************************************************************************)
(* Theorems about the scene control by itself, for every number of devices *)
(* and every set of scene numbers the admin server may be given, and then  *)
(* about a device through starts and power losses, for every number of     *)
(* scenes, any credentials and any number of WiFi polls.  What is shown of *)
(* a step of the scene control is used for the device as it stands.        *)
(***************************************************************************)
EXTENDS Device, TLAPS

USE DeviceCountAssumption, AdminArgsAssumption

\* While a burst is sent, and only then, loop() holds a scene: the one whose code
\* is on the air, which is never a negative number.
SendingInv ==
    /\ IF step = "sending" THEN onAir = Command(scene) /\ scene >= 0 ELSE scene = NoScene
    /\ currentScene # NoScene => currentScene >= 0

IInv == TypeOK /\ SendingInv /\ LastRequestIsKept /\ ReportedSceneIsOnAir

LEMMA RequestsAreIntegers == Requests \subseteq Int /\ NoScene \in Int /\ NoScene < 0
BY DEF Requests, NoScene

LEMMA InitHolds == Init => IInv
BY DEF Init, IInv, TypeOK, SendingInv, LastRequestIsKept, ReportedSceneIsOnAir,
       NoScene, NoFrame, Repetitions

LEMMA CallbackKeepsInv ==
    ASSUME IInv, NEW device \in 0 .. DeviceCount - 1, WemoCallback(device)
    PROVE  IInv'
<1>. USE RequestsAreIntegers DEF WemoCallback
<1>1. device \in Requests /\ device >= 0
  BY DEF Requests
<1>2. TypeOK'
  BY <1>1 DEF IInv, TypeOK
<1>3. SendingInv' /\ ReportedSceneIsOnAir'
  BY DEF IInv, SendingInv, ReportedSceneIsOnAir
<1>4. LastRequestIsKept'
  BY <1>1 DEF LastRequestIsKept
<1>. QED BY <1>2, <1>3, <1>4 DEF IInv

LEMMA AdminKeepsInv ==
    ASSUME IInv, NEW n \in AdminArgs, AdminSetScene(n)
    PROVE  IInv'
<1>. USE RequestsAreIntegers DEF AdminSetScene
<1>1. n \in Requests
  BY DEF Requests
<1>2. TypeOK'
  BY <1>1 DEF IInv, TypeOK
<1>3. SendingInv' /\ ReportedSceneIsOnAir'
  BY DEF IInv, SendingInv, ReportedSceneIsOnAir
<1>4. LastRequestIsKept'
  BY <1>1 DEF LastRequestIsKept
<1>. QED BY <1>2, <1>3, <1>4 DEF IInv

LEMMA ListenKeepsInv == IInv /\ (Listen \/ NothingToSend) => IInv'
BY DEF IInv, TypeOK, SendingInv, LastRequestIsKept, ReportedSceneIsOnAir,
       Listen, NothingToSend

LEMMA StartKeepsInv == IInv /\ StartSending => IInv'
<1>. SUFFICES ASSUME IInv, StartSending PROVE IInv'
  OBVIOUS
<1>. USE RequestsAreIntegers DEF StartSending
<1>1. SCENE_TO_SET \in Requests /\ SCENE_TO_SET >= 0
  BY DEF IInv, TypeOK
<1>2. TypeOK'
  BY <1>1 DEF IInv, TypeOK, Repetitions
<1>3. SendingInv'
  BY <1>1 DEF IInv, SendingInv
<1>4. ReportedSceneIsOnAir'
  BY DEF ReportedSceneIsOnAir
<1>5. LastRequestIsKept'
  BY <1>1 DEF IInv, LastRequestIsKept
<1>. QED BY <1>2, <1>3, <1>4, <1>5 DEF IInv

LEMMA RepeatKeepsInv == IInv /\ RepeatFrame => IInv'
<1>. SUFFICES ASSUME IInv, RepeatFrame PROVE IInv'
  OBVIOUS
<1>. USE DEF RepeatFrame
<1>1. onAir' = onAir
  BY DEF IInv, SendingInv
<1>2. TypeOK'
  BY <1>1 DEF IInv, TypeOK, Repetitions
<1>3. SendingInv' /\ ReportedSceneIsOnAir' /\ LastRequestIsKept'
  BY <1>1 DEF IInv, SendingInv, ReportedSceneIsOnAir, LastRequestIsKept
<1>. QED BY <1>2, <1>3 DEF IInv

LEMMA FinishKeepsInv == IInv /\ FinishSending => IInv'
<1>. SUFFICES ASSUME IInv, FinishSending PROVE IInv'
  OBVIOUS
<1>. USE RequestsAreIntegers DEF FinishSending
<1>1. onAir = Command(scene) /\ scene >= 0 /\ scene \in Requests
  BY DEF IInv, TypeOK, SendingInv
<1>2. TypeOK'
  BY <1>1 DEF IInv, TypeOK, Repetitions
<1>3. SendingInv' /\ ReportedSceneIsOnAir'
  BY <1>1 DEF SendingInv, ReportedSceneIsOnAir
<1>4. LastRequestIsKept'
  BY DEF IInv, LastRequestIsKept
<1>. QED BY <1>2, <1>3, <1>4 DEF IInv

LEMMA NextKeepsInv == IInv /\ [Next]_vars => IInv'
<1>1. IInv /\ UNCHANGED vars => IInv'
  BY DEF vars, IInv, TypeOK, SendingInv, LastRequestIsKept, ReportedSceneIsOnAir
<1>. QED
  BY <1>1, CallbackKeepsInv, AdminKeepsInv, ListenKeepsInv, StartKeepsInv,
     RepeatKeepsInv, FinishKeepsInv DEF Next, Loop, Request

\* The invariant that the theorems about the scene control rest on.
THEOREM Invariance == Spec => []IInv
<1>1. Init => IInv
  BY InitHolds
<1>2. IInv /\ [Next]_vars => IInv'
  BY NextKeepsInv
<1>. QED BY <1>1, <1>2, PTL DEF Spec

\* Every variable of the scene control stays within its type.
THEOREM TypeCorrect == Spec => []TypeOK
<1>1. IInv => TypeOK
  BY DEF IInv
<1>. QED BY <1>1, Invariance, PTL

\* No interleaving of callbacks, admin requests and loop() loses the last request.
THEOREM LastRequestNeverLost == Spec => []LastRequestIsKept
<1>1. IInv => LastRequestIsKept
  BY DEF IInv
<1>. QED BY <1>1, Invariance, PTL

\* The current scene reported to the admin is the one the dimmer was told.
THEOREM ReportsWhatWasSent == Spec => []ReportedSceneIsOnAir
<1>1. IInv => ReportedSceneIsOnAir
  BY DEF IInv
<1>. QED BY <1>1, Invariance, PTL

\* A burst is sent for one scene from its first frame to its last.
THEOREM BurstIsUniform == Spec => BurstCarriesOneScene
<1>1. IInv /\ [Next]_vars
        => [step = "sending" /\ step' = "sending" => onAir' = onAir]_vars
  BY DEF IInv, SendingInv, Next, Loop, Request, WemoCallback, AdminSetScene, Listen,
         NothingToSend, StartSending, RepeatFrame, FinishSending
<1>. QED BY <1>1, Invariance, PTL DEF Spec, BurstCarriesOneScene

-----------------------------------------------------------------------------
\* The scene control implements SceneMailbox.

MailboxStep == [Mailbox!MailboxNext]_(Mailbox!mailbox)

LEMMA CallbackRefines ==
    ASSUME IInv, NEW device \in 0 .. DeviceCount - 1, WemoCallback(device)
    PROVE  MailboxStep
<1>1. device \in Scenes /\ device >= 0
  BY DEF Scenes, Requests
<1>2. Mailbox!Ask
  BY <1>1 DEF WemoCallback, Mailbox!Ask
<1>. QED BY <1>2 DEF MailboxStep, Mailbox!MailboxNext

LEMMA AdminRefines ==
    ASSUME IInv, NEW n \in AdminArgs, AdminSetScene(n)
    PROVE  MailboxStep
<1>1. n >= 0 => n \in Scenes
  BY DEF Scenes, Requests
<1>2. Mailbox!Ask
  BY <1>1 DEF AdminSetScene, Mailbox!Ask
<1>. QED BY <1>2 DEF MailboxStep, Mailbox!MailboxNext

LEMMA StartRefines == IInv /\ StartSending => MailboxStep
<1>. SUFFICES ASSUME IInv, StartSending PROVE MailboxStep
  OBVIOUS
<1>1. SCENE_TO_SET \in Scenes /\ SCENE_TO_SET # NoScene /\ NoScene < 0
  BY RequestsAreIntegers DEF IInv, TypeOK, StartSending, Scenes
<1>2. scene = NoScene
  BY DEF IInv, SendingInv, StartSending
<1>3. onAir' = [s \in Scenes |-> Command(s)][SCENE_TO_SET]
  BY <1>1 DEF StartSending
<1>4. Mailbox!TakeUp
  BY <1>1, <1>2, <1>3 DEF StartSending, Mailbox!TakeUp
<1>. QED BY <1>4 DEF MailboxStep, Mailbox!MailboxNext

\* A further frame shows the dimmer what it has seen.
LEMMA RepeatRefines == IInv /\ RepeatFrame => MailboxStep
BY DEF IInv, SendingInv, RepeatFrame, MailboxStep, Mailbox!mailbox

LEMMA FinishRefines == IInv /\ FinishSending => MailboxStep
<1>. SUFFICES ASSUME IInv, FinishSending PROVE MailboxStep
  OBVIOUS
<1>1. scene # NoScene
  BY RequestsAreIntegers DEF IInv, SendingInv, FinishSending
<1>2. Mailbox!Done
  BY <1>1 DEF FinishSending, Mailbox!Done
<1>. QED BY <1>2 DEF MailboxStep, Mailbox!MailboxNext

LEMMA NextRefines == IInv /\ [Next]_vars => MailboxStep
<1>1. Listen \/ NothingToSend \/ UNCHANGED vars => MailboxStep
  BY DEF Listen, NothingToSend, vars, MailboxStep, Mailbox!mailbox
<1>. QED
  BY <1>1, CallbackRefines, AdminRefines, StartRefines, RepeatRefines, FinishRefines
     DEF Next, Loop, Request

LEMMA InitRefines == Init => Mailbox!MailboxInit
BY DEF Init, Mailbox!MailboxInit, NoScene

\* Every step of callbacks, admin requests and loop() is a step of the mailbox
\* or nothing to it: a request is shown once, in full and uninterrupted.
THEOREM ScenesImplementMailbox == Spec => ImplementsMailbox
<1>1. IInv /\ [Next]_vars => [Mailbox!MailboxNext]_(Mailbox!mailbox)
  BY NextRefines DEF MailboxStep
<1>. QED
  BY <1>1, InitRefines, Invariance, PTL DEF Spec, ImplementsMailbox, Mailbox!MailboxSpec

-----------------------------------------------------------------------------
\* The device around the scene control.

USE PollLimitAssumption, CredentialsAssumption

\* The arrays of devices and handlers are filled in step, one entry per scene,
\* and only by a device that found its WiFi.
ArraysInv ==
    /\ Len(devices) \in 0 .. DeviceCount
    /\ devices = [i \in 1 .. Len(devices) |-> SceneName(i - 1)]
    /\ handlers = [i \in 1 .. Len(devices) |-> i - 1]
    /\ Len(devices) # 0 => isConnected
    /\ boot \in {"off", "connecting"} => Len(devices) = 0 /\ ~isConnected
    /\ boot = "off" => polls = 0
    /\ boot = "running" /\ isConnected => Len(devices) = DeviceCount

StartTypes ==
    /\ boot \in Boots
    /\ station \in BOOLEAN
    /\ stored \in Networks \cup {Factory, NotSetUp}
    /\ credentials \in Networks \cup {Factory, NotSetUp, Null}
    /\ polls \in 0 .. PollLimit + 1
    /\ isConnected \in BOOLEAN

DInv == IInv /\ StartTypes /\ ArraysInv

LEMMA DevicesAreNumbered ==
    ASSUME ArraysInv
    PROVE  DOMAIN devices = 1 .. Len(devices) /\ Len(devices) \in Nat /\ Len(devices) <= DeviceCount
<1>1. Len(devices) \in Nat /\ Len(devices) <= DeviceCount
  <2>1. Len(devices) \in 0 .. DeviceCount
    BY Zenon DEF ArraysInv
  <2>. QED BY <2>1
<1>2. devices = [i \in 1 .. Len(devices) |-> SceneName(i - 1)]
  BY DEF ArraysInv
<1>3. DOMAIN devices = 1 .. Len(devices)
  BY <1>2
<1>. QED BY <1>1, <1>3

\* The lookup by name ends at the device it began with, since no two scenes have
\* the same name.
LEMMA LookupFindsItself ==
    ASSUME ArraysInv, NEW d \in DOMAIN devices
    PROVE  HandlerOf(d) = d - 1
<1>. DEFINE Found(i) == devices[i] = devices[d] /\ \A j \in 1 .. i - 1 : devices[j] # devices[d]
<1>1. DOMAIN devices = 1 .. Len(devices) /\ Len(devices) \in Nat
  BY DevicesAreNumbered
<1>2. \A i \in 1 .. Len(devices) : devices[i] = <<"scene", i>>
  <2>. TAKE i \in 1 .. Len(devices)
  <2>1. devices[i] = SceneName(i - 1)
    BY DEF ArraysInv
  <2>2. i - 1 + 1 = i
    BY <1>1
  <2>. QED BY <2>1, <2>2 DEF SceneName
<1>3. \A i, j \in 1 .. Len(devices) : devices[i] = devices[j] => i = j
  BY <1>2
<1>4. Found(d)
  BY <1>1, <1>3
<1>5. \A i \in DOMAIN devices : Found(i) => i = d
  BY <1>1, <1>3
<1>6. (CHOOSE i \in DOMAIN devices : Found(i)) = d
  BY <1>4, <1>5
<1>7. handlers[d] = d - 1
  BY <1>1 DEF ArraysInv
<1>. QED BY <1>6, <1>7 DEF HandlerOf

LEMMA ArraysHaveTypes == ASSUME ArraysInv, IInv, StartTypes PROVE DeviceTypeOK
<1>1. TypeOK
  BY DEF IInv
<1>2. Len(devices) \in Nat /\ Len(devices) <= DeviceCount
  BY DevicesAreNumbered
<1>3. devices \in Seq({SceneName(n) : n \in 0 .. DeviceCount - 1})
  <2>1. \A i \in 1 .. Len(devices) : SceneName(i - 1) \in {SceneName(n) : n \in 0 .. DeviceCount - 1}
    BY <1>2
  <2>2. devices = [i \in 1 .. Len(devices) |-> SceneName(i - 1)]
    BY DEF ArraysInv
  <2>. QED BY <1>2, <2>1, <2>2
<1>4. handlers \in Seq(0 .. DeviceCount - 1) /\ Len(handlers) = Len(devices)
  <2>1. \A i \in 1 .. Len(devices) : i - 1 \in 0 .. DeviceCount - 1
    BY <1>2
  <2>2. handlers = [i \in 1 .. Len(devices) |-> i - 1]
    BY DEF ArraysInv
  <2>3. DOMAIN handlers = 1 .. Len(devices)
    BY <2>2
  <2>. QED BY <1>2, <2>1, <2>2, <2>3
<1>5. devices # <<>> => Enabled
  <2>1. Len(devices) = 0 => devices = <<>>
    BY <1>3
  <2>. QED BY <2>1 DEF ArraysInv, Enabled
<1>. QED BY <1>1, <1>2, <1>3, <1>4, <1>5 DEF DeviceTypeOK, StartTypes

LEMMA DInvImplies == DInv => DeviceTypeOK /\ SwitchesReachTheirScenes
<1>. SUFFICES ASSUME DInv PROVE DeviceTypeOK /\ SwitchesReachTheirScenes
  OBVIOUS
<1>1. DeviceTypeOK
  BY ArraysHaveTypes DEF DInv
<1>2. \A d \in DOMAIN devices : HandlerOf(d) = d - 1
  BY LookupFindsItself DEF DInv
<1>3. boot = "running" => Len(devices) = IF Enabled THEN DeviceCount ELSE 0
  BY DEF DInv, ArraysInv, Enabled
<1>. QED BY <1>1, <1>2, <1>3 DEF SwitchesReachTheirScenes

LEMMA DeviceInitHolds == DeviceInit => DInv
<1>. SUFFICES ASSUME DeviceInit PROVE DInv
  OBVIOUS
<1>1. IInv
  BY InitHolds DEF DeviceInit
<1>2. StartTypes
  <2>1. polls \in 0 .. PollLimit + 1
    BY DEF DeviceInit
  <2>2. station \in BOOLEAN /\ isConnected \in BOOLEAN
    BY Zenon DEF DeviceInit
  <2>. QED BY <2>1, <2>2, Zenon DEF DeviceInit, StartTypes, Boots
<1>3. ArraysInv
  <2>1. Len(<<>>) = 0 /\ <<>> = [i \in 1 .. 0 |-> SceneName(i - 1)] /\ <<>> = [i \in 1 .. 0 |-> i - 1]
    OBVIOUS
  <2>. QED BY <2>1 DEF DeviceInit, ArraysInv
<1>. QED BY <1>1, <1>2, <1>3 DEF DInv

\* Steps that leave the scene control alone.
LEMMA StandingStill == IInv /\ UNCHANGED vars => IInv'
BY DEF vars, IInv, TypeOK, SendingInv, LastRequestIsKept, ReportedSceneIsOnAir

LEMMA PowerOnKeepsInv == DInv /\ PowerOn => DInv'
<1>. SUFFICES ASSUME DInv, PowerOn PROVE DInv'
  OBVIOUS
<1>1. IInv'
  BY StandingStill DEF DInv, PowerOn
<1>2. StartTypes'
  BY DEF DInv, StartTypes, PowerOn, Boots, CredentialsAtConstruction
<1>3. ArraysInv'
  BY DEF DInv, StartTypes, ArraysInv, PowerOn
<1>. QED BY <1>1, <1>2, <1>3 DEF DInv

LEMMA PollKeepsInv == DInv /\ Poll => DInv'
<1>. SUFFICES ASSUME DInv, Poll PROVE DInv'
  OBVIOUS
<1>1. IInv'
  BY StandingStill DEF DInv, Poll
<1>2. StartTypes'
  BY DEF DInv, StartTypes, Poll, Boots
<1>3. ArraysInv'
  BY DEF DInv, StartTypes, ArraysInv, Poll
<1>. QED BY <1>1, <1>2, <1>3 DEF DInv

LEMMA AddDeviceKeepsInv == DInv /\ AddDevice => DInv'
<1>. SUFFICES ASSUME DInv, AddDevice PROVE DInv'
  OBVIOUS
<1>1. IInv'
  BY StandingStill DEF DInv, AddDevice
<1>2. StartTypes'
  BY DEF DInv, StartTypes, AddDevice
<1>3. ArraysInv'
  <2>. DEFINE n == Len(devices)
  <2>1. n \in Nat /\ n + 1 \in 0 .. DeviceCount
    BY DEF DInv, ArraysInv, AddDevice
  <2>2. devices \in Seq({SceneName(k) : k \in 0 .. DeviceCount - 1}) /\ handlers \in Seq(0 .. DeviceCount - 1)
        /\ Len(handlers) = n
    BY ArraysHaveTypes DEF DInv, DeviceTypeOK
  <2>3. devices' = [i \in 1 .. n + 1 |-> SceneName(i - 1)]
    <3>1. devices' = Append([i \in 1 .. n |-> SceneName(i - 1)], SceneName(n))
      BY DEF DInv, ArraysInv, AddDevice
    <3>. QED BY <3>1, <2>1
  <2>4. handlers' = [i \in 1 .. n + 1 |-> i - 1]
    <3>1. handlers' = Append([i \in 1 .. n |-> i - 1], n)
      BY DEF DInv, ArraysInv, AddDevice
    <3>. QED BY <3>1, <2>1
  <2>5. Len(devices') = n + 1
    BY <2>3, <2>1
  <2>. QED BY <2>1, <2>3, <2>4, <2>5 DEF DInv, ArraysInv, AddDevice, Enabled
<1>. QED BY <1>1, <1>2, <1>3 DEF DInv

LEMMA StartAdminKeepsInv == DInv /\ StartAdmin => DInv'
<1>. SUFFICES ASSUME DInv, StartAdmin PROVE DInv'
  OBVIOUS
<1>1. IInv'
  BY StandingStill DEF DInv, StartAdmin
<1>2. StartTypes'
  BY DEF DInv, StartTypes, StartAdmin, Boots
<1>3. ArraysInv'
  BY DEF DInv, StartTypes, ArraysInv, StartAdmin, Enabled
<1>. QED BY <1>1, <1>2, <1>3 DEF DInv

\* A request and a pass of loop() are steps of the scene control, the former
\* because a handler found by name queues the number of its own scene.
LEMMA RequestIsSceneRequest == DInv /\ DeviceRequest => [Next]_vars
<1>1. ASSUME DInv, NEW d \in DOMAIN devices, Switch(d) PROVE Next
  <2>1. HandlerOf(d) = d - 1
    BY <1>1, LookupFindsItself DEF DInv
  <2>2. d - 1 \in 0 .. DeviceCount - 1
    BY <1>1, DevicesAreNumbered DEF DInv
  <2>. QED BY <1>1, <2>1, <2>2 DEF Switch, Next, Request
<1>2. ASSUME NEW n \in AdminArgs, SetScene(n) PROVE Next
  BY <1>2 DEF SetScene, Next, Request
<1>3. ASSUME NEW c, Store(c) PROVE Next
  BY <1>3 DEF Store, Next, Loop
<1>. QED BY <1>1, <1>2, <1>3 DEF DeviceRequest

LEMMA RequestKeepsInv == DInv /\ DeviceRequest => DInv'
<1>. SUFFICES ASSUME DInv, DeviceRequest PROVE DInv'
  OBVIOUS
<1>1. IInv'
  BY RequestIsSceneRequest, NextKeepsInv DEF DInv
<1>2. StartTypes' /\ ArraysInv'
  <2>1. ASSUME NEW d \in DOMAIN devices, Switch(d) PROVE StartTypes' /\ ArraysInv'
    BY <2>1 DEF DInv, StartTypes, ArraysInv, Switch, startVars
  <2>2. ASSUME NEW n \in AdminArgs, SetScene(n) PROVE StartTypes' /\ ArraysInv'
    BY <2>2 DEF DInv, StartTypes, ArraysInv, SetScene, startVars
  <2>3. ASSUME NEW c \in Networks \cup {NotSetUp}, Store(c) PROVE StartTypes' /\ ArraysInv'
    BY <2>3 DEF DInv, StartTypes, ArraysInv, Store
  <2>. QED BY <2>1, <2>2, <2>3 DEF DeviceRequest
<1>. QED BY <1>1, <1>2 DEF DInv

LEMMA RunKeepsInv == DInv /\ Run => DInv'
<1>. SUFFICES ASSUME DInv, Run PROVE DInv'
  OBVIOUS
<1>1. IInv'
  BY NextKeepsInv DEF DInv, Run, Next
<1>2. StartTypes' /\ ArraysInv'
  BY DEF DInv, StartTypes, ArraysInv, Run, startVars
<1>. QED BY <1>1, <1>2 DEF DInv

LEMMA SurroundingsKeepInv == DInv /\ (StationChanges \/ PowerLoss) => DInv'
<1>1. ASSUME DInv, StationChanges PROVE DInv'
  <2>1. IInv'
    BY <1>1, StandingStill DEF DInv, StationChanges
  <2>. QED BY <1>1, <2>1 DEF DInv, StartTypes, ArraysInv, StationChanges
<1>2. ASSUME DInv, PowerLoss PROVE DInv'
  <2>1. IInv'
    BY <1>2 DEF PowerLoss, IInv, TypeOK, SendingInv, LastRequestIsKept, ReportedSceneIsOnAir,
                NoScene, NoFrame, Repetitions
  <2>2. StartTypes'
    <3>1. polls' \in 0 .. PollLimit + 1
      BY <1>2 DEF PowerLoss
    <3>2. station' \in BOOLEAN /\ isConnected' \in BOOLEAN
      BY <1>2, Zenon DEF DInv, StartTypes, PowerLoss
    <3>. QED BY <1>2, <3>1, <3>2, Zenon DEF DInv, StartTypes, PowerLoss, Boots
  <2>3. ArraysInv'
    <3>1. Len(<<>>) = 0 /\ <<>> = [i \in 1 .. 0 |-> SceneName(i - 1)] /\ <<>> = [i \in 1 .. 0 |-> i - 1]
      OBVIOUS
    <3>. QED BY <1>2, <3>1 DEF PowerLoss, ArraysInv
  <2>. QED BY <2>1, <2>2, <2>3 DEF DInv
<1>. QED BY <1>1, <1>2

LEMMA DeviceNextKeepsInv == DInv /\ [DeviceNext]_deviceVars => DInv'
<1>1. DInv /\ UNCHANGED deviceVars => DInv'
  <2>. SUFFICES ASSUME DInv, UNCHANGED deviceVars PROVE DInv'
    OBVIOUS
  <2>1. IInv'
    BY StandingStill DEF DInv, deviceVars
  <2>. QED BY <2>1 DEF DInv, StartTypes, ArraysInv, deviceVars, startVars
<1>. QED
  BY <1>1, PowerOnKeepsInv, PollKeepsInv, AddDeviceKeepsInv, StartAdminKeepsInv,
     RequestKeepsInv, RunKeepsInv, SurroundingsKeepInv DEF DeviceNext, Start

\* The invariant that the theorems about the device rest on.
THEOREM DeviceInvariance == DeviceSpec => []DInv
<1>. QED BY DeviceInitHolds, DeviceNextKeepsInv, PTL DEF DeviceSpec

\* Every variable of a device keeps its type, whenever it is started or stopped.
THEOREM DeviceTypeCorrect == DeviceSpec => []DeviceTypeOK
<1>. QED BY DeviceInvariance, DInvImplies, PTL

\* For any number of scenes: every one of them or none is emulated, and each
\* switch has the handler of its own scene.
THEOREM SwitchesAreWired == DeviceSpec => []SwitchesReachTheirScenes
<1>. QED BY DeviceInvariance, DInvImplies, PTL

\* The mailbox loses no request of the device's own switches, through any
\* restarts.
THEOREM DeviceLosesNoRequest == DeviceSpec => []LastRequestIsKept
<1>1. DInv => LastRequestIsKept
  BY DEF DInv, IInv
<1>. QED BY <1>1, DeviceInvariance, PTL

\* What the console is told is on the air, through any restarts.
THEOREM DeviceReportsWhatWasSent == DeviceSpec => []ReportedSceneIsOnAir
<1>1. DInv => ReportedSceneIsOnAir
  BY DEF DInv, IInv
<1>. QED BY <1>1, DeviceInvariance, PTL

\* A power loss ends a burst; nothing else in a device's life changes its code.
THEOREM DeviceBurstIsUniform == DeviceSpec => BurstCarriesOneScene
<1>. DEFINE Uniform == [step = "sending" /\ step' = "sending" => onAir' = onAir]_vars
<1>1. DInv /\ [Next]_vars => Uniform
  BY DEF DInv, IInv, SendingInv, Next, Loop, Request, WemoCallback, AdminSetScene, Listen,
         NothingToSend, StartSending, RepeatFrame, FinishSending
<1>2. DInv /\ DeviceRequest => Uniform
  BY <1>1, RequestIsSceneRequest
<1>3. DInv /\ Run => Uniform
  BY <1>1 DEF Run, Next
<1>4. PowerLoss => Uniform
  BY DEF PowerLoss
<1>5. Start \/ StationChanges \/ UNCHANGED deviceVars => Uniform
  BY DEF Start, PowerOn, Poll, AddDevice, StartAdmin, StationChanges, deviceVars
<1>6. DInv /\ [DeviceNext]_deviceVars => Uniform
  BY <1>2, <1>3, <1>4, <1>5 DEF DeviceNext
<1>. QED BY <1>6, DeviceInvariance, PTL DEF DeviceSpec, BurstCarriesOneScene

\* Starts leave the mailbox alone and a power loss is the only thing that makes
\* it forget, so the whole device is a mailbox.
THEOREM DeviceImplementsMailbox == DeviceSpec => ImplementsMailbox
<1>1. DInv /\ DeviceRequest => MailboxStep
  BY RequestIsSceneRequest, NextRefines DEF DInv
<1>2. DInv /\ Run => MailboxStep
  BY NextRefines DEF DInv, Run, Next
<1>3. PowerLoss => MailboxStep
  <2>1. PowerLoss => Mailbox!Forget
    BY DEF PowerLoss, Mailbox!Forget, Mailbox!MailboxInit, NoScene
  <2>. QED BY <2>1 DEF MailboxStep, Mailbox!MailboxNext
<1>4. Start \/ StationChanges \/ UNCHANGED deviceVars => MailboxStep
  <2>1. Start \/ StationChanges \/ UNCHANGED deviceVars => UNCHANGED vars
    BY DEF Start, PowerOn, Poll, AddDevice, StartAdmin, StationChanges, deviceVars
  <2>. QED BY <2>1 DEF vars, MailboxStep, Mailbox!mailbox
<1>5. DInv /\ [DeviceNext]_deviceVars => [Mailbox!MailboxNext]_(Mailbox!mailbox)
  BY <1>1, <1>2, <1>3, <1>4 DEF DeviceNext, MailboxStep
<1>6. DeviceInit => Mailbox!MailboxInit
  BY InitRefines DEF DeviceInit
<1>. QED
  BY <1>5, <1>6, DeviceInvariance, PTL DEF DeviceSpec, ImplementsMailbox, Mailbox!MailboxSpec

-----------------------------------------------------------------------------
\* What is left of a start until loop() runs, counted in steps.
StartLeft ==
    CASE boot = "running"    -> 0
      [] boot = "starting"   -> 1 + (DeviceCount - Len(devices))
      [] boot = "connecting" -> DeviceCount + 2 + (PollLimit + 1 - polls)
      [] boot = "off"        -> DeviceCount + PollLimit + 4

\* The step on which WifiInTimeServesAlexa rests: every step of setup() brings it
\* nearer to its end, and while the power stays on nothing sends it back or takes
\* the connection away that it found, which a test in time finds if the station
\* is up (PowerOn, WifiConnection::connect, startWemoServers, AdminServer::begin).
THEOREM StartComesToAnEnd ==
    DeviceSpec =>
        [][/\ Start => StartLeft' \in Nat /\ StartLeft' < StartLeft
           /\ boot # "off" /\ boot' # "off" =>
                 /\ StartLeft' <= StartLeft
                 /\ isConnected => isConnected'
           /\ boot = "connecting" /\ polls <= PollLimit /\ station /\ boot' # boot =>
                 isConnected' \/ boot' = "off"]_deviceVars
<1>. DEFINE Nearer == StartLeft' \in Nat /\ StartLeft' < StartLeft
            Forward == boot # "off" /\ boot' # "off" =>
                           StartLeft' <= StartLeft /\ (isConnected => isConnected')
            Joins == boot = "connecting" /\ polls <= PollLimit /\ station /\ boot' # boot =>
                         isConnected' \/ boot' = "off"
<1>. USE PollLimitAssumption
<1>1. ASSUME DInv, Start PROVE Nearer /\ Forward /\ Joins
  <2>. DEFINE size == Len(devices)
  <2>1. /\ size \in 0 .. DeviceCount /\ polls \in 0 .. PollLimit + 1 /\ DeviceCount \in Nat
        /\ boot \in {"off", "connecting"} => size = 0 /\ ~isConnected
        /\ boot = "off" => polls = 0
        /\ station \in BOOLEAN /\ isConnected \in BOOLEAN
    BY <1>1 DEF DInv, ArraysInv, StartTypes
  <2>2. CASE PowerOn
    BY <2>1, <2>2 DEF PowerOn, StartLeft
  <2>3. CASE Poll
    <3>1. boot = "connecting" /\ devices' = devices /\ isConnected' \in {isConnected, station}
      BY <2>3 DEF Poll
    <3>2. StartLeft = DeviceCount + 2 + (PollLimit + 1 - polls)
      BY <3>1 DEF StartLeft
    <3>3. CASE polls > PollLimit
      <4>1. boot' = "starting"
        BY <2>3, <3>3 DEF Poll
      <4>2. StartLeft' = 1 + DeviceCount
        BY <2>1, <3>1, <4>1 DEF StartLeft
      <4>. QED BY <2>1, <3>1, <3>2, <3>3, <4>2
    <3>4. CASE polls <= PollLimit /\ station
      <4>1. ~(polls > PollLimit)
        BY <2>1, <3>4
      <4>2. boot' = "starting" /\ isConnected' = station
        BY <2>3, <3>4, <4>1 DEF Poll
      <4>3. StartLeft' = 1 + DeviceCount
        BY <2>1, <3>1, <4>2 DEF StartLeft
      <4>4. isConnected'
        BY <3>4, <4>2
      <4>5. Nearer /\ (boot' # "off" => StartLeft' <= StartLeft)
        BY <2>1, <3>2, <3>4, <4>3
      <4>. QED BY <4>4, <4>5
    <3>5. CASE polls <= PollLimit /\ ~station
      <4>1. boot' = "connecting" /\ polls' = polls + 1
        BY <2>1, <2>3, <3>5 DEF Poll
      <4>2. StartLeft' = DeviceCount + 2 + (PollLimit + 1 - (polls + 1))
        BY <4>1 DEF StartLeft
      <4>. QED BY <2>1, <3>1, <3>2, <3>5, <4>1, <4>2
    <3>. QED BY <2>1, <3>3, <3>4, <3>5
  <2>4. CASE AddDevice
    <3>1. Len(devices') = size + 1
      BY <1>1, <2>4, ArraysHaveTypes DEF AddDevice, DInv, DeviceTypeOK
    <3>2. size < DeviceCount /\ boot = "starting" /\ boot' = boot /\ isConnected' = isConnected
      BY <2>4 DEF AddDevice
    <3>. QED BY <2>1, <3>1, <3>2 DEF StartLeft
  <2>5. CASE StartAdmin
    BY <2>1, <2>5 DEF StartAdmin, StartLeft
  <2>. QED BY <1>1, <2>2, <2>3, <2>4, <2>5 DEF Start
<1>2. ASSUME DInv, [Run \/ DeviceRequest \/ StationChanges \/ PowerLoss]_deviceVars
      PROVE  Forward /\ Joins
  <2>1. PowerLoss => boot' = "off"
    BY DEF PowerLoss
  <2>2. ASSUME ~PowerLoss PROVE UNCHANGED <<boot, polls, isConnected, devices>>
    BY <1>2, <2>2 DEF Run, DeviceRequest, Switch, SetScene, Store, StationChanges, startVars, deviceVars
  <2>3. StartLeft \in Int
    <3>1. boot \in Boots /\ polls \in 0 .. PollLimit + 1
      BY <1>2 DEF DInv, StartTypes
    <3>2. Len(devices) \in 0 .. DeviceCount
      BY <1>2 DEF DInv, ArraysInv
    <3>3. CASE boot \in {"running", "off"}
      BY <3>3 DEF StartLeft
    <3>4. CASE boot = "starting"
      BY <3>2, <3>4 DEF StartLeft
    <3>5. CASE boot = "connecting"
      BY <3>1, <3>5 DEF StartLeft
    <3>. QED BY <3>1, <3>3, <3>4, <3>5 DEF Boots
  <2>4. ASSUME ~PowerLoss PROVE StartLeft' = StartLeft
    BY <2>2, <2>4 DEF StartLeft
  <2>. QED BY <2>1, <2>2, <2>3, <2>4
<1>3. DInv /\ [DeviceNext]_deviceVars => [(Start => Nearer) /\ Forward /\ Joins]_deviceVars
  <2>. HIDE DEF Nearer, Forward, Joins
  <2>. QED BY <1>1, <1>2 DEF DeviceNext
<1>. QED BY <1>3, DeviceInvariance, PTL DEF DeviceSpec

-----------------------------------------------------------------------------
AtRest == SCENE_TO_SET < 0 /\ step # "sending"

\* What is left of loop()'s work until the device is at rest, counted in steps: a
\* waiting request is worth more than any burst.
LoopLeft ==
    LET waiting == IF SCENE_TO_SET >= 0 THEN 7 ELSE 0
    IN  CASE step = "sending" -> waiting + 1 + (Repetitions - framesSent)
          [] step = "listen"  -> IF SCENE_TO_SET >= 0 THEN 6 ELSE 0
          [] step = "check"   -> IF SCENE_TO_SET >= 0 THEN 5 ELSE 0

\* The step on which LastRequestGetsSent rests: a device at rest has shown and
\* reports the last request, each step of loop() brings it nearer to rest or leaves
\* it there, and only a new scene or a power loss gives it more to do: no setup, no
\* request that is taken back and no station that comes or goes.
THEOREM RequestsGetDone ==
    DeviceSpec =>
        /\ [](AtRest => currentScene = wanted /\ (wanted # NoScene => onAir = Command(wanted)))
        /\ [][/\ Run => \/ LoopLeft' \in Nat /\ LoopLeft' < LoopLeft
                        \/ AtRest /\ AtRest'
              /\ ~SceneRequest /\ ~PowerLoss => LoopLeft' <= LoopLeft /\ (AtRest => AtRest')]_deviceVars
<1>. DEFINE Nearer == LoopLeft' \in Nat /\ LoopLeft' < LoopLeft
            Stays == AtRest /\ AtRest'
            NoMore == LoopLeft' <= LoopLeft /\ (AtRest => AtRest')
<1>1. DInv => (AtRest => currentScene = wanted /\ (wanted # NoScene => onAir = Command(wanted)))
  BY RequestsAreIntegers
     DEF DInv, IInv, TypeOK, AtRest, LastRequestIsKept, ReportedSceneIsOnAir
<1>2. ASSUME IInv, Loop PROVE Nearer \/ Stays
  <2>1. /\ SCENE_TO_SET \in Int /\ framesSent \in 0 .. Repetitions /\ Repetitions = 3
    BY <1>2, RequestsAreIntegers DEF IInv, TypeOK, Repetitions
  <2>2. CASE Listen
    BY <2>1, <2>2 DEF Listen, LoopLeft, AtRest
  <2>3. CASE NothingToSend
    BY <2>1, <2>3 DEF NothingToSend, AtRest
  <2>4. CASE StartSending
    <3>1. LoopLeft = 5
      BY <2>4 DEF StartSending, LoopLeft
    <3>2. LoopLeft' = 3
      <4>1. SCENE_TO_SET' = -1 /\ framesSent' = 1 /\ step' = "sending"
        BY <2>4 DEF StartSending, NoScene
      <4>. QED BY <2>1, <4>1 DEF LoopLeft
    <3>. QED BY <3>1, <3>2
  <2>5. CASE RepeatFrame
    BY <2>1, <2>5 DEF RepeatFrame, LoopLeft
  <2>6. CASE FinishSending
    <3>1. /\ step' = "listen" /\ step = "sending" /\ framesSent = Repetitions
          /\ SCENE_TO_SET' = SCENE_TO_SET
      BY <2>6 DEF FinishSending
    <3>. QED BY <2>1, <3>1 DEF LoopLeft
  <2>. QED BY <1>2, <2>2, <2>3, <2>4, <2>5, <2>6 DEF Loop
<1>3. ASSUME DInv PROVE LoopLeft \in Int /\ (AtRest => LoopLeft = 0)
  <2>1. /\ SCENE_TO_SET \in Int /\ framesSent \in 0 .. Repetitions /\ Repetitions = 3
        /\ step \in {"listen", "check", "sending"}
    BY <1>3, RequestsAreIntegers DEF DInv, IInv, TypeOK, Repetitions
  <2>. QED BY <2>1 DEF LoopLeft, AtRest
<1>4. ASSUME DInv, UNCHANGED vars PROVE NoMore
  <2>1. LoopLeft' = LoopLeft /\ (AtRest => AtRest')
    BY <1>4 DEF vars, LoopLeft, AtRest
  <2>2. LoopLeft \in Int
    BY <1>3, <1>4
  <2>. HIDE DEF LoopLeft, AtRest
  <2>. QED BY <2>1, <2>2
<1>5. ASSUME DInv, Run PROVE (Nearer \/ Stays) /\ NoMore
  <2>1. Nearer \/ Stays
    BY <1>2, <1>5 DEF Run, DInv
  <2>2. LoopLeft \in Int /\ (AtRest => LoopLeft = 0)
    BY <1>3, <1>5
  <2>3. AtRest' => LoopLeft' = 0
    <3>1. SCENE_TO_SET' \in Int /\ step' \in {"listen", "check", "sending"}
      BY <1>5, RunKeepsInv, RequestsAreIntegers DEF DInv, IInv, TypeOK
    <3>. QED BY <3>1 DEF LoopLeft, AtRest
  <2>. HIDE DEF LoopLeft, AtRest
  <2>. QED BY <2>1, <2>2, <2>3
<1>6. ASSUME DInv, DeviceRequest, ~SceneRequest PROVE NoMore
  <2>1. /\ SCENE_TO_SET \in Int /\ SCENE_TO_SET' \in Int
        /\ framesSent \in 0 .. Repetitions /\ Repetitions = 3
        /\ step \in {"listen", "check", "sending"}
    BY <1>6, RequestKeepsInv, RequestsAreIntegers DEF DInv, IInv, TypeOK, Repetitions
  <2>2. CASE \E d \in DOMAIN devices : Switch(d)
    <3>1. PICK d \in DOMAIN devices : Switch(d)
      BY <2>2
    <3>2. SCENE_TO_SET' = d - 1 /\ d \in 1 .. Len(devices)
      BY <1>6, <3>1, LookupFindsItself, DevicesAreNumbered DEF DInv, Switch, WemoCallback
    <3>3. SCENE_TO_SET' >= 0
      BY <1>6, <3>2, DevicesAreNumbered DEF DInv
    <3>4. SCENE_TO_SET' = SCENE_TO_SET
      BY <1>6, <2>2, <3>3 DEF SceneRequest
    <3>. QED BY <2>1, <3>1, <3>4 DEF Switch, WemoCallback, LoopLeft, AtRest
  <2>3. CASE \E n \in AdminArgs : SetScene(n)
    <3>1. PICK n \in AdminArgs : SetScene(n)
      BY <2>3
    <3>2. SCENE_TO_SET' < 0 \/ SCENE_TO_SET' = SCENE_TO_SET
      BY <1>6, <2>1, <2>3 DEF SceneRequest
    <3>. QED BY <2>1, <3>1, <3>2 DEF SetScene, AdminSetScene, LoopLeft, AtRest
  <2>4. CASE \E c \in Networks \cup {NotSetUp} : Store(c)
    BY <2>1, <2>4 DEF Store, Listen, LoopLeft, AtRest
  <2>. QED BY <1>6, <2>2, <2>3, <2>4 DEF DeviceRequest
<1>7. DInv /\ [DeviceNext]_deviceVars =>
          [/\ Run => Nearer \/ Stays
           /\ ~SceneRequest /\ ~PowerLoss => NoMore]_deviceVars
  <2>1. Start \/ StationChanges => UNCHANGED vars
    BY DEF Start, PowerOn, Poll, AddDevice, StartAdmin, StationChanges
  <2>2. ASSUME DInv, Run PROVE (Nearer \/ Stays) /\ NoMore
    BY <1>5, <2>2
  <2>3. ASSUME DInv, ~Run, Start \/ StationChanges PROVE NoMore
    BY <1>4, <2>1, <2>3
  <2>. HIDE DEF Nearer, Stays, NoMore
  <2>. QED BY <1>6, <2>2, <2>3 DEF DeviceNext
<1>. QED BY <1>1, <1>7, DeviceInvariance, PTL DEF DeviceSpec

=============================================================================
