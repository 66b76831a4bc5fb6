# A formal model of the FutronixAlexa firmware

FutronixAlexa makes a Futronix light dimmer, which is controlled by infrared,
listen to Amazon's Alexa. An ESP8266 pretends to be a handful of Wemo switches, one
per light scene; when Alexa switches one, the chip sends the infrared command of that
scene. A small web server on the chip and an Android app are there to administer it. A
second firmware, on FreeRTOS, is an experiment with Amazon's MQTT service.

This directory holds TLA+ modules translated from that code, TLC configurations that
check them, and proofs for TLAPS. `PROJECT.json` maps each definition to the lines it
stands for.

## Inventory

### The ESP8266 firmware (`src/FutronixESP8266`)

Everything runs in one thread: the sketch's `setup()` and `loop()`. The network stack's
callbacks run when that thread yields, that is between two passes of `loop()`, in
`delay()` and while the web server waits for its client.

| Component | State | Operations | Made correct by |
|---|---|---|---|
| Settings store (`EEPROMInterface.h`, `EEPromDatabase.h`, `Database.h`) | 8 records of 50 bytes, in one flash sector and in program memory | begin, get and set a record, clear, save, has it been set up | a cut write is never taken for a whole store; memory is not stale when it is saved |
| Facade (`FutronixESP8266.h`) | current scene | begin, setup, scene names, rename, set scene, queue scene | factory settings only on a store that is not set up |
| Admin server (`AdminServer.h`) | UDP buffer | eight HTTP handlers, a UDP reply for discovery | every handler has the effect its name says |
| Sketch (`FutronixESP8266.ino`) | `SCENE_TO_SET`, a mailbox for one scene | `loop()`: emulation, web server, send what is in the mailbox | the last request is not lost |
| Commands (`CommandInterface.h`, `SceneCallbackHandler.h`) | table of 20 codes | scene to code | |
| Transmitter (`IRTransmitter.h`) | none between calls | send a code in three frames | the frames carry the code |
| Wemo emulation (`WemoEmulator.h`, `Fauxmo.h`) | devices, rounds left, turn, addressee, TCP client slots | answer a search in rounds, serve setup.xml, a switch's POST | every device is announced often enough, and no longer than needed |
| WiFi (`WifiConnection.h`) | credentials, connected or not | connect once | a network that comes up in time is used; the stored credentials are |
| TCP library (`libraries/ESPAsyncTCP`, as `Fauxmo.h` uses it) | the connection of a client | callbacks, close | a closed connection is given up once, at a later poll |

Interactions: the web server and the emulation write `SCENE_TO_SET`, by a call and by
a callback; `loop()` reads it. The web server's other handlers work on the store, at
once and in `loop()`'s thread. `begin()` waits for the WiFi some seconds at most; only if it
is there by then are the Wemo devices added, while the admin server is started in any case.

What is hard: power may fail in any instruction of a commit; a setup that clears the
database commits twice; callbacks run in the middle of a burst of frames; search
packets, fetches and lost responses come in any order; a network may come up while the device
is about to give up on it.

### The RTOS firmware (`src/RTOS/futronix-alexa-rtos`)

Three FreeRTOS tasks (`aws_iot.c`): `wifi_task` keeps `wifi_alive`, `mqtt_task` opens
a TLS connection (`ssl_connection.c`), subscribes and polls, `beat_task` once published.
`ssl_reset` goes from the read and write callbacks to the polling loop. What is hard: the
flag of one task read by another at any time, a connection that drops in each phase of
being opened, and contexts that have to be freed on every path. `irsend/` has another
version of the infrared code, not built into the firmware yet.

### The Android console (`src/AndroidConsole`)

Finds the chip by a UDP broadcast (`UdpBroadcast`, `UdpBroadcastTask`) and calls the admin
server's routes (`ApiInterface`); both write one `Device` in `Global`, which the screens clear.
What is hard: the timer of a search closes the socket under the receiver and sets the field to
null while the other thread may be between its test and its use, OkHttp brings answers on threads of
its own, and nothing is locked.

As written the app does not get past its first screen. `PresenterBase.getFormValue` looks
its key up with `Hashtable.contains`, which tests values (`PresenterBase.java:31`), so
`getContext()` is null and `UdpBroadcast.getBroadcastAddress` throws a
`NullPointerException` in the discovery task (`UdpBroadcast.java:113`), which only handles
`IOException`. `LocalStorage.initialize` is never called, so no address is restored either.
`getSceneAsync` asks for `getScene`, a route the server lacks (`ApiInterface.java:217`).

### Left out for good

`AwsManager.h` (created, never started), `WemoServer.h` (superseded), `LEDOutput.h` and
`debug.h` (output), `RTOS/.../build` (generated) and the vendored `libraries/`: by lines
most of the repository is `aws_sdk-arduino`, `MQTTClient`, `arduinoWebSockets` and
`aws-mqtt-websockets`, which serve only `AwsManager` and which no execution of the firmware
reaches. That is why the map, which covers nearly all of the project's own logic, covers only a small
share of the repository's lines. Of `ESPAsyncTCP`, which the firmware does run, the life of
a connection as `Fauxmo` sees it is modelled.

## Modules

| Module | Models |
|---|---|
| `StoreLayout` | the records and contents of the settings store |
| `SceneStore` | abstract: what the store promises its callers |
| `Database` | the store's code, its callers and power losses; implements `SceneStore` |
| `SceneMailbox` | abstract: what a device promises those who ask it for scenes |
| `SceneControl` | from Alexa's or the console's request through the mailbox to the burst; implements `SceneMailbox` |
| `Device` | from power-on through WiFi and devices to requests, and power loss; extends `SceneControl` |
| `FutronixFrame` | the frames of one command |
| `FauxmoDiscovery` | search, rounds of responses and fetches |
| `FauxmoClients` | TCP client slots, the requests of a connection and its end |
| `RecordTexts` | abstract: a table of texts, stored and cached |
| `EepromRecords` | the bytes of the store's records; implements `RecordTexts` |
| `RtosTasks` | the WiFi and MQTT tasks of the RTOS firmware |
| `Console` | the console's searches, their timers, HTTP calls and the main thread |
| `DatabaseProofs`, `DeviceProofs`, `FutronixFrameProofs`, `FauxmoDiscoveryProofs`, `FauxmoClientsProofs`, `EepromRecordsProofs`, `RtosTasksProofs`, `ConsoleProofs` | the theorems |
| `MC...` | the instances TLC checks |

**Database.** `flash` is the sector, `mem` is `EEPROMDatabase::_entries`. Each request is
an action that ends where its commit erases the sector; `ProgramRecord` then programs
one record after the other, and `FinishClear` and `FinishSave` return. `SetupAfterClear` is
the second half of a clearing setup. `PowerLoss` may come between any two of these.
`getEntry` re-reads the flash on each access because nothing ever sets `initialized`
(`Refresh`). The index just past the last record is let through by the code's bound
check; what happens there is undefined and is modelled as a choice of nothing or of
any record. The EEPROM library is not part of the repository; it is taken to erase and
program the sector at every commit, from address 0 upward, the erase being one step.

**SceneStore.** One variable for what is stored, replaced in one step by each request; only
during a write can a power loss hurt it, and what that leaves is the first records and
erased ones. `Database` maps `store` to the content being written while it is written, and
`last` to what the next save starts from.

**SceneControl.** The actions run from one yield to the next: the web server, the test of the
mailbox with the first frame, each further frame, the return. `wanted` is a history
variable, the scene the device was last asked for. A negative number in `setScene`
empties the mailbox.

**SceneMailbox.** One scene can wait, one be shown and one be reported. A burst is a single
showing: `TakeUp` is `StartSending`, the first frame, the frames after it change nothing,
and `Done` is `FinishSending`. `waiting` is `SCENE_TO_SET` unless that is negative, `busy` is
`loop()`'s local variable, `reported` is `_currentScene` and `shown` what was last on the air.
`Forget` is a power loss of `Device`. The mailbox may be emptied by a request; that nothing
else empties it is `LastRequestIsKept`.

**Device.** `boot` is how far `setup()` has got: `PowerOn` is the constructor and `begin()` up to
`connect()`, which yields in its `delay()`; each `Poll` is what `connect()` does after
one; `AddDevice` and `StartAdmin` follow. `begin()` also yields in the `delay()` of `EEPROMInterface::doRead`,
but nothing listens yet. `station` is `WiFi.status() == WL_CONNECTED` and changes
at any time. `stored` reduces the store to the credentials it would hand out; `credentials`
are those `WifiConnection` was constructed with, which are null since the store is not open yet, so
that the only network a device can join is one its SDK remembers. `devices` and `handlers` are
the arrays of `Fauxmo` and `WemoEmulator`; `HandlerOf` is the callback's search by name.
Requests and `loop()` are those of `SceneControl`. A power loss clears everything but the store,
and the history variables start again with the device. `SceneRequest` is a step that puts a scene
into the mailbox which was not waiting there. `LastRequestGetsSent` supposes that these come to an
end, and not all requests: an idle pass of the web server is the same step as a `setScene(-1)` on an
empty mailbox or a setup that stores what is stored, and a device on its network makes such
passes for ever.

**FutronixFrame.** A frame is the sequence of the times from a mark to the next, in units of
the protocol's interval. `LoopCounter` chooses between the two versions of the code.
A read past the array of bits, in the RTOS version, may find anything.

**FauxmoDiscovery.** The turns of a search are numbered through all rounds. `HandleSearch` may
come at any time from any controller, with the response interval over or not; `fetches` holds the
controllers that have heard of a device and have not yet asked for its `setup.xml`.

**FauxmoClients.** An action is one callback of the TCP library. `link` is how far a
connection has got; `connected()` is true until the library gives the connection up, which
after `close()` happens at a later poll. `script` and `read` are what the peer sends and how
much of it has arrived, `answers` and `switched` histories. The array of slots is not
initialised by the code: a slot may start with a stray pointer that reads as connected (a
crash on testing it would be a restart). Each connection is an `AsyncClient` of its own, since
the code never deletes one that got a slot. The acknowledgement timeout is left out: only
answered connections could meet it, and those are closed first. What a switch callback does
is in `SceneControl` and `Device`, what a fetch of `setup.xml` does in `FauxmoDiscovery`.

**EepromRecords.** `sector` and `data` are bytes. `CString` is what `setData` finds when it reads a
record, an unterminated one included; `DoWrite` has the two writes of an empty text.
A commit is one step here; cut commits are `Database`'s subject. `RecordTexts` sees only texts, and
changing one record changes no other there: cuts and terminators keep records apart. The bytes keep
that promise as long as `setEntry(..., true)` is not given the empty text, which truncates
the first record whichever record was meant; `SavedTexts` are the texts it is given, in `records` all but the empty
one. Nothing in the firmware calls `setEntry`. Entries are taken to start with a null `_data`: they come from `malloc` unconstructed,
and any other value makes `setData` write to an arbitrary address.

**RtosTasks.** `station` is what the SDK would report now, `status` what `wifi_task` last read.
`wifiStep` and `mqttStep` are where the tasks are; each step has at most one access to something
the other task or the network changes, since the scheduler may switch anywhere. `broken` is a TCP
connection lost for good; it is `Dead` as well while the station is down, from which a short
loss recovers. `TlsError` is a read or write callback on a dead connection, which sets
`ssl_reset` unless it only timed out. `contexts` counts what `ssl_init` made. `beat_task` changes
nothing (its publishing is commented out) and the publish queue stays empty. The TLS and MQTT
libraries are external and modelled by how the code uses them.

**Console.** Four kinds of threads: the one that runs the searches (`pc`), the timer of each search
(`timerPc`), OkHttp's, which move a call from `flying` to `handled` and `told`, and the main
thread (`Call`, `Clear`). An action is one access to what they share; `Device.found` and
`Device.clear` take three. `socket` is the Java object, `forgotten` that the timer has set the
field to null; `NullPointer` is the use of the field after that, which ends the app.
`lost` is a call without an address, whose exception is caught and tells nobody. Searches
are given the `Context` they need and the main thread may do in any order what the presenters do,
since the app as written does not get that far. `getStatus`, the synchronous call, has no caller.

## Runs

| Run | Question | Bounds |
|---|---|---|
| `database` | is a cut write ever taken for a whole store, does memory go stale, is the store atomic, does a device that keeps its power start up | 2 scenes (5 records), 2 texts, scene numbers 0 to one beyond the undefined index |
| `database_clear_names`, `database_rename_index` | two comments the code does not keep | the same |
| `device` | is the device a mailbox for one request; are requests lost, mixed up, reported wrongly, over starts and power losses; is the last one sent; does each switch reach its scene; does a network in time bring all devices | 2 scenes, admin numbers -1, 0, 19, 20 and 255, `PollLimit` 2, 2 networks |
| `wifi_credentials` | does the device join with the credentials it holds | the same |
| `frame` | do the frames carry the code, three times alike | all 64 codes of six bits |
| `frame_rtos` | does the RTOS version send six bits | the same; stops at the seventh |
| `fauxmo` | are devices announced in turn, often enough and not too often; does the device fall silent before somebody knows each of its devices; does a search find all of them | 3 devices, 2 controllers, 3 tries, 1 loss |
| `fauxmo_clients` | do clients keep their slots, are they refused, answered and hung up on rightly | 2 slots, 3 connections, 5 kinds of requests |
| `records` | does the copying of bytes amount to storing texts | 2 records of 3 bytes, texts of 0 to 3 characters, the empty one not saved by `setEntry`, 2 leftover bytes |
| `rtos` | do sessions last and come back, are contexts freed | 2 retries |
| `console` | do searches end and clean up, when does the app crash, are calls called back | 2 searches, 1 call of any of 4 kinds |

`device` checks every property of `SceneControl` on the whole life of a device, so that
`SceneControl` has no run of its own.

Two scenes and two texts let a rename change one record, keep another and be undone;
more only repeat the same cases, and the theorems hold for all numbers. Three devices let one
be fetched on either side of the one whose turn it is. One lost response against three
tries is the limit of `SearchFindsAll` and `EveryDeviceIsHeardOf`: with two tries they fail, because the
round at the random start is a partial one. With two slots and three connections a client
can be refused, and a slot be given to a second client after the first has gone. Records of three
bytes hold texts that leave them empty, half full, full and that have to be cut, and the
two records are each other's neighbours. Two retries let `wifi_task` connect before they are used
up, and after. Two polls let a network come up before the first, between them and after
the last. The admin numbers are the one that empties the mailbox, both ends of the table of
codes and two beyond it. Two searches let the timer of
one fire during the other. Bounds made only for checking are `MaxLosses`, `Leftovers` (what a buffer from
`malloc` may hold) and `SomeTexts`; the number of `Clients` bounds the connections of a run.

Fairness: `database` and `device` assume that the processor goes on with what it has
begun: `delay()` returns, `setup()` goes on and `loop()` is called again (weak fairness of
the code's own steps, never of requests, of the network or of power losses).
`fauxmo` assumes that `loop()` goes on calling `handle()`, that the interval between
responses ends, and that a controller sooner or later fetches what it has heard of.
`fauxmo_clients` assumes that what a peer sends arrives and that the
library polls, but not that any peer ever closes. `rtos` assumes that both tasks are
scheduled and their calls return: a read on a dead connection ends with an error or, at the
latest, with the end of the keep-alive interval. `console` assumes that threads run on, that timers
fire and that OkHttp gives up calls that get no answer; no packet need ever arrive. Liveness is
claimed for behaviours in which power losses, requests (new scenes, for `device`), searches or
breaks of the network come to an end, except in `console` and `WifiInTimeServesAlexa`, which need none of that.

`CHECK_DEADLOCK FALSE` in three configurations: `MCFauxmoClients` is over when all its connections
are gone, `MCFutronixFrame` when `sendFutronix` returns, and in `MCConsole` an app
that has crashed stops.

## Disagreements with comments

* `clearSceneNames` "clears EEPROM DB of scene names" (`FutronixESP8266.h:71`), but the
  credentials and the magic word go as well, so the next start is a factory setup.
* `renameScene` "renames the specified scene" (`FutronixESP8266.h:76`), but takes numbers
  past the last scene and overwrites the credentials.
* `WifiConnection` "Connects to the Wifi." (`WifiConnection.h:16`), and `setup` stores "wifi name &
  passwd" (`FutronixESP8266.h:167`), but the constructor asks for the credentials before the store
  is open (`FutronixESP8266.h:109`), gets null pointers and keeps them: what is stored is never used.
* The RTOS `sendFutronix` says "command 6 bits" (`irsend/futronix.h:61`), but its loop
  counter is unsigned and the loop never ends.
* `setEntry` "Writes a single record to EEPROM." (`EEPromDatabase.h:90`), but for the empty text
  `doWrite` puts a second terminator at `dbIndex+1` with `dbIndex` still 0
  (`EEPROMInterface.h:164-185`), which is in the first record. Nothing in the firmware calls `setEntry`, so this has
  no run of its own: with `SavedTexts <- SomeTexts` in `MCEepromRecords.cfg` TLC finds `ImplementsTexts`
  violated by the first such call, and `DamageIsLimited` says how far the damage goes.

## Proofs

All theorems hold for every value of the constants under the assumptions named in the
modules, among them at least one scene, a magic word and an erased pattern that no request
carries, and texts whose characters are not the terminator.

`DatabaseProofs`. `MagicWordMarksWholeStore` is not inductive: it says nothing of the record
that is programmed next. `IInv` adds two parts. `SectorInv`: while the sector is programmed, the
flash is `Torn(Buffer, written)`, the first records of the content and erased ones; when idle
it equals memory or is blank; between the commits of a clearing setup both are blank; and a
store that is set up is whole. `MemoryInv`: memory under a save carries the magic
word; memory is whole when idle or saving; a setup is pending exactly when one was begun. The word
is in the last record, so whichever prefix a power loss leaves lacks it. Refinement, the
life of the set-up store and the forgetting of names follow action by action from `IInv`.
`WorkComesToAnEnd` is the ranking under `StartsUp`: records still to be programmed, and the
phases to follow.

`DeviceProofs`, first part: the scene control by itself. The invariant relates mailbox, local
variable and history; while sending it ties the code on the air to the local variable, which
otherwise holds no scene. Each frame keeps it. With it every step is a step of `SceneMailbox`
or leaves it alone: that `loop()` holds nothing when it takes up a request, and that a repetition
puts on the air what is there already, are the two facts the refinement needs.
`BurstCarriesOneScene` is proved as well; no run lists it, since `ImplementsMailbox` covers it.

Second part: the device. `DInv` is the first part's invariant with two more for the start: `StartTypes`, and
`ArraysInv`, that entry i of both arrays is scene i-1, that they have grown in step, only while
connected and in full before the device runs. Names differ, so the first device of a name is the
only one. Steps of the start leave the scene control alone and its own steps keep the arrays, so
its lemmas are cited as they are, those of the refinement too; a power loss leads back to its initial
values, which is `Forget` in the mailbox. Two rankings end the module: `StartLeft`, the devices and polls
that are left of a start, and `LoopLeft`, in which a waiting request weighs more than any burst: each step of `loop()` lessens it
or finds the device at rest, and only a new scene or a power loss adds to it.

`FutronixFrameProofs`. `FrameOf` is the frame of a code in closed form. `FrameInv`: what was sent of
a frame is the beginning of `FrameOf(command)`, how much of it follows from the part and the counter,
`bitPosition` is `10 - n` in the command, and all frames before are whole. The lemmas say that
six bits tell codes apart, that only the ends of a frame are long, and that its ones are odd in
number, by a bijection from the bits to the gaps. The theorems assume `LoopCounter = "int"`, the
version of the ESP8266; with `uint8_t` they are false, as `frame_rtos` shows.

`FauxmoDiscoveryProofs`. `AnnouncedInTurn` does not say how often a device was announced; `RoundsInv` does:
the turns passed since the search started are so many for each device, and a device that is not
fetched was announced once in each of them, less the one turn it missed if it comes
before the device the search started with. A fetched device was announced at most that often. `NextTurn` is shown to exist and to be
unique, and then all turns it passes over belong to fetched devices. `EveryDeviceIsHeardOf` needs
what controllers know besides: `HeardInv` says that somebody knows a fetched device, and that a device which
is not fetched is known to the controller that searched last, or on its way to it, or was announced
no more often than packets were lost. With `GivesUpAfterTries` that leaves no device unheard of.
`RoundsRunOut` is the ranking under `SearchFindsAll`: `handle()` moves on to a later turn whenever it acts.

`FauxmoClientsProofs`. `ConnectedKeepSlots` with types is inductive: a slot is given away only if
its client is not connected, so it is not the slot of a connected one. For `HangsUpWhenDone`
the invariant `HandledInv` adds that a connection still open has no answer, that one with nothing
read has none either, and that a switch request read first was carried out.
`RefusedOnlyWhenFull` counts clients against slots; `SlotsInv` makes slots in use and
connected clients that were served correspond one to one, and a bijection keeps cardinality.
`HandledInv` also says that a first segment that gets answers has got one once it was read, which makes
`FirstSegmentDecides`: such a client is being closed.

`EepromRecordsProofs`. Lemmas on bytes first: the first zero is unique, the ranges of two records are
apart, `SetData` cuts and terminates, and a text written over anything is the text read back. With them
each action on bytes is a step of `RecordTexts` on the texts that `Stored` and `Cached` read out, but for
saving the empty text, which is `Spills`. So `RecordsHoldTexts` supposes that the empty text is not
among `SavedTexts`, and `DamageIsLimited`, which supposes nothing, says that `Spills` is the worst
that can happen: the record meant is emptied and the first one cut to its first character.

`RtosTasksProofs`. `HealthySessionStays` needs `ResetIsOfThisConnection`: in a session `ssl_reset` means
that this connection is broken, and before the first call of the MQTT library it is not set. The rankings
are `RoundLeft` of `wifi_task` and `PassLeft` of `mqtt_task`; in a session `ssl_reset` is what a failing
poll uses up. `PassLeft` stays as it is in the handshake of a dead connection, where no step is possible.

`ConsoleProofs`. `SearchInv` relates, for each search alone, where its two threads are to the timer,
the socket and the field: a timer runs only once there is a socket and sets the field to null only
after closing it, from the receiver's last steps on the timer is cancelled, and a socket is still
open after a failure only if it could not send. A crash is then the use of a field that the timer has
set to null and nothing else. `WaitingIsGuarded` is the safety half of `NothingWaitsForEver`: the socket a search
waits on is closed, or its timer is set and still before the closing of it. It needs that the timer
is set before the socket is opened, and that it stops itself only after closing the socket.

Only model-checked is liveness, which the prover cannot reach: `StartsUp`, `LastRequestGetsSent`,
`WifiInTimeServesAlexa`, `SearchFindsAll`, `SlotsComeFree`, `Reconnects`, `RestsWithoutWifi`,
`WifiAliveFollowsStation` and `NothingWaitsForEver`. For each of them a theorem states the safety half:
`WorkComesToAnEnd`, `RequestsGetDone`, `StartComesToAnEnd`, `RoundsRunOut`, `FirstSegmentDecides`,
`PassesComeToAnEnd` (for two), `WifiTaskComesRound` and `NobodyWaitsUnguarded`. Every invariant, action property and refinement
that a passing run checks is proved.

## Plan

Done, in this order: the settings store with its abstract specification and proofs; scene
requests; frames; discovery; the RTOS tasks; TCP clients; the bytes of records; the start of the
device; the console; proofs for all of them; the abstract mailbox. What is left:

1. The segments of one client in `FauxmoClients` as a ranking, as for the other components.
2. The console's presenters and activities, once the app gets past its first screen.

## Not modelled

The microsecond timing of marks and the wrap of the microsecond timer; formats of HTTP, XML and
JSON; texts as characters, except in `EepromRecords` (elsewhere a text is an opaque value,
already cut to a record's size); the heap, and so the clients that `free()` leaks.

`replaceDevice` and `getStatus` have no callers. Of `ESPAsyncTCP` only what `Fauxmo` uses
is modelled, not its buffers and windows. The console's presenters, activities and
`LocalStorage` are reduced to a main thread that makes calls and clears the device in any order. What the
microcontroller does when memory it does not own is read or written is left out unless it has an
outcome the program can see (the stray index of a rename, the stray client slots).

`AwsManager` and the libraries under it, `WemoServer`, the LED and the debug output are never
executed or have no state that matters, as said in the inventory.
