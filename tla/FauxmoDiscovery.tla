-------------------------- MODULE FauxmoDiscovery --------------------------
(***************************************************************************)
(* How Alexa finds the emulated Wemo devices (Fauxmo.h).  A controller     *)
(* multicasts an M-SEARCH packet.  The device answers with one UDP         *)
(* response for each of its emulated devices, in several rounds and one    *)
(* response at a time, from a device picked at random onward.  A           *)
(* controller that hears of a device fetches its setup.xml over TCP, which *)
(* takes the device out of the remaining rounds.                           *)
(*                                                                         *)
(* A search packet that is lost does nothing, so a search is the action    *)
(* that reads it.  A response is lost or reaches its controller, which     *)
(* sooner or later fetches the setup.xml; the time both take is the time   *)
(* the fetch is on its way.                                                *)
(***************************************************************************)
EXTENDS Integers, FiniteSets

CONSTANTS
    DeviceCount,    \* emulated devices, 5 in the firmware
    Controllers,    \* whoever searches for devices
    Nobody,         \* _remoteIP before the first search
    Tries,          \* UDP_RESPONSES_TRIES, 5 in the firmware
    MaxLosses       \* bound on the packets the network loses

ASSUME DeviceAssumption == DeviceCount \in Nat \ {0} /\ Tries \in Nat \ {0}
ASSUME NobodyAssumption == Nobody \notin Controllers
ASSUME MaxLossesAssumption == MaxLosses \in Nat

Devices == 0 .. DeviceCount - 1

VARIABLES
    hit,            \* per device: its setup.xml was fetched
    roundsLeft,
    current,        \* the device whose turn it is
    remote,         \* _remoteIP and _remotePort
    fetches,        \* GET /setup.xml requests on their way
    known,          \* devices each controller has fetched
    sent,           \* history: responses sent for each device since the search
    losses          \* packets lost so far

vars == <<hit, roundsLeft, current, remote, fetches, known, sent, losses>>

TypeOK ==
    /\ hit \in [Devices -> BOOLEAN]
    /\ roundsLeft \in 0 .. Tries
    /\ current \in Devices
    /\ remote \in Controllers \cup {Nobody}
    /\ fetches \subseteq Controllers \X Devices
    /\ known \in [Controllers -> SUBSET Devices]
    /\ sent \in [Devices -> 0 .. Tries]
    /\ losses \in 0 .. MaxLosses

Init ==
    /\ hit = [d \in Devices |-> FALSE]
    /\ roundsLeft = 0
    /\ current = 0
    /\ remote = Nobody
    /\ fetches = {}
    /\ known = [c \in Controllers |-> {}]
    /\ sent = [d \in Devices |-> 0]
    /\ losses = 0

-----------------------------------------------------------------------------
\* The turns of one search are numbered 0 .. LastTurn - 1, Tries rounds of one
\* turn per device; roundsLeft and current say which turn is next.

LastTurn == Tries * DeviceCount
TurnOf(rounds, cur) == (Tries - rounds) * DeviceCount + cur
DeviceAt(turn) == turn % DeviceCount

\* The first loop of nextUDPResponse: the next turn of a device not yet fetched.
NextTurn(hits, turn) ==
    CHOOSE u \in turn .. LastTurn :
        /\ u = LastTurn \/ ~hits[DeviceAt(u)]
        /\ \A v \in turn .. u - 1 : hits[DeviceAt(v)]

\* Mutant: the turn wraps one device too late.
TakeUpWrappingLate(turn) ==
    /\ roundsLeft' = Tries - turn \div DeviceCount
    /\ current' = turn % (DeviceCount + 1)

\* What handle() leaves behind when the next turn is "turn".
TakeUpAt(turn) ==
    /\ roundsLeft' = Tries - turn \div DeviceCount
    /\ current' = turn % DeviceCount

\* sendUDPResponse: the controller hears of the device, or the packet is lost.
SendUDPResponse(to, d) ==
    \/ /\ fetches' = IF d \in known[to] THEN fetches ELSE fetches \cup {<<to, d>>}
       /\ UNCHANGED losses
    \/ /\ losses < MaxLosses
       /\ losses' = losses + 1
       /\ UNCHANGED fetches

\* Mutant: a device whose turn comes is not asked whether it was fetched.
AnswerAnyway(hits, turn, to, counts) ==
    /\ turn < LastTurn
    /\ SendUDPResponse(to, DeviceAt(turn))
    /\ sent' = [counts EXCEPT ![DeviceAt(turn)] = @ + 1]
    /\ TakeUpAt(turn + 1)

\* Mutant: the rounds end with the first device found fetched.
StopAtFetched(hits, turn, to, counts) ==
    IF ~hits[DeviceAt(turn)]
    THEN /\ SendUDPResponse(to, DeviceAt(turn))
         /\ sent' = [counts EXCEPT ![DeviceAt(turn)] = @ + 1]
         /\ TakeUpAt(turn + 1)
    ELSE /\ UNCHANGED <<fetches, losses>>
         /\ sent' = counts
         /\ TakeUpAt(LastTurn)

\* Mutant: the device found by the loop is answered for, but the next turn is
\* counted from where the loop began.
TurnNotMoved(hits, turn, to, counts) ==
    LET u == NextTurn(hits, turn) IN
    IF u < LastTurn
    THEN /\ SendUDPResponse(to, DeviceAt(u))
         /\ sent' = [counts EXCEPT ![DeviceAt(u)] = @ + 1]
         /\ TakeUpAt(turn + 1)
    ELSE /\ UNCHANGED <<fetches, losses>>
         /\ sent' = counts
         /\ TakeUpAt(LastTurn)

\* nextUDPResponse with the given hits, turn, addressee and history.
NextUDPResponse(hits, turn, to, counts) ==
    LET u == NextTurn(hits, turn) IN
    IF u < LastTurn
    THEN /\ SendUDPResponse(to, DeviceAt(u))
         /\ sent' = [counts EXCEPT ![DeviceAt(u)] = @ + 1]
         /\ TakeUpAt(u + 1)
    ELSE /\ UNCHANGED <<fetches, losses>>
         /\ sent' = counts
         /\ TakeUpAt(LastTurn)

\* handle() without a packet to read, when the interval since the last response
\* is over.
Handle ==
    /\ roundsLeft > 0
    /\ NextUDPResponse(hit, TurnOf(roundsLeft, current), remote, sent)
    /\ UNCHANGED <<hit, remote, known>>

\* handle() with a search packet: whatever was under way for another controller
\* is dropped.  If the interval is over the first response follows at once.
HandleSearch(c, start, due) ==
    /\ hit' = [d \in Devices |-> FALSE]
    /\ remote' = c
    /\ IF due
       THEN NextUDPResponse(hit', start, c, [d \in Devices |-> 0])
       ELSE /\ TakeUpAt(start)
            /\ sent' = [d \in Devices |-> 0]
            /\ UNCHANGED <<fetches, losses>>
    /\ UNCHANGED known

\* Mutant: the device taken out is the one whose turn it is.
HandleSetupOfCurrent(c, d) ==
    /\ <<c, d>> \in fetches
    /\ fetches' = fetches \ {<<c, d>>}
    /\ hit' = [hit EXCEPT ![current] = TRUE]
    /\ known' = [known EXCEPT ![c] = @ \cup {d}]
    /\ UNCHANGED <<roundsLeft, current, remote, sent, losses>>

\* handleTCPPacket on "GET /setup.xml".
HandleSetup(c, d) ==
    /\ <<c, d>> \in fetches
    /\ fetches' = fetches \ {<<c, d>>}
    /\ hit' = [hit EXCEPT ![d] = TRUE]
    /\ known' = [known EXCEPT ![c] = @ \cup {d}]
    /\ UNCHANGED <<roundsLeft, current, remote, sent, losses>>

SomeSearch == \E c \in Controllers, start \in Devices, due \in BOOLEAN :
                  HandleSearch(c, start, due)
Fetching == \E c \in Controllers, d \in Devices : HandleSetup(c, d)

Next == Handle \/ SomeSearch \/ Fetching

Spec == Init /\ [][Next]_vars

\* loop() calls handle() again and again and the interval ends; a controller
\* fetches what it has heard of.
FairSpec == Spec /\ WF_vars(Handle) /\ WF_vars(Fetching)

-----------------------------------------------------------------------------
Silent == {d \in Devices : ~hit[d]}

\* Devices that nobody has fetched since the search are announced in turn: none
\* is more than one response ahead of another, wherever the rounds began and
\* whichever devices have dropped out of them.
AnnouncedInTurn ==
    \A d, e \in Silent : sent[d] - sent[e] <= 1

\* The device stops answering a search only after it has announced every device
\* nobody fetched at least Tries - 1 times; the first round may be a partial one.
GivesUpAfterTries ==
    remote # Nobody /\ roundsLeft = 0 => \A d \in Silent : sent[d] >= Tries - 1

\* When the device falls silent with no fetch on its way, every emulated device
\* is known to some controller, unless as many responses were lost as every
\* device has turns for certain.  Since a fetch by anyone takes a device out of
\* everyone's rounds, the controller that searched last may not know it itself.
EveryDeviceIsHeardOf ==
    remote # Nobody /\ roundsLeft = 0 /\ fetches = {} /\ losses < Tries - 1 =>
        \A d \in Devices : \E c \in Controllers : d \in known[c]

\* A device that was fetched is not announced again in the same search.
FetchedDevicesAreQuiet ==
    [][\A d \in Devices : hit[d] /\ hit'[d] => sent'[d] = sent[d]]_vars

\* A controller that searches and is the only one ever to do so gets to know
\* every device if fewer responses are lost than every device has turns for
\* certain (Tries - 1): the random start does not cut a device short, and none is
\* skipped when others drop out of the rounds.  After that the device falls
\* silent: the loop that skips fetched devices uses the rounds up.
SearchFindsAll ==
    \A c \in Controllers :
        /\ <>[][~SomeSearch]_vars
        /\ [](remote \in {Nobody, c})
        => (remote = c ~> known[c] = Devices /\ roundsLeft = 0)

=============================================================================
