---------------------------- MODULE FauxmoClients ----------------------------
(***************************************************************************)
(* The TCP side of the Wemo emulation (Fauxmo.h): the fixed number of      *)
(* client slots, the requests Alexa sends over a connection, and the way   *)
(* connections end.                                                        *)
(*                                                                         *)
(* The TCP library calls back one event at a time, so each action is one   *)
(* callback.  close() and stop() only ask for the connection to be closed; *)
(* the library does it at its next poll, and until then segments are still *)
(* handed over.  A connection is given up at once when the peer closes or  *)
(* resets it.  A client that was given a slot is never deleted: free()     *)
(* only tells whether it could be.                                         *)
(***************************************************************************)
EXTENDS Integers, Sequences, FiniteSets

CONSTANTS
    Clients,        \* connections, each one an AsyncClient of its own
    SlotCount,      \* TCP_MAX_CLIENTS, 10 in the firmware
    NoClient,       \* an empty slot
    Stray           \* a slot never written that reads as a connected client

ASSUME SlotCountAssumption == SlotCount \in Nat \ {0}
ASSUME SlotMarksAssumption == NoClient \notin Clients /\ Stray \notin Clients

Slots == 0 .. SlotCount - 1

\* What a peer may send, segment by segment: a whole request, a switch request
\* whose body comes in a segment of its own, a second request on the same
\* connection, or a request Fauxmo does not know.
Scripts == {<<"setup">>, <<"switch">>, <<"head", "body">>, <<"switch", "switch">>, <<"other">>}
Answered == {"setup", "switch", "head"}

VARIABLES
    _clients,       \* what the slots hold
    link,           \* per connection: how far it has got
    slotOf,         \* the slot number the connection's handlers were made with
    script,         \* what its peer sends
    read,           \* segments of it that have arrived
    answers,        \* history: responses written to the connection
    switched        \* history: callbacks made for it

vars == <<_clients, link, slotOf, script, read, answers, switched>>

\* "closing": close() was called.  "refused": no slot, stop() was called.
Links == {"new", "open", "closing", "refused", "gone"}

Accepted == {"open", "closing"}

TypeOK ==
    /\ _clients \in [Slots -> Clients \cup {NoClient, Stray}]
    /\ link \in [Clients -> Links]
    /\ slotOf \in [Clients -> Slots]
    /\ script \in [Clients -> Scripts \cup {<<>>}]
    /\ read \in [Clients -> Nat]
    /\ answers \in [Clients -> Nat]
    /\ switched \in [Clients -> Nat]
    /\ \A c \in Clients :
        /\ read[c] <= Len(script[c])
        /\ answers[c] <= read[c] /\ switched[c] <= read[c]

\* The array of slots is never initialised.
Init ==
    /\ _clients \in [Slots -> {NoClient, Stray}]
    /\ link = [c \in Clients |-> "new"]
    /\ slotOf = [c \in Clients |-> 0]
    /\ script = [c \in Clients |-> <<>>]
    /\ read = [c \in Clients |-> 0]
    /\ answers = [c \in Clients |-> 0]
    /\ switched = [c \in Clients |-> 0]

-----------------------------------------------------------------------------
\* AsyncClient::connected(): the library gives the connection up and calls the
\* disconnect handler in one step.
Connected(c) == link[c] \in Accepted

\* Mutant: a client that is being closed is taken for gone.
FreeBeforeClosed(i) ==
    \/ _clients[i] = NoClient
    \/ _clients[i] \in Clients /\ link[_clients[i]] # "open"

\* Mutant: a slot once used is never used again.
FreeIfNeverUsed(i) == _clients[i] = NoClient

Free(i) ==
    \/ _clients[i] = NoClient
    \/ _clients[i] \in Clients /\ ~Connected(_clients[i])

\* getTCPClientHandler: a new client gets the first free slot or is refused.
Accept(c, segments) ==
    /\ link[c] = "new"
    /\ script' = [script EXCEPT ![c] = segments]
    /\ \/ \E i \in Slots :
            /\ Free(i)
            /\ \A j \in 0 .. i - 1 : ~Free(j)
            /\ _clients' = [_clients EXCEPT ![i] = c]
            /\ slotOf' = [slotOf EXCEPT ![c] = i]
            /\ link' = [link EXCEPT ![c] = "open"]
       \/ /\ \A i \in Slots : ~Free(i)
          /\ link' = [link EXCEPT ![c] = "refused"]
          /\ UNCHANGED <<_clients, slotOf>>
    /\ UNCHANGED <<read, answers, switched>>

-----------------------------------------------------------------------------
\* handleTCPPacket

\* Mutant: only setup.xml closes the connection.
RespondLeavingOpen(c, segment) ==
    /\ answers' = [answers EXCEPT ![c] = @ + 1]
    /\ link' = IF segment = "setup" THEN [link EXCEPT ![c] = "closing"] ELSE link

\* Mutant: close() comes without the answer.
RespondSilently(c, segment) ==
    /\ link' = [link EXCEPT ![c] = "closing"]
    /\ UNCHANGED answers

\* Mutant: a switch request is answered once for each of the two states it is
\* searched for.
RespondPerState(c, segment) ==
    /\ answers' = [answers EXCEPT ![c] = @ + IF segment = "switch" THEN 2 ELSE 1]
    /\ link' = [link EXCEPT ![c] = "closing"]

\* sendTCPPacket and close().
Respond(c, segment) ==
    /\ answers' = [answers EXCEPT ![c] = @ + 1]
    /\ link' = [link EXCEPT ![c] = "closing"]

\* The callback of WemoEmulator, if the segment holds a state to switch to.
CallBack(c, segment) ==
    switched' = IF segment = "switch" THEN [switched EXCEPT ![c] = @ + 1] ELSE switched

Receive(c) ==
    /\ Connected(c)
    /\ read[c] < Len(script[c])
    /\ read' = [read EXCEPT ![c] = @ + 1]
    /\ LET segment == script[c][read[c] + 1] IN
       /\ CallBack(c, segment)
       /\ IF segment \in Answered
          THEN Respond(c, segment)
          ELSE UNCHANGED <<answers, link>>
    /\ UNCHANGED <<_clients, slotOf, script>>

-----------------------------------------------------------------------------
\* The library's poll finds that closing was asked for, before it looks for an
\* answer that was not acknowledged in time.  The disconnect handler changes no
\* slot: the client stays where it is, no longer connected.
Poll(c) ==
    /\ link[c] \in {"closing", "refused"}
    /\ link' = [link EXCEPT ![c] = "gone"]
    /\ UNCHANGED <<_clients, slotOf, script, read, answers, switched>>

\* The peer closes or resets the connection.
PeerCloses(c) ==
    /\ link[c] \in {"open", "closing", "refused"}
    /\ link' = [link EXCEPT ![c] = "gone"]
    /\ UNCHANGED <<_clients, slotOf, script, read, answers, switched>>

Next ==
    \E c \in Clients :
        \/ \E segments \in Scripts : Accept(c, segments)
        \/ Receive(c)
        \/ Poll(c)
        \/ PeerCloses(c)

Spec == Init /\ [][Next]_vars

\* What a peer sends arrives, and the library polls.  No peer need ever close.
FairSpec == Spec /\ \A c \in Clients : WF_vars(Receive(c)) /\ WF_vars(Poll(c))

-----------------------------------------------------------------------------
\* A connected client keeps the slot its handlers were made with, so that the
\* disconnect handler, which looks the client up by slot number, meets the
\* client that disconnects.  A slot given away too early would break this.
ConnectedKeepSlots ==
    \A c \in Clients : Connected(c) => _clients[slotOf[c]] = c

\* No connection is refused while fewer clients than there are slots are being
\* served, apart from slots lost to what was in memory at the start
\* ("Too many connections already").
RefusedOnlyWhenFull ==
    [][\A c \in Clients :
        link[c] = "new" /\ link'[c] = "refused" =>
            Cardinality({d \in Clients : Connected(d)})
                = SlotCount - Cardinality({i \in Slots : _clients[i] = Stray})]_vars

\* The device hangs up on a client it has given a slot only after it answered
\* it, and after it switched if the client asked it to in one segment; and it
\* never switches without answering.
HangsUpWhenDone ==
    \A c \in Clients : link[c] = "closing" =>
        /\ answers[c] > 0
        /\ script[c][1] = "switch" => switched[c] > 0
        /\ switched[c] <= answers[c]

\* A client that sends something Fauxmo answers does not hold its slot for ever,
\* even if it never closes the connection itself.
SlotsComeFree ==
    \A c \in Clients :
        (Connected(c) /\ script[c][1] \in Answered) ~> ~Connected(c)

=============================================================================
