------------------------ MODULE FauxmoClientsProofs ------------------------
(***************************************************************************)
(* A connected client keeps its slot, for any number of slots and          *)
(* connections, none is refused while a slot is free, and the device hangs *)
(* up only when it is done.                                                *)
(***************************************************************************)
EXTENDS FauxmoClients, FiniteSetTheorems, TLAPS

\* What a connection has read is what its answers and callbacks were made for:
\* before the first segment it is open and has neither, and it is open only as
\* long as nothing was answered.  A first segment that Fauxmo knows was answered.
HandledInv ==
    \A c \in Clients :
        /\ link[c] = "new" => script[c] = <<>>
        /\ link[c] \in Accepted => script[c] \in Scripts
        /\ read[c] = 0 => answers[c] = 0
        /\ link[c] \in {"new", "open"} => answers[c] = 0
        /\ script[c] # <<>> /\ read[c] > 0 /\ script[c][1] = "switch" => switched[c] > 0
        /\ script[c] # <<>> /\ read[c] > 0 /\ script[c][1] \in Answered => answers[c] > 0
        /\ link[c] = "closing" => answers[c] > 0
        /\ switched[c] <= answers[c]

\* A client is in no slot but the one its handlers were made with, and in none
\* before it has connected.
SlotsInv ==
    \A i \in Slots : \A c \in Clients :
        _clients[i] = c => slotOf[c] = i /\ link[c] # "new"

IInv ==
    /\ TypeOK
    /\ ConnectedKeepSlots
    /\ SlotsInv
    /\ HandledInv

\* A script is a sequence of one or two segments.
LEMMA ScriptsAreShort ==
    ASSUME NEW s \in Scripts
    PROVE  /\ Len(s) \in 1 .. 2
           /\ s # <<>>
           /\ \A k \in 1 .. Len(s) : s[k] \in {"setup", "switch", "head", "body", "other"}
  BY DEF Scripts

LEMMA InitInv == Init => IInv
<1> SUFFICES ASSUME Init PROVE IInv
  OBVIOUS
<1>1. 0 \in Slots
  BY SlotCountAssumption DEF Slots
<1>2. TypeOK
  BY <1>1 DEF Init, TypeOK, Links
<1>3. ConnectedKeepSlots
  BY DEF Init, ConnectedKeepSlots, Connected, Accepted
<1>4. HandledInv
  BY DEF Init, HandledInv, Accepted
<1>5. SlotsInv
  BY SlotMarksAssumption DEF Init, SlotsInv
<1>6. QED
  BY <1>2, <1>3, <1>4, <1>5 DEF IInv

LEMMA AcceptKeepsInv ==
    ASSUME IInv, NEW c \in Clients, NEW s \in Scripts, Accept(c, s)
    PROVE  IInv'
<1> USE DEF IInv
<1>1. TypeOK'
  <2>1. script' \in [Clients -> Scripts \cup {<<>>}]
    BY DEF TypeOK, Accept
  <2>2. read' = read /\ answers' = answers /\ switched' = switched
    BY DEF Accept
  <2>3. read[c] = 0
    <3>1. script[c] = <<>>
      BY DEF Accept, HandledInv
    <3>2. Len(script[c]) = 0
      BY <3>1
    <3>3. QED
      BY <3>2 DEF TypeOK
  <2>4. read[c] <= Len(s)
    BY <2>3, ScriptsAreShort
  <2>5. ASSUME NEW d \in Clients
        PROVE  read'[d] <= Len(script'[d]) /\ answers'[d] <= read'[d] /\ switched'[d] <= read'[d]
    BY <2>2, <2>4 DEF TypeOK, Accept
  <2>6. link' \in [Clients -> Links]
    BY DEF TypeOK, Accept, Links
  <2>7. _clients' \in [Slots -> Clients \cup {NoClient, Stray}] /\ slotOf' \in [Clients -> Slots]
    BY DEF TypeOK, Accept
  <2>8. QED
    BY <2>1, <2>2, <2>5, <2>6, <2>7 DEF TypeOK
<1>2. ConnectedKeepSlots'
  <2> SUFFICES ASSUME NEW d \in Clients, Connected(d)'
               PROVE  (_clients[slotOf[d]] = d)'
    BY DEF ConnectedKeepSlots
  <2>1. CASE d = c
    BY <2>1 DEF Accept, TypeOK, Connected, Accepted
  <2>2. CASE d # c
    <3>1. Connected(d) /\ slotOf'[d] = slotOf[d]
      BY <2>2 DEF Accept, TypeOK, Connected, Accepted
    <3>2. _clients[slotOf[d]] = d /\ slotOf[d] \in Slots
      BY <3>1 DEF ConnectedKeepSlots, TypeOK
    <3>3. ~Free(slotOf[d])
      BY <3>1, <3>2, SlotMarksAssumption DEF Free
    <3>4. QED
      BY <3>1, <3>2, <3>3 DEF Accept, TypeOK
  <2>3. QED
    BY <2>1, <2>2
<1>3. HandledInv'
  BY ScriptsAreShort DEF HandledInv, Accept, TypeOK, Accepted
<1>4. SlotsInv'
  <2> SUFFICES ASSUME NEW j \in Slots, NEW d \in Clients, _clients'[j] = d
               PROVE  slotOf'[d] = j /\ link'[d] # "new"
    BY DEF SlotsInv
  <2>1. CASE _clients[j] = d
    <3>1. slotOf[d] = j /\ link[d] # "new" /\ d # c
      BY <2>1 DEF SlotsInv, Accept
    <3>2. QED
      BY <3>1 DEF Accept, TypeOK
  <2>2. CASE _clients[j] # d
    <3>1. PICK i \in Slots : /\ _clients' = [_clients EXCEPT ![i] = c]
                             /\ slotOf' = [slotOf EXCEPT ![c] = i]
                             /\ link' = [link EXCEPT ![c] = "open"]
      BY <2>2 DEF Accept
    <3>2. i = j /\ d = c
      BY <2>2, <3>1 DEF TypeOK
    <3>3. QED
      BY <3>1, <3>2 DEF TypeOK
  <2>3. QED
    BY <2>1, <2>2
<1>5. QED
  BY <1>1, <1>2, <1>3, <1>4

LEMMA ReceiveKeepsInv ==
    ASSUME IInv, NEW c \in Clients, Receive(c)
    PROVE  IInv'
<1> USE DEF IInv
<1> DEFINE segment == script[c][read[c] + 1]
<1>1. /\ script[c] \in Scripts
      /\ read[c] \in Nat /\ Len(script[c]) \in 1 .. 2
  BY ScriptsAreShort DEF TypeOK, HandledInv, Receive, Connected
<1>2. answers' = IF segment \in Answered THEN [answers EXCEPT ![c] = @ + 1] ELSE answers
  BY DEF Receive, Respond
<1>3. link' = IF segment \in Answered THEN [link EXCEPT ![c] = "closing"] ELSE link
  BY DEF Receive, Respond
<1>4. switched' = IF segment = "switch" THEN [switched EXCEPT ![c] = @ + 1] ELSE switched
  BY DEF Receive, CallBack
<1>5. read' = [read EXCEPT ![c] = @ + 1] /\ script' = script
      /\ _clients' = _clients /\ slotOf' = slotOf /\ link[c] \in Accepted /\ read[c] < Len(script[c])
  BY DEF Receive, Connected
<1>6. TypeOK'
  <2>1. read' \in [Clients -> Nat]
    BY <1>1, <1>5 DEF TypeOK
  <2>2. answers' \in [Clients -> Nat] /\ switched' \in [Clients -> Nat]
    BY <1>2, <1>4 DEF TypeOK
  <2>3. link' \in [Clients -> Links]
    BY <1>3 DEF TypeOK, Links
  <2>4. \A d \in Clients : read'[d] <= Len(script'[d])
    BY <1>1, <1>5 DEF TypeOK
  <2>5. answers'[c] <= read'[c] /\ switched'[c] <= read'[c]
    BY <1>1, <1>2, <1>4, <1>5 DEF TypeOK
  <2>6. \A d \in Clients : answers'[d] <= read'[d] /\ switched'[d] <= read'[d]
    BY <1>2, <1>4, <1>5, <2>5 DEF TypeOK
  <2>7. QED
    BY <1>5, <2>1, <2>2, <2>3, <2>4, <2>6 DEF TypeOK
<1>7. ConnectedKeepSlots'
  BY <1>3, <1>5 DEF ConnectedKeepSlots, Connected, Accepted, TypeOK
<1>8. HandledInv'
  <2> SUFFICES ASSUME NEW d \in Clients
               PROVE  /\ (link[d] = "new" => script[d] = <<>>)'
                      /\ (link[d] \in Accepted => script[d] \in Scripts)'
                      /\ (read[d] = 0 => answers[d] = 0)'
                      /\ (link[d] \in {"new", "open"} => answers[d] = 0)'
                      /\ (script[d] # <<>> /\ read[d] > 0 /\ script[d][1] = "switch" => switched[d] > 0)'
                      /\ (script[d] # <<>> /\ read[d] > 0 /\ script[d][1] \in Answered => answers[d] > 0)'
                      /\ (link[d] = "closing" => answers[d] > 0)'
                      /\ (switched[d] <= answers[d])'
    BY DEF HandledInv
  <2>1. CASE d # c
    BY <2>1, <1>2, <1>3, <1>4, <1>5 DEF HandledInv, TypeOK, Accepted
  <2>2. CASE d = c
    <3>1. read'[c] = read[c] + 1 /\ read'[c] > 0
      BY <1>1, <1>5 DEF TypeOK
    <3>2. /\ answers[c] \in Nat /\ switched[c] \in Nat
          /\ answers'[c] = IF segment \in Answered THEN answers[c] + 1 ELSE answers[c]
          /\ switched'[c] = IF segment = "switch" THEN switched[c] + 1 ELSE switched[c]
          /\ link'[c] = IF segment \in Answered THEN "closing" ELSE link[c]
      BY <1>2, <1>3, <1>4 DEF TypeOK
    <3>3. script'[c] # <<>> /\ read'[c] > 0 /\ script'[c][1] = "switch" => switched'[c] > 0
      <4>1. CASE read[c] = 0
        BY <4>1, <3>2, <1>5
      <4>2. CASE read[c] > 0
        BY <4>2, <3>2, <1>5 DEF HandledInv
      <4>3. QED
        BY <4>1, <4>2, <1>1
    <3>4. (link[c] = "closing" => answers[c] > 0)' /\ (switched[c] <= answers[c])'
      BY <3>2 DEF HandledInv, Answered
    <3>5. (link[c] \in {"new", "open"} => answers[c] = 0)' /\ (link[c] # "new")'
      BY <3>2, <1>5 DEF HandledInv, Accepted
    <3>6. script'[c] # <<>> /\ read'[c] > 0 /\ script'[c][1] \in Answered => answers'[c] > 0
      <4>1. CASE read[c] = 0
        BY <4>1, <3>2, <1>5
      <4>2. CASE read[c] > 0
        BY <4>2, <3>2, <1>5 DEF HandledInv
      <4>3. QED
        BY <4>1, <4>2, <1>1
    <3>7. QED
      BY <2>2, <1>1, <1>5, <3>1, <3>3, <3>4, <3>5, <3>6 DEF HandledInv
  <2>3. QED
    BY <2>1, <2>2
<1>9. SlotsInv'
  BY <1>3, <1>5 DEF SlotsInv, TypeOK, Accepted
<1>10. QED
  BY <1>6, <1>7, <1>8, <1>9

LEMMA EndKeepsInv ==
    ASSUME IInv, NEW c \in Clients, Poll(c) \/ PeerCloses(c)
    PROVE  IInv'
<1> USE DEF IInv
<1>1. /\ link' = [link EXCEPT ![c] = "gone"]
      /\ UNCHANGED <<_clients, slotOf, script, read, answers, switched>>
  BY DEF Poll, PeerCloses
<1>2. TypeOK'
  BY <1>1 DEF TypeOK, Links
<1>3. ConnectedKeepSlots'
  BY <1>1 DEF ConnectedKeepSlots, Connected, Accepted, TypeOK
<1>4. HandledInv'
  BY <1>1 DEF HandledInv, Accepted, TypeOK
<1>5. SlotsInv'
  BY <1>1 DEF SlotsInv, TypeOK
<1>6. QED
  BY <1>2, <1>3, <1>4, <1>5

LEMMA StepKeepsInv == IInv /\ [Next]_vars => IInv'
<1> SUFFICES ASSUME IInv, [Next]_vars PROVE IInv'
  OBVIOUS
<1>1. ASSUME NEW c \in Clients, NEW s \in Scripts, Accept(c, s) PROVE IInv'
  BY <1>1, AcceptKeepsInv
<1>2. ASSUME NEW c \in Clients, Receive(c) PROVE IInv'
  BY <1>2, ReceiveKeepsInv
<1>3. ASSUME NEW c \in Clients, Poll(c) \/ PeerCloses(c) PROVE IInv'
  BY <1>3, EndKeepsInv
<1>4. CASE UNCHANGED vars
  BY <1>4 DEF vars, IInv, TypeOK, ConnectedKeepSlots, SlotsInv, HandledInv, Connected
<1>5. QED
  BY <1>1, <1>2, <1>3, <1>4 DEF Next

\* The strengthened invariant holds in every behaviour of the TCP side.
THEOREM Invariance == Spec => []IInv
<1>1. IInv /\ [Next]_vars => IInv'
  BY StepKeepsInv
<1>2. QED
  BY InitInv, <1>1, PTL DEF Spec

\* What is read, answered and switched stays within what was sent, and the slots
\* hold clients of this device or what was in them at the start.
THEOREM TypeCorrect == Spec => []TypeOK
<1>1. IInv => TypeOK
  BY DEF IInv
<1>2. QED
  BY Invariance, <1>1, PTL

\* A connected client is in the slot its handlers were made with, whichever
\* connections come and go (getTCPClientHandler).
THEOREM SlotsAreKept == Spec => []ConnectedKeepSlots
<1>1. IInv => ConnectedKeepSlots
  BY DEF IInv
<1>2. QED
  BY Invariance, <1>1, PTL

\* The device closes a connection only after it answered, and switched if asked
\* to (handleTCPPacket).
THEOREM DoneBeforeHangingUp == Spec => []HangsUpWhenDone
<1>1. IInv => HangsUpWhenDone
  <2> SUFFICES ASSUME IInv, NEW c \in Clients, link[c] = "closing"
               PROVE  /\ answers[c] > 0
                      /\ script[c][1] = "switch" => switched[c] > 0
                      /\ switched[c] <= answers[c]
    BY DEF HangsUpWhenDone
  <2>1. script[c] \in Scripts /\ script[c] # <<>> /\ answers[c] > 0
    BY ScriptsAreShort DEF IInv, HandledInv, Accepted
  <2>2. read[c] > 0
    BY <2>1, ScriptsAreShort DEF IInv, HandledInv, TypeOK
  <2>3. QED
    BY <2>1, <2>2 DEF IInv, HandledInv
<1>2. QED
  BY Invariance, <1>1, PTL

-----------------------------------------------------------------------------
\* With no slot free, the slots that hold no stray contents hold each connected
\* client once.
LEMMA SlotsMatchClients ==
    ASSUME IInv, \A i \in Slots : ~Free(i)
    PROVE  Cardinality({d \in Clients : Connected(d)})
             = SlotCount - Cardinality({i \in Slots : _clients[i] = Stray})
<1> DEFINE Served == {d \in Clients : Connected(d)}
           Lost == {i \in Slots : _clients[i] = Stray}
           Used == Slots \ Lost
           Holder == [i \in Used |-> _clients[i]]
<1>1. IsFiniteSet(Slots) /\ Cardinality(Slots) = SlotCount
  BY FS_Interval, SlotCountAssumption DEF Slots
<1>2. IsFiniteSet(Used) /\ Cardinality(Used) = Cardinality(Slots) - Cardinality(Lost)
  <2>1. Slots \cap Lost = Lost
    OBVIOUS
  <2>2. QED
    BY <1>1, <2>1, FS_Difference
<1>3. ASSUME NEW i \in Used PROVE _clients[i] \in Served /\ slotOf[_clients[i]] = i
  <2>1. _clients[i] \in Clients \cup {NoClient} /\ i \in Slots
    BY DEF IInv, TypeOK
  <2>2. _clients[i] \in Clients /\ Connected(_clients[i])
    BY <2>1 DEF Free
  <2>3. QED
    BY <2>1, <2>2 DEF IInv, SlotsInv
<1>4. Holder \in [Used -> Served]
  BY <1>3
<1>5. ASSUME NEW i \in Used, NEW j \in Used, Holder[i] = Holder[j] PROVE i = j
  BY <1>3, <1>5
<1>6. ASSUME NEW d \in Served PROVE \E i \in Used : Holder[i] = d
  <2>1. _clients[slotOf[d]] = d /\ slotOf[d] \in Slots /\ d # Stray
    BY SlotMarksAssumption DEF IInv, ConnectedKeepSlots, TypeOK
  <2>2. slotOf[d] \in Used
    BY <2>1
  <2>3. QED
    BY <2>1, <2>2
<1>7. Holder \in Bijection(Used, Served)
  BY <1>4, <1>5, <1>6 DEF Bijection, Injection, Surjection, IsInjective
<1>8. ExistsBijection(Used, Served)
  BY <1>7 DEF ExistsBijection
<1>9. Cardinality(Served) = Cardinality(Used)
  BY <1>2, <1>8, FS_Bijection
<1>10. QED
  BY <1>1, <1>2, <1>9

\* For any number of slots: a connection is refused only while every slot that can
\* be used at all holds a connected client (getTCPClientHandler).
THEOREM NoneIsTurnedAway == Spec => RefusedOnlyWhenFull
<1> DEFINE Full == Cardinality({d \in Clients : Connected(d)})
                     = SlotCount - Cardinality({i \in Slots : _clients[i] = Stray})
           Justified == \A c \in Clients : link[c] = "new" /\ link'[c] = "refused" => Full
<1>1. IInv /\ [Next]_vars => [Justified]_vars
  <2> SUFFICES ASSUME IInv, Next, NEW c \in Clients, link[c] = "new", link'[c] = "refused"
               PROVE  Full
    BY Zenon
  <2>1. link \in [Clients -> Links]
    BY DEF IInv, TypeOK
  <2>2. ASSUME NEW d \in Clients, NEW s \in Scripts, Accept(d, s) PROVE Full
    <3>1. \A i \in Slots : ~Free(i)
      BY <2>1, <2>2 DEF Accept
    <3>2. QED
      BY <3>1, SlotsMatchClients
  <2>3. ASSUME NEW d \in Clients, Receive(d) PROVE FALSE
    BY <2>1, <2>3 DEF Receive, Respond
  <2>4. ASSUME NEW d \in Clients, Poll(d) \/ PeerCloses(d) PROVE FALSE
    BY <2>1, <2>4 DEF Poll, PeerCloses
  <2>5. QED
    BY <2>2, <2>3, <2>4, Zenon DEF Next
<1>2. QED
  BY Invariance, <1>1, PTL DEF Spec, RefusedOnlyWhenFull

-----------------------------------------------------------------------------
\* The step on which SlotsComeFree rests: a client whose first segment is one that
\* Fauxmo answers is not left open once that segment is there, whatever it sends
\* after it (handleTCPPacket).
THEOREM FirstSegmentDecides ==
    Spec => [](\A c \in Clients :
                  Connected(c) /\ script[c][1] \in Answered /\ read[c] > 0 => link[c] = "closing")
<1> DEFINE Decided == \A c \in Clients :
              Connected(c) /\ script[c][1] \in Answered /\ read[c] > 0 => link[c] = "closing"
<1>1. IInv => Decided
  <2> SUFFICES ASSUME IInv, NEW c \in Clients, Connected(c), script[c][1] \in Answered, read[c] > 0
               PROVE  link[c] = "closing"
    OBVIOUS
  <2>1. script[c] # <<>>
    BY ScriptsAreShort DEF IInv, HandledInv, Connected
  <2>2. answers[c] > 0 /\ answers[c] \in Nat
    BY <2>1 DEF IInv, HandledInv, TypeOK
  <2>3. QED
    BY <2>2 DEF IInv, HandledInv, Connected, Accepted
<1>2. QED
  BY Invariance, <1>1, PTL

=============================================================================
