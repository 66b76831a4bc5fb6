--------------------------- MODULE ConsoleProofs ---------------------------
(***************************************************************************)
(* Theorems about the console's searches and calls, for any number of      *)
(* them.                                                                   *)
(***************************************************************************)
EXTENDS Console, TLAPS

USE SearchCountAssumption, AddressAssumption

\* What one search knows of its timer and its socket at each step: the timer is
\* stopped before the search is over, the socket is there when it is used, and it
\* is left open only by a send that failed.
SearchInv(s) ==
    /\ pc[s] \in {"address", "port", "status", "closing", "close", "disconnect", "returning", "done"}
            => timer[s] = "cancelled"
    /\ pc[s] \in {"new", "opening"} => socket[s] = "none"
    /\ pc[s] = "disconnect" => socket[s] = "closed"
    /\ pc[s] \in {"failed", "returning", "done"} /\ socket[s] = "open" => sendFailed[s]
    /\ socket[s] = "none" => timerPc[s] = "waiting"
    /\ timerPc[s] \in {"forgetting", "cancelling"} => socket[s] = "closed"
    /\ pc[s] = "opening" => timer[s] = "set"
    /\ pc[s] \in {"sending", "listening", "receiving"} /\ socket[s] # "closed"
            => socket[s] = "open" /\ timer[s] = "set"

\* A search that sends or waits for an answer has had its socket closed already, or
\* has a timer that is set and has not come past the closing of it.
WaitingIsGuarded ==
    \A s \in Searches : pc[s] \in {"sending", "listening", "receiving"} =>
        \/ socket[s] = "closed"
        \/ /\ socket[s] = "open" /\ ~forgotten[s]
           /\ timer[s] = "set" /\ timerPc[s] \in {"waiting", "closing"}

IInv ==
    /\ TypeOK
    /\ \A s \in Searches : SearchInv(s)
    /\ CrashNeedsTimeout

LEMMA IInvImplies ==
    IInv => TypeOK /\ NothingLeftBehind /\ CrashNeedsTimeout /\ WaitingIsGuarded
<1>1. IInv => TypeOK /\ NothingLeftBehind /\ CrashNeedsTimeout
  BY DEF IInv, SearchInv, NothingLeftBehind
<1>2. IInv => WaitingIsGuarded
  BY DEF IInv, TypeOK, SearchInv, WaitingIsGuarded
<1>. QED BY <1>1, <1>2

LEMMA InitHolds == Init => IInv
<1>. SUFFICES ASSUME Init PROVE IInv
  OBVIOUS
<1>1. TypeOK
  <2>1. device \in [ipAddress : {Null, Address}, tcpPort : {0, HttpPort}, status : Statuses]
    BY DEF Init, Statuses
  <2>2. calls \in [Calls -> [kind : Kinds \cup {Null}, phase : Phases, told : Statuses \cup {Null}]]
    BY DEF Init, Phases
  <2>3. cleared \in 0 .. 2
    BY DEF Init
  <2>4. /\ forgotten \in [Searches -> BOOLEAN] /\ sendFailed \in [Searches -> BOOLEAN]
        /\ \A s \in Searches : ~forgotten[s]
    BY DEF Init
  <2>5. crashed \in BOOLEAN
    BY Zenon DEF Init
  <2>6. /\ pc \in [Searches -> SearchSteps]
        /\ timer \in [Searches -> {"unset", "set", "cancelled"}]
        /\ timerPc \in [Searches -> {"waiting", "closing", "forgetting", "cancelling"}]
        /\ socket \in [Searches -> {"none", "open", "closed"}]
        /\ result \in [Searches -> Statuses \cup {Null}]
    BY DEF Init, SearchSteps
  <2>. QED BY <2>1, <2>2, <2>3, <2>4, <2>5, <2>6 DEF TypeOK
<1>2. \A s \in Searches : SearchInv(s)
  BY DEF Init, SearchInv
<1>3. CrashNeedsTimeout
  BY DEF Init, CrashNeedsTimeout
<1>. QED BY <1>1, <1>2, <1>3 DEF IInv

\* A step of one search's thread or timer says nothing of the other searches.
LEMMA OthersStandStill ==
    ASSUME IInv, NEW s \in Searches, SearchInv(s)', ~crashed, TypeOK',
           \A t \in Searches \ {s} :
              /\ pc'[t] = pc[t] /\ timer'[t] = timer[t] /\ timerPc'[t] = timerPc[t]
              /\ socket'[t] = socket[t] /\ sendFailed'[t] = sendFailed[t],
           crashed' => forgotten'[s] /\ pc'[s] \in SocketUses
    PROVE  IInv'
<1>1. \A t \in Searches : SearchInv(t)'
  <2>. TAKE t \in Searches
  <2>1. CASE t = s
    BY <2>1
  <2>2. CASE t # s
    BY <2>2 DEF IInv, SearchInv
  <2>. QED BY <2>1, <2>2
<1>2. CrashNeedsTimeout'
  BY DEF CrashNeedsTimeout
<1>. QED BY <1>1, <1>2 DEF IInv

LEMMA StartKeepsInv ==
    ASSUME IInv, ~crashed, NEW s \in Searches, Start(s) PROVE IInv'
<1>1. TypeOK'
  BY DEF IInv, TypeOK, Start, Go, SearchSteps
<1>2. SearchInv(s)'
  BY DEF IInv, TypeOK, SearchInv, Start, Go
<1>. QED BY <1>1, <1>2, OthersStandStill DEF IInv, TypeOK, Start, Go

LEMMA ReceiveKeepsInv ==
    ASSUME IInv, ~crashed, NEW s \in Searches, Receive(s) PROVE IInv'
<1>1. TypeOK'
  BY DEF IInv, TypeOK, Receive, Go, SearchSteps
<1>2. SearchInv(s)'
  BY DEF IInv, TypeOK, SearchInv, Receive, Go
<1>. QED BY <1>1, <1>2, OthersStandStill DEF IInv, TypeOK, Receive, Go

LEMMA SearchKeepsInv ==
    ASSUME IInv, ~crashed, NEW s \in Searches, Search(s) PROVE IInv'
<1>. USE DEF IInv, TypeOK, Go
<1>1. CASE Open(s)
  <2>1. TypeOK'
    BY <1>1 DEF SearchInv, Open, SearchSteps
  <2>2. SearchInv(s)'
    BY <1>1 DEF SearchInv, Open
  <2>. QED BY <1>1, <2>1, <2>2, OthersStandStill DEF Open
<1>2. CASE Send(s)
  <2>1. TypeOK'
    BY <1>2 DEF Send, SearchSteps
  <2>2. SearchInv(s)'
    BY <1>2 DEF SearchInv, Send
  <2>. QED BY <1>2, <2>1, <2>2, OthersStandStill DEF Send
<1>3. CASE Listen(s)
  <2>1. TypeOK'
    BY <1>3 DEF Listen, SearchSteps
  <2>2. SearchInv(s)'
    BY <1>3 DEF SearchInv, Listen
  <2>. QED BY <1>3, <2>1, <2>2, OthersStandStill DEF Listen
<1>4. CASE SocketClosed(s)
  <2>1. TypeOK'
    BY <1>4 DEF SocketClosed, SearchSteps
  <2>2. SearchInv(s)'
    BY <1>4 DEF SearchInv, SocketClosed
  <2>. QED BY <1>4, <2>1, <2>2, OthersStandStill DEF SocketClosed
<1>5. CASE NullPointer(s)
  <2>1. TypeOK'
    BY <1>5 DEF NullPointer, searchVars
  <2>2. SearchInv(s)'
    BY <1>5 DEF SearchInv, NullPointer, searchVars
  <2>. QED BY <1>5, <2>1, <2>2, OthersStandStill DEF NullPointer, searchVars
<1>6. CASE CancelTimer(s)
  <2>1. TypeOK'
    BY <1>6 DEF CancelTimer, SearchSteps
  <2>2. SearchInv(s)'
    BY <1>6 DEF SearchInv, CancelTimer
  <2>. QED BY <1>6, <2>1, <2>2, OthersStandStill DEF CancelTimer
<1>7. CASE Found(s)
  <2>1. device' \in [ipAddress : {Null, Address}, tcpPort : {0, HttpPort}, status : Statuses]
    BY <1>7 DEF Found, Statuses
  <2>2. TypeOK'
    BY <1>7, <2>1 DEF Found, SearchSteps
  <2>3. SearchInv(s)'
    BY <1>7 DEF SearchInv, Found
  <2>. QED BY <1>7, <2>2, <2>3, OthersStandStill DEF Found
<1>8. CASE CloseSocket(s)
  <2>1. TypeOK'
    BY <1>8 DEF CloseSocket, SearchSteps
  <2>2. SearchInv(s)'
    BY <1>8 DEF SearchInv, CloseSocket
  <2>. QED BY <1>8, <2>1, <2>2, OthersStandStill DEF CloseSocket
<1>9. CASE Catch(s)
  <2>1. TypeOK'
    BY <1>9 DEF Catch, SearchSteps
  <2>2. SearchInv(s)'
    BY <1>9 DEF SearchInv, Catch
  <2>. QED BY <1>9, <2>1, <2>2, OthersStandStill DEF Catch
<1>10. CASE Return(s)
  <2>1. TypeOK'
    BY <1>10 DEF Return, SearchSteps
  <2>2. SearchInv(s)'
    BY <1>10 DEF SearchInv, Return
  <2>. QED BY <1>10, <2>1, <2>2, OthersStandStill DEF Return
<1>. QED BY <1>1, <1>2, <1>3, <1>4, <1>5, <1>6, <1>7, <1>8, <1>9, <1>10 DEF Search

LEMMA TimeoutKeepsInv ==
    ASSUME IInv, ~crashed, NEW s \in Searches, Timeout(s) PROVE IInv'
<1>. DEFINE Steps == {"waiting", "closing", "forgetting", "cancelling"}
<1>. timerPc \in [Searches -> Steps] /\ timer \in [Searches -> {"unset", "set", "cancelled"}]
     /\ socket \in [Searches -> {"none", "open", "closed"}] /\ forgotten \in [Searches -> BOOLEAN]
  BY DEF IInv, TypeOK
<1>1. TypeOK'
  <2>1. timerPc' \in [Searches -> Steps]
    BY DEF Timeout, TimerGo
  <2>2. timer' \in [Searches -> {"unset", "set", "cancelled"}]
    BY DEF Timeout
  <2>3. socket' \in [Searches -> {"none", "open", "closed"}]
    BY DEF Timeout
  <2>4. forgotten' \in [Searches -> BOOLEAN]
    BY DEF Timeout
  <2>5. \A t \in Searches : forgotten'[t] => socket'[t] = "closed"
    <3>1. SearchInv(s) /\ \A t \in Searches : forgotten[t] => socket[t] = "closed"
      BY DEF IInv, TypeOK
    <3>. QED BY <3>1 DEF SearchInv, Timeout, TimerGo
  <2>. QED BY <2>1, <2>2, <2>3, <2>4, <2>5 DEF IInv, TypeOK, Timeout
<1>2. SearchInv(s)'
  BY DEF IInv, TypeOK, SearchInv, Timeout, TimerGo
<1>. QED BY <1>1, <1>2, OthersStandStill DEF IInv, TypeOK, Timeout, TimerGo

\* Calls and the main thread leave the searches alone.
LEMMA SearchesStandStill ==
    ASSUME IInv, UNCHANGED <<searchVars, crashed>>, TypeOK' PROVE IInv'
BY DEF IInv, SearchInv, CrashNeedsTimeout, searchVars

LEMMA CallsKeepInv ==
    ASSUME IInv, ~crashed,
           \/ Clear
           \/ \E c \in Calls, kind \in Kinds : Call(c, kind)
           \/ \E c \in Calls : Answer(c)
    PROVE  IInv'
<1>. DEFINE Device == [ipAddress : {Null, Address}, tcpPort : {0, HttpPort}, status : Statuses]
            Record == [kind : Kinds \cup {Null}, phase : Phases, told : Statuses \cup {Null}]
<1>. TypeOK /\ device \in Device /\ calls \in [Calls -> Record]
  BY DEF IInv, TypeOK
<1>1. ASSUME UNCHANGED <<searchVars, crashed>>, device' \in Device, calls' \in [Calls -> Record],
             cleared' \in 0 .. 2
      PROVE  IInv'
  <2>1. TypeOK'
    BY <1>1 DEF TypeOK, searchVars
  <2>. QED BY <1>1, <2>1, SearchesStandStill
<1>2. CASE Clear
  <2>1. cleared \in 0 .. 2
    BY DEF TypeOK
  <2>2. device' \in Device /\ cleared' \in 0 .. 2
    BY <1>2, <2>1 DEF Clear, Statuses
  <2>. QED BY <1>2, <2>2, <1>1 DEF Clear
<1>3. ASSUME NEW c \in Calls, NEW kind \in Kinds, Call(c, kind) PROVE IInv'
  <2>1. device' \in Device /\ calls' \in [Calls -> Record]
    BY <1>3 DEF Call, Statuses, Phases
  <2>. QED BY <1>3, <2>1, <1>1 DEF Call, TypeOK
<1>4. ASSUME NEW c \in Calls, OnResponse(c) PROVE IInv'
  <2>1. \A code : StatusFor(code) \in Statuses
    BY DEF StatusFor, Statuses
  <2>2. device' \in Device /\ calls' \in [Calls -> Record]
    BY <1>4, <2>1 DEF OnResponse, Phases
  <2>. QED BY <1>4, <2>2, <1>1 DEF OnResponse, TypeOK
<1>5. ASSUME NEW c \in Calls, OnFailure(c) PROVE IInv'
  <2>1. device' \in Device
    BY <1>5 DEF OnFailure, Statuses
  <2>2. calls' \in [Calls -> Record]
    <3>1. CASE calls' = [calls EXCEPT ![c].phase = "handled"]
      BY <3>1 DEF Phases
    <3>2. CASE calls' = [calls EXCEPT ![c].phase = "told", ![c].told = "NotFound"]
      <4>1. [calls[c] EXCEPT !.phase = "told", !.told = "NotFound"] \in Record
        BY DEF Phases, Statuses
      <4>. QED BY <3>2, <4>1
    <3>. QED BY <1>5, <3>1, <3>2 DEF OnFailure
  <2>. QED BY <1>5, <2>1, <2>2, <1>1 DEF OnFailure, TypeOK
<1>6. ASSUME NEW c \in Calls, CallBack(c) PROVE IInv'
  <2>1. calls' \in [Calls -> Record]
    BY <1>6 DEF CallBack, Phases
  <2>. QED BY <1>6, <2>1, <1>1 DEF CallBack, TypeOK
<1>. QED BY <1>2, <1>3, <1>4, <1>5, <1>6 DEF Answer

LEMMA NextKeepsInv == IInv /\ [Next]_vars => IInv'
<1>1. IInv /\ UNCHANGED vars => IInv'
  BY DEF vars, IInv, TypeOK, SearchInv, CrashNeedsTimeout
<1>. QED
  BY <1>1, StartKeepsInv, ReceiveKeepsInv, SearchKeepsInv, TimeoutKeepsInv, CallsKeepInv DEF Next

\* The invariant that the theorems rest on.
THEOREM Invariance == Spec => []IInv
<1>. QED BY InitHolds, NextKeepsInv, PTL DEF Spec

\* Every variable keeps its type, and a timer closes a socket before it forgets it.
THEOREM TypeCorrect == Spec => []TypeOK
<1>. QED BY Invariance, IInvImplies, PTL

\* Whichever of the search and its timer comes first, the timer is stopped and the
\* socket closed in the end, but for a socket that could not send.
THEOREM SearchesCleanUp == Spec => []NothingLeftBehind
<1>. QED BY Invariance, IInvImplies, PTL

\* The app crashes only in a search that its timeout has overtaken.
THEOREM CrashesAreTimeouts == Spec => []CrashNeedsTimeout
<1>. QED BY Invariance, IInvImplies, PTL

\* What keeps a search from waiting for ever: receive() has no timeout of its own,
\* and as long as the socket it waits on is open its timer is there to close it.
THEOREM NobodyWaitsUnguarded == Spec => []WaitingIsGuarded
<1>. QED BY Invariance, IInvImplies, PTL

=============================================================================
