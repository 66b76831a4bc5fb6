------------------------------ MODULE Console ------------------------------
(***************************************************************************)
(* The classes through which the Android console reaches a device: the     *)
(* search by UDP broadcast (UdpBroadcast, run by UdpBroadcastTask), the    *)
(* HTTP calls (ApiInterface) and the Device in Global they both write.     *)
(*                                                                         *)
(* Four kinds of threads meet here without a lock: the background thread   *)
(* of the tasks, which runs one search at a time; the timer of each        *)
(* search; the threads of OkHttp, which bring the answers of the calls;    *)
(* and the main thread, which makes calls and clears the device.  An       *)
(* action is one access to what they share.                                *)
(*                                                                         *)
(* The searches here are given the Context they need, and the main thread  *)
(* may do what the presenters do in any order.                             *)
(***************************************************************************)
EXTENDS Integers, Sequences

CONSTANTS
    SearchCount,    \* UdpBroadcastTasks executed, each with a UdpBroadcast of its own
    Calls,          \* calls of ApiInterface
    Address,        \* the address a device answers from
    Null

ASSUME SearchCountAssumption == SearchCount \in Nat
ASSUME AddressAssumption == Address # Null

Searches == 1 .. SearchCount

HttpPort == 80

\* ApiStatus
Statuses == {"Unknown", "NotFound", "NotSetUp", "Running"}

Kinds == {"getStatusAsync", "setupAsync", "setSceneAsync", "getSceneAsync"}

VARIABLES
    pc,             \* per search: what sendBroadcast does next
    timer,          \* per search: "unset", "set" or "cancelled"
    timerPc,        \* per search: what the run() of its timer does next
    socket,         \* per search: "none", "open" or "closed"
    forgotten,      \* per search: the timer has set the field to null
    sendFailed,     \* per search, history: send() threw an exception
    result,         \* per search: what UdpBroadcastTask returned
    device,         \* Global.device
    cleared,        \* fields the device.clear() under way has written
    calls,          \* per call: its kind, how far it is, what it called back with
    crashed         \* an exception nobody catches has ended the app

vars == <<pc, timer, timerPc, socket, forgotten, sendFailed, result,
          device, cleared, calls, crashed>>
searchVars == <<pc, timer, timerPc, socket, forgotten, sendFailed, result>>

SearchSteps == {"new", "opening", "sending", "listening", "receiving", "failed", "answered",
                "address", "port", "status", "closing", "close", "disconnect", "returning", "done"}

\* Steps at which sendBroadcast calls a method of the socket field.
SocketUses == {"sending", "listening", "close", "disconnect"}

Phases == {"new", "flying", "lost", "handled", "told"}

\* A timer forgets a socket only after closing it.
TypeOK ==
    /\ pc \in [Searches -> SearchSteps]
    /\ timer \in [Searches -> {"unset", "set", "cancelled"}]
    /\ timerPc \in [Searches -> {"waiting", "closing", "forgetting", "cancelling"}]
    /\ socket \in [Searches -> {"none", "open", "closed"}]
    /\ forgotten \in [Searches -> BOOLEAN]
    /\ sendFailed \in [Searches -> BOOLEAN]
    /\ result \in [Searches -> Statuses \cup {Null}]
    /\ device \in [ipAddress : {Null, Address}, tcpPort : {0, HttpPort}, status : Statuses]
    /\ cleared \in 0 .. 2
    /\ calls \in [Calls -> [kind : Kinds \cup {Null}, phase : Phases, told : Statuses \cup {Null}]]
    /\ crashed \in BOOLEAN
    /\ \A s \in Searches : forgotten[s] => socket[s] = "closed"

\* Nothing is restored from LocalStorage: the app never initialises it.
Init ==
    /\ pc = [s \in Searches |-> "new"]
    /\ timer = [s \in Searches |-> "unset"]
    /\ timerPc = [s \in Searches |-> "waiting"]
    /\ socket = [s \in Searches |-> "none"]
    /\ forgotten = [s \in Searches |-> FALSE]
    /\ sendFailed = [s \in Searches |-> FALSE]
    /\ result = [s \in Searches |-> Null]
    /\ device = [ipAddress |-> Null, tcpPort |-> 0, status |-> "Unknown"]
    /\ cleared = 0
    /\ calls = [c \in Calls |-> [kind |-> Null, phase |-> "new", told |-> Null]]
    /\ crashed = FALSE

-----------------------------------------------------------------------------
\* UdpBroadcast.sendBroadcast

Go(s, from, to) == pc[s] = from /\ pc' = [pc EXCEPT ![s] = to]

\* The executor of AsyncTask runs one task after the other.
Start(s) ==
    /\ \A t \in 1 .. s - 1 : pc[t] = "done"
    /\ Go(s, "new", "opening")
    /\ timer' = [timer EXCEPT ![s] = "set"]
    /\ UNCHANGED <<timerPc, socket, forgotten, sendFailed, result, device, cleared, calls, crashed>>

Open(s) ==
    /\ \/ Go(s, "opening", "sending") /\ socket' = [socket EXCEPT ![s] = "open"]
       \/ Go(s, "opening", "failed") /\ UNCHANGED socket
    /\ UNCHANGED <<timer, timerPc, forgotten, sendFailed, result, device, cleared, calls, crashed>>

\* setBroadcast() and send().  A failure leaves the socket open.
Send(s) ==
    /\ socket[s] = "open"
    /\ \/ Go(s, "sending", "listening") /\ UNCHANGED sendFailed
       \/ Go(s, "sending", "failed") /\ sendFailed' = [sendFailed EXCEPT ![s] = TRUE]
    /\ UNCHANGED <<timer, timerPc, socket, forgotten, result, device, cleared, calls, crashed>>

Listen(s) ==
    /\ socket[s] = "open"
    /\ Go(s, "listening", "receiving")
    /\ UNCHANGED <<timer, timerPc, socket, forgotten, sendFailed, result, device, cleared, calls, crashed>>

\* The reply of AdminServer::listen, if neither packet is lost.
Receive(s) ==
    /\ socket[s] = "open"
    /\ Go(s, "receiving", "answered")
    /\ UNCHANGED <<timer, timerPc, socket, forgotten, sendFailed, result, device, cleared, calls, crashed>>

\* A socket the timer has closed throws an IOException, in a receive() that
\* waits on it too.
SocketClosed(s) ==
    /\ socket[s] = "closed"
    /\ \/ Go(s, "receiving", "failed")
       \/ ~forgotten[s] /\ (Go(s, "sending", "failed") \/ Go(s, "listening", "failed"))
    /\ UNCHANGED <<timer, timerPc, socket, forgotten, sendFailed, result, device, cleared, calls, crashed>>

\* A socket the timer has set to null throws an exception that is no IOException.
NullPointer(s) ==
    /\ pc[s] \in SocketUses
    /\ forgotten[s]
    /\ crashed' = TRUE
    /\ UNCHANGED <<searchVars, device, cleared, calls>>

CancelTimer(s) ==
    /\ Go(s, "answered", "address")
    /\ timer' = [timer EXCEPT ![s] = "cancelled"]
    /\ UNCHANGED <<timerPc, socket, forgotten, sendFailed, result, device, cleared, calls, crashed>>

\* Device.found, field by field.
Found(s) ==
    /\ \/ Go(s, "address", "port") /\ device' = [device EXCEPT !.ipAddress = Address]
       \/ Go(s, "port", "status") /\ device' = [device EXCEPT !.tcpPort = HttpPort]
       \/ Go(s, "status", "closing") /\ device' = [device EXCEPT !.status = "Unknown"]
    /\ UNCHANGED <<timer, timerPc, socket, forgotten, sendFailed, result, cleared, calls, crashed>>

\* The test of the field, and the two calls that use it again.
CloseSocket(s) ==
    /\ \/ forgotten[s] /\ Go(s, "closing", "returning") /\ UNCHANGED socket
       \/ ~forgotten[s] /\ Go(s, "closing", "close") /\ UNCHANGED socket
       \/ ~forgotten[s] /\ Go(s, "close", "disconnect") /\ socket' = [socket EXCEPT ![s] = "closed"]
       \/ ~forgotten[s] /\ Go(s, "disconnect", "returning") /\ UNCHANGED socket
    /\ UNCHANGED <<timer, timerPc, forgotten, sendFailed, result, device, cleared, calls, crashed>>

\* Mutant: the timer is left running.
CatchKeepingTimer(s) ==
    /\ Go(s, "failed", "returning")
    /\ UNCHANGED <<timer, timerPc, socket, forgotten, sendFailed, result, device, cleared, calls, crashed>>

\* Mutant: the socket is closed here too, whether or not there is one.
CatchClosing(s) ==
    /\ Go(s, "failed", "returning")
    /\ timer' = [timer EXCEPT ![s] = "cancelled"]
    /\ socket' = [socket EXCEPT ![s] = IF @ = "open" THEN "closed" ELSE @]
    /\ crashed' = (socket[s] = "none" \/ forgotten[s])
    /\ UNCHANGED <<timerPc, forgotten, sendFailed, result, device, cleared, calls>>

\* catch (IOException e)
Catch(s) ==
    /\ Go(s, "failed", "returning")
    /\ timer' = [timer EXCEPT ![s] = "cancelled"]
    /\ UNCHANGED <<timerPc, socket, forgotten, sendFailed, result, device, cleared, calls, crashed>>

\* UdpBroadcastTask returns the status the device has by now, whoever wrote it.
Return(s) ==
    /\ Go(s, "returning", "done")
    /\ result' = [result EXCEPT ![s] = device.status]
    /\ UNCHANGED <<timer, timerPc, socket, forgotten, sendFailed, device, cleared, calls, crashed>>

Search(s) ==
    \/ Open(s) \/ Send(s) \/ Listen(s) \/ SocketClosed(s) \/ NullPointer(s)
    \/ CancelTimer(s) \/ Found(s) \/ CloseSocket(s) \/ Catch(s) \/ Return(s)

-----------------------------------------------------------------------------
\* The TimerTask of a search, ten seconds after its start and every ten seconds
\* after that; without a socket run() does nothing.

TimerGo(s, from, to) == timerPc[s] = from /\ timerPc' = [timerPc EXCEPT ![s] = to]

\* Mutant: the timer only stops itself.
TimeoutCancelling(s) ==
    /\ timer[s] = "set" /\ socket[s] # "none" /\ ~forgotten[s]
    /\ timer' = [timer EXCEPT ![s] = "cancelled"]
    /\ UNCHANGED <<pc, timerPc, socket, forgotten, sendFailed, result, device, cleared, calls, crashed>>

\* Mutant: the socket is set to null before it is closed.
TimeoutForgettingFirst(s) ==
    /\ \/ /\ timer[s] = "set" /\ socket[s] # "none" /\ ~forgotten[s]
          /\ TimerGo(s, "waiting", "forgetting")
          /\ UNCHANGED <<timer, socket, forgotten>>
       \/ /\ TimerGo(s, "forgetting", "closing")
          /\ forgotten' = [forgotten EXCEPT ![s] = TRUE]
          /\ UNCHANGED <<timer, socket>>
       \/ /\ TimerGo(s, "closing", "cancelling")
          /\ socket' = [socket EXCEPT ![s] = "closed"]
          /\ UNCHANGED <<timer, forgotten>>
       \/ /\ TimerGo(s, "cancelling", "waiting")
          /\ timer' = [timer EXCEPT ![s] = "cancelled"]
          /\ UNCHANGED <<socket, forgotten>>
    /\ UNCHANGED <<pc, sendFailed, result, device, cleared, calls, crashed>>

Timeout(s) ==
    /\ \/ /\ timer[s] = "set" /\ socket[s] # "none" /\ ~forgotten[s]
          /\ TimerGo(s, "waiting", "closing")
          /\ UNCHANGED <<timer, socket, forgotten>>
       \/ /\ TimerGo(s, "closing", "forgetting")
          /\ socket' = [socket EXCEPT ![s] = "closed"]
          /\ UNCHANGED <<timer, forgotten>>
       \/ /\ TimerGo(s, "forgetting", "cancelling")
          /\ forgotten' = [forgotten EXCEPT ![s] = TRUE]
          /\ UNCHANGED <<timer, socket>>
       \/ /\ TimerGo(s, "cancelling", "waiting")
          /\ timer' = [timer EXCEPT ![s] = "cancelled"]
          /\ UNCHANGED <<socket, forgotten>>
    /\ UNCHANGED <<pc, sendFailed, result, device, cleared, calls, crashed>>

-----------------------------------------------------------------------------
\* ApiInterface and the main thread

\* buildUrl makes a URL that OkHttp takes.
HasUrl == device.ipAddress # Null /\ device.tcpPort > 0

\* A call without a URL ends in an exception that is caught and says nothing.
Call(c, kind) ==
    /\ cleared = 0
    /\ calls[c].phase = "new"
    /\ calls' = [calls EXCEPT ![c] = [kind |-> kind, phase |-> IF HasUrl THEN "flying" ELSE "lost",
                                      told |-> Null]]
    /\ device' = IF kind = "getStatusAsync" THEN [device EXCEPT !.status = "Unknown"] ELSE device
    /\ UNCHANGED <<searchVars, cleared, crashed>>

\* FindDevicesPresenter: Device.clear, field by field.
Clear ==
    /\ cleared' = (cleared + 1) % 3
    /\ device' = CASE cleared = 0 -> [device EXCEPT !.ipAddress = Null]
                   [] cleared = 1 -> [device EXCEPT !.tcpPort = 0]
                   [] cleared = 2 -> [device EXCEPT !.status = "NotFound"]
    /\ UNCHANGED <<searchVars, calls, crashed>>

\* What AdminServer answers: there is no getScene among its routes, and the status
\* of a device that is not set up is 404.
Answers(kind) ==
    CASE kind = "getStatusAsync" -> {200, 404}
      [] kind = "getSceneAsync"  -> {404}
      [] OTHER                   -> {200}

\* onResponse looks at the code only if it is that of a success.
StatusFor(code) ==
    IF code \notin 200 .. 299 THEN "NotFound"
    ELSE CASE code = 200 -> "Running" [] code = 404 -> "NotSetUp" [] OTHER -> "NotFound"

OnResponse(c) ==
    /\ calls[c].phase = "flying"
    /\ \E code \in Answers(calls[c].kind) : device' = [device EXCEPT !.status = StatusFor(code)]
    /\ calls' = [calls EXCEPT ![c].phase = "handled"]
    /\ UNCHANGED <<searchVars, cleared, crashed>>

\* Only a status call lets the others know.
OnFailure(c) ==
    /\ calls[c].phase = "flying"
    /\ IF calls[c].kind = "getStatusAsync"
       THEN /\ device' = [device EXCEPT !.status = "NotFound"]
            /\ calls' = [calls EXCEPT ![c].phase = "handled"]
       ELSE /\ calls' = [calls EXCEPT ![c].phase = "told", ![c].told = "NotFound"]
            /\ UNCHANGED device
    /\ UNCHANGED <<searchVars, cleared, crashed>>

\* The callback is given what the device's status is by now.
CallBack(c) ==
    /\ calls[c].phase = "handled"
    /\ calls' = [calls EXCEPT ![c].phase = "told", ![c].told = device.status]
    /\ UNCHANGED <<searchVars, device, cleared, crashed>>

Answer(c) == OnResponse(c) \/ OnFailure(c) \/ CallBack(c)

Next ==
    /\ ~crashed
    /\ \/ \E s \in Searches : Start(s) \/ Search(s) \/ Receive(s) \/ Timeout(s)
       \/ \E c \in Calls, kind \in Kinds : Call(c, kind)
       \/ Clear
       \/ \E c \in Calls : Answer(c)

Spec == Init /\ [][Next]_vars

\* Threads run on and the timer fires; OkHttp gives up calls that get no answer.
\* No packet need ever arrive, and nobody need touch the screen.
FairSpec ==
    /\ Spec
    /\ \A s \in Searches : WF_vars(~crashed /\ Search(s)) /\ WF_vars(~crashed /\ Timeout(s))
    /\ \A c \in Calls : WF_vars(~crashed /\ Answer(c))

-----------------------------------------------------------------------------
\* A search that is over has cancelled its timer and closed its socket, whether it
\* got an answer, failed or was timed out, and whichever of the two threads came
\* first; the one exception is a socket that could not send.
NothingLeftBehind ==
    \A s \in Searches : pc[s] = "done" /\ timerPc[s] = "waiting" =>
        /\ timer[s] = "cancelled"
        /\ socket[s] = "open" => sendFailed[s]

\* Only a timeout that overtakes its own search can bring the app down: no search
\* that is answered, or fails, in time does, nor does the timer of one that is
\* over.
CrashNeedsTimeout ==
    crashed => \E s \in Searches : forgotten[s] /\ pc[s] \in SocketUses

\* Nothing waits for ever: a search that nobody answers is ended by its timer, and
\* a call that was given an address is called back.
NothingWaitsForEver ==
    /\ \A s \in Searches : pc[s] = "opening" ~> pc[s] = "done" \/ crashed
    /\ \A c \in Calls : calls[c].phase = "flying" ~> calls[c].phase = "told" \/ crashed

=============================================================================
