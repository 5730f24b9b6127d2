---------------------------- MODULE HubConnection ----------------------------
(***************************************************************************)
(* HubConnection of the SignalR client over the contract of Connection:    *)
(* handshake, invocations, timers, stop and automatic reconnection.        *)
(*                                                                         *)
(* _startInternal is a routine with an await after each of its steps, run  *)
(* by start() or by the reconnect loop; what the application and the       *)
(* server do meanwhile falls between the steps.  An event of the network   *)
(* or of a timer is handled when no microtask waits (Quiet), a call of the *)
(* application may come at any time.                                       *)
(***************************************************************************)
EXTENDS Integers

CONSTANTS
    Invocations,  \* calls of invoke()
    Retries,      \* delays of the reconnect policy before it returns null
    MaxStarts     \* bound: calls of start()

ASSUME RetriesAssumption == Retries \in Nat \ {0}
ASSUME StartsAssumption == MaxStarts \in Nat

VARIABLES
    phase,       \* the connection below: see Connection
    kind,        \* its transport: sends are done at once on a socket only
    keepAlive,   \* connection.features.inherentKeepAlive
    hub,         \* _connectionState
    hubStarted,  \* _connectionStarted
    told,        \* the last event the application was told of
    routine,     \* who runs _startInternal: start() or the reconnect loop
    task,        \* what the routine awaits
    attempts,    \* previousReconnectAttempts
    handshake,   \* the handshake promise
    received,    \* _receivedHandshakeResponse
    stopError,   \* _stopDuringStartError is set
    timers,      \* server timeouts that will fire
    tracked,     \* _timeoutHandle is the handle of one of them
    ping,        \* the keep-alive timer: none, armed, or fired in vain
    call,        \* the promise of each invocation
    callbacks,   \* _callbacks
    sending,     \* invocations whose POST request is on its way
    starts,      \* how many times start() has been called
    stopCall,    \* the application's last call of stop()
    slip         \* something happened that the hub does not cope with

linkVars == <<phase, kind, keepAlive>>
hubVars == <<hub, hubStarted, told>>
routineVars == <<routine, task, attempts>>
startVars == <<handshake, received, stopError>>
timerVars == <<timers, tracked, ping>>
callVars == <<call, callbacks, sending>>
userVars == <<starts, stopCall, slip>>
vars == <<linkVars, hubVars, routineVars, startVars, timerVars, callVars,
          userVars>>

C == INSTANCE Connection

Init ==
    /\ C!Init
    /\ kind = "socket"
    /\ keepAlive = FALSE
    /\ hub = "Disconnected"
    /\ hubStarted = FALSE
    /\ told = "nothing"
    /\ routine = "none"
    /\ task = "none"
    /\ attempts = 0
    /\ handshake = "pending"
    /\ received = FALSE
    /\ stopError = FALSE
    /\ timers = 0
    /\ tracked = FALSE
    /\ ping = "none"
    /\ call = [i \in Invocations |-> "none"]
    /\ callbacks = {}
    /\ sending = {}
    /\ starts = 0
    /\ stopCall = "no"
    /\ slip = FALSE

-----------------------------------------------------------------------------
(* Timers.  inherentKeepAlive belongs to the connection object and is      *)
(* never reset: after one start over long polling it holds for good.       *)

(* _cleanupTimeout: the timers left.                                       *)
Untimed == IF tracked THEN timers - 1 ELSE timers

CleanupTimers ==
    /\ timers' = Untimed
    /\ tracked' = FALSE
    /\ ping' = "none"

(* _resetTimeoutPeriod, when n timers are left.                            *)
ArmTimeout(n, inherent) ==
    /\ timers' = IF inherent THEN n ELSE n + 1
    /\ tracked' = ~inherent

(* The ping timer is set if there is no handle of an earlier one.          *)
PingArmed(p, inherent) == IF inherent \/ p # "none" THEN p ELSE "armed"

(* _resetKeepAliveInterval, before each message that is sent.              *)
PingReset(inherent) == IF inherent THEN ping ELSE "none"

(* The pieces that a slip would change, each preceded by the slip, a       *)
(* mutant the model does not use.                                          *)

TimersAsTheyAre(n, t) == n

(* The defensive _cleanupTimeout() of _startInternal.                      *)
TimersBeforeStart(n, t) == IF t THEN n - 1 ELSE n

StopErrorUnseen(error) == FALSE

(* if (this._stopDuringStartError), after the handshake.                   *)
SeesStopError(error) == error

CallbacksKept(ids) == ids

(* this._callbacks = {}, in _cancelCallbacksWithError.                     *)
CallbacksDropped(ids) == {}

HandshakeLeft(promise) == promise

(* _handshakeResolver(), when the connection is closed.                    *)
HandshakeReleased(promise) ==
    IF promise = "pending" THEN "resolved" ELSE promise

NotAwaited(p) == TRUE

(* await this.connection.stop(e), when a start fails.                      *)
StopAwaited(p) == p = "down"

ClosesAlways(started) == TRUE

(* if (this._connectionStarted), in _completeClose.                        *)
ClosesStarted(started) == started

(* this._receivedHandshakeResponse = false, at each start.                 *)
ReceivedReset(r) == FALSE

-----------------------------------------------------------------------------
CompleteClose ==
    IF ClosesStarted(hubStarted)
    THEN hub' = "Disconnected" /\ hubStarted' = FALSE /\ told' = "closed"
    ELSE UNCHANGED hubVars

(* _startInternal up to connection.start().                                *)
BeginStart ==
    /\ C!Open
    /\ task' = "opening"
    /\ handshake' = "pending"
    /\ received' = ReceivedReset(received)
    /\ stopError' = FALSE
    /\ UNCHANGED <<kind, keepAlive, timerVars, callVars>>

(* The catch block of _startInternal up to the end of connection.stop().   *)
AbortStart ==
    /\ CleanupTimers
    /\ task' = "aborting"
    /\ phase' = IF phase = "up" THEN "closing" ELSE phase
    /\ UNCHANGED <<kind, keepAlive, hubVars, routine, attempts, startVars,
                   callVars, userVars>>

(* start() is over, or the attempt of the reconnect loop.                  *)
FailRoutine ==
    \/ /\ routine = "start"
       /\ hub' = "Disconnected"
       /\ task' = "none"
       /\ UNCHANGED <<hubStarted, told, attempts>>
    \/ /\ routine = "reconnect"
       /\ hub = "Reconnecting"
       /\ attempts < Retries
       /\ task' = "delay"
       /\ attempts' = attempts + 1
       /\ UNCHANGED hubVars
    \/ /\ routine = "reconnect"
       /\ \/ hub = "Reconnecting" /\ attempts = Retries
          \/ hub = "Disconnecting"
       /\ task' = "none"
       /\ CompleteClose
       /\ UNCHANGED attempts
    \/ /\ routine = "reconnect"
       /\ hub \notin {"Reconnecting", "Disconnecting"}
       /\ task' = "none"
       /\ UNCHANGED <<hubVars, attempts>>

(* The state is set whatever it has become since the start began.          *)
SucceedRoutine ==
    /\ hub' = "Connected"
    /\ task' = "none"
    /\ IF routine = "start"
       THEN hubStarted' = TRUE /\ UNCHANGED told
       ELSE told' = "reconnected" /\ UNCHANGED hubStarted

-----------------------------------------------------------------------------
Start ==
    /\ hub = "Disconnected"
    /\ task = "none"
    /\ starts < MaxStarts
    /\ starts' = starts + 1
    /\ hub' = "Connecting"
    /\ told' = "nothing"
    /\ routine' = "start"
    /\ stopCall' = "no"
    /\ BeginStart
    /\ UNCHANGED <<hubStarted, attempts, slip>>

StopReturned ==
    stopCall = "waiting" /\ phase = "down" /\ (routine = "start" => task = "none")

(* No microtask waits.                                                     *)
Quiet ==
    /\ ~(task = "shaking" /\ handshake # "pending")
    /\ ~(task = "aborting" /\ phase = "down")
    /\ ~(phase = "closing" /\ kind # "polling")
    /\ ~StopReturned

ReconnectDelayOver ==
    /\ Quiet
    /\ task = "delay"
    /\ BeginStart
    /\ UNCHANGED <<hubVars, routine, attempts, userVars>>

(* connection.start() resolves and the handshake request is sent: at once, *)
(* or by a request that takes its time.                                    *)
ConnectionOpened ==
    /\ Quiet
    /\ task = "opening"
    /\ C!Opened
    /\ kind' \in {"socket", "events", "polling"}
    /\ keepAlive' = (keepAlive \/ kind' = "polling")
    /\ ping' = PingReset(keepAlive')
    /\ IF kind' = "socket"
       THEN /\ task' = "shaking"
            /\ ArmTimeout(TimersBeforeStart(timers, tracked), keepAlive')
       ELSE /\ task' = "sending"
            /\ UNCHANGED <<timers, tracked>>
    /\ UNCHANGED <<hubVars, routine, attempts, startVars, callVars, userVars>>

(* connection.start() is rejected; it may have got as far as a first poll. *)
ConnectionFailed ==
    /\ Quiet
    /\ task = "opening"
    /\ C!Failed
    /\ keepAlive' \in {keepAlive, TRUE}
    /\ FailRoutine
    /\ UNCHANGED <<kind, routine, startVars, timerVars, callVars, userVars>>

HandshakeSent ==
    /\ Quiet
    /\ task = "sending"
    /\ task' = "shaking"
    /\ ArmTimeout(TimersBeforeStart(timers, tracked), keepAlive)
    /\ ping' = PingReset(keepAlive)
    /\ UNCHANGED <<linkVars, hubVars, routine, attempts, startVars, callVars,
                   userVars>>

(* The handshake request or the first ping cannot be sent.                 *)
StartSendFails ==
    /\ Quiet
    /\ task \in {"sending", "pinging"}
    /\ AbortStart

(* The routine goes on after the handshake promise: to the first ping, or  *)
(* to the end if the transport keeps itself alive or sends at once.        *)
ShakeEnds ==
    /\ task = "shaking"
    /\ handshake # "pending"
    /\ LET fails == \/ handshake = "rejected"
                    \/ SeesStopError(stopError)
                    \/ ~keepAlive /\ phase # "up" IN
         \/ fails /\ AbortStart
         \/ /\ ~fails
            /\ ping' = PingReset(keepAlive)
            /\ \/ /\ keepAlive \/ kind = "socket"
                  /\ SucceedRoutine
               \/ /\ ~keepAlive /\ kind # "socket"
                  /\ task' = "pinging"
                  /\ UNCHANGED hubVars
            /\ UNCHANGED <<linkVars, routine, attempts, startVars, timers,
                           tracked, callVars, userVars>>

(* The first ping has been sent.  Whether the connection is still there is *)
(* not looked at again.                                                    *)
PingSent ==
    /\ Quiet
    /\ task = "pinging"
    /\ SucceedRoutine
    /\ slip' = (slip \/ phase = "down")
    /\ UNCHANGED <<linkVars, routine, attempts, startVars, timerVars,
                   callVars, starts, stopCall>>

(* connection.stop() of the catch block has ended.                         *)
StartAborted ==
    /\ task = "aborting"
    /\ StopAwaited(phase)
    /\ FailRoutine
    /\ UNCHANGED <<linkVars, routine, startVars, timerVars, callVars,
                   userVars>>

-----------------------------------------------------------------------------
(* _reconnect up to its first delay.  The callback of onreconnecting may   *)
(* call stop(), which finds no delay to end and no connection to stop.     *)
Reconnect ==
    /\ told' = "reconnecting"
    /\ \/ /\ hub' = "Reconnecting"
          /\ routine' = "reconnect"
          /\ task' = "delay"
          /\ attempts' = 1
          /\ UNCHANGED <<hubStarted, stopCall, slip>>
       \/ /\ hub' = "Disconnecting"
          /\ stopCall' = "returned"
          /\ slip' = TRUE
          /\ UNCHANGED <<hubStarted, routineVars>>

(* _connectionClosed, the onclose of the connection.                       *)
ConnectionClosed ==
    /\ C!Closed
    /\ stopError' = TRUE
    /\ CleanupTimers
    /\ call' = [i \in Invocations |->
                  IF i \in callbacks THEN "rejected" ELSE call[i]]
    /\ callbacks' = CallbacksDropped(callbacks)
    /\ \/ hub = "Connected" /\ Reconnect
       \/ /\ hub = "Disconnecting"
          /\ CompleteClose
          /\ UNCHANGED <<routineVars, stopCall, slip>>
       \/ /\ hub \notin {"Connected", "Disconnecting"}
          /\ UNCHANGED <<hubVars, routineVars, stopCall, slip>>
    /\ UNCHANGED <<kind, keepAlive, sending, starts>>

(* The transport ends by itself.                                           *)
ConnectionDropped ==
    /\ Quiet
    /\ phase = "up"
    /\ handshake' = HandshakeReleased(handshake)
    /\ ConnectionClosed
    /\ UNCHANGED received

(* A call of connection.stop() has done its work.                          *)
StopCompletes ==
    /\ phase = "closing"
    /\ handshake' = HandshakeReleased(handshake)
    /\ ConnectionClosed
    /\ UNCHANGED received

-----------------------------------------------------------------------------
(* Data arrive while the connection is up, or while polling is stopped.    *)
Arrives ==
    /\ Quiet
    /\ \/ phase = "up"
       \/ phase = "closing" /\ kind = "polling"

(* _processIncomingData, around what the message does.                     *)
Rearm ==
    /\ ArmTimeout(Untimed, keepAlive)
    /\ ping' = PingArmed(ping, keepAlive)

(* The first data of a connection are the handshake response.              *)
HandshakeAnswered ==
    /\ Arrives
    /\ ~received
    /\ received' = TRUE
    /\ handshake' = HandshakeReleased(handshake)
    /\ Rearm
    /\ UNCHANGED <<linkVars, hubVars, routineVars, stopError, callVars,
                   userVars>>

(* They are an error or cannot be parsed.  _processIncomingData throws,    *)
(* which ends the transport, if it is not being stopped already.           *)
HandshakeRefused ==
    /\ Arrives
    /\ ~received
    /\ handshake' = "rejected"
    /\ \/ phase = "up" /\ ConnectionClosed
       \/ /\ phase = "closing"
          /\ timers' = Untimed
          /\ tracked' = FALSE
          /\ UNCHANGED <<linkVars, hubVars, routineVars, stopError, ping,
                         callVars, userVars>>
    /\ UNCHANGED received

(* A message for a method of the client, or a ping.                        *)
MessageArrives ==
    /\ Arrives
    /\ received
    /\ Rearm
    /\ UNCHANGED <<linkVars, hubVars, routineVars, startVars, callVars,
                   userVars>>

(* The completion of an invocation, with its result.                       *)
CompletionArrives(i) ==
    /\ Arrives
    /\ received
    /\ i \in callbacks
    /\ callbacks' = callbacks \ {i}
    /\ call' = [call EXCEPT ![i] = "resolved"]
    /\ Rearm
    /\ UNCHANGED <<linkVars, hubVars, routineVars, startVars, sending,
                   userVars>>

StopConnection ==
    \/ C!Close
    \/ phase \notin {"starting", "up"} /\ UNCHANGED phase

(* _stopInternal, but for its timers.                                      *)
StopInternal ==
    \/ /\ hub \in {"Disconnected", "Disconnecting"}
       /\ UNCHANGED <<phase, hubVars, task, stopError>>
    \/ /\ hub \notin {"Disconnected", "Disconnecting"}
       /\ task = "delay"
       /\ task' = "none"
       /\ CompleteClose
       /\ UNCHANGED <<phase, stopError>>
    \/ /\ hub \notin {"Disconnected", "Disconnecting"}
       /\ task # "delay"
       /\ hub' = "Disconnecting"
       /\ stopError' = TRUE
       /\ StopConnection
       /\ UNCHANGED <<hubStarted, told, task>>

(* The server closes the connection, and allows to reconnect or not.       *)
CloseArrives ==
    /\ Arrives
    /\ received
    /\ \/ /\ StopConnection
          /\ UNCHANGED <<hubVars, task, stopError>>
       \/ StopInternal
    /\ ArmTimeout(Untimed, keepAlive)
    /\ ping' \in {PingArmed(ping, keepAlive), PingArmed("none", keepAlive)}
    /\ UNCHANGED <<kind, keepAlive, routine, attempts, handshake, received,
                   callVars, userVars>>

-----------------------------------------------------------------------------
(* serverTimeout: nothing has arrived for too long.                        *)
ServerTimeout ==
    /\ Quiet
    /\ timers > 0
    /\ timers' = timers - 1
    /\ tracked' = FALSE
    /\ StopConnection
    /\ UNCHANGED <<kind, keepAlive, hubVars, routineVars, startVars, ping,
                   callVars, userVars>>

(* The ping timer: a ping is sent, if the hub is connected.                *)
PingTimer ==
    /\ Quiet
    /\ ping = "armed"
    /\ ping' = IF hub = "Connected" THEN "none" ELSE "fired"
    /\ UNCHANGED <<linkVars, hubVars, routineVars, startVars, timers,
                   tracked, callVars, userVars>>

-----------------------------------------------------------------------------
(* invoke(): without a connection the send is rejected at once.            *)
Invoke(i) ==
    /\ call[i] = "none"
    /\ ping' = PingReset(keepAlive)
    /\ \/ /\ phase = "up"
          /\ call' = [call EXCEPT ![i] = "pending"]
          /\ callbacks' = callbacks \cup {i}
          /\ sending' = IF kind = "socket" THEN sending ELSE sending \cup {i}
       \/ /\ phase # "up"
          /\ call' = [call EXCEPT ![i] = "rejected"]
          /\ UNCHANGED <<callbacks, sending>>
    /\ UNCHANGED <<linkVars, hubVars, routineVars, startVars, timers,
                   tracked, userVars>>

(* The POST request of an invocation is answered, or it fails.             *)
InvocationSent(i) ==
    /\ Quiet
    /\ i \in sending
    /\ sending' = sending \ {i}
    /\ \/ UNCHANGED <<call, callbacks>>
       \/ /\ callbacks' = callbacks \ {i}
          /\ call' = [call EXCEPT ![i] = IF @ = "pending" THEN "rejected"
                                                          ELSE @]
    /\ UNCHANGED <<linkVars, hubVars, routineVars, startVars, timerVars,
                   userVars>>

(* The application calls stop(), in a state in which it is not ignored.    *)
Stop ==
    /\ hub \notin {"Disconnected", "Disconnecting"}
    /\ stopCall' = "waiting"
    /\ StopInternal
    /\ IF task = "delay" THEN UNCHANGED timerVars ELSE CleanupTimers
    /\ UNCHANGED <<kind, keepAlive, routine, attempts, handshake, received,
                   callVars, starts, slip>>

(* stop() has awaited the connection and the call of start().              *)
StopReturns ==
    /\ StopReturned
    /\ stopCall' = "returned"
    /\ UNCHANGED <<linkVars, hubVars, routineVars, startVars, timerVars,
                   callVars, starts, slip>>

-----------------------------------------------------------------------------
ServerSpeaks ==
    \/ HandshakeAnswered
    \/ HandshakeRefused
    \/ MessageArrives
    \/ \E i \in Invocations : CompletionArrives(i)
    \/ CloseArrives

RoutineGoesOn ==
    \/ ReconnectDelayOver
    \/ ConnectionOpened
    \/ ConnectionFailed
    \/ HandshakeSent
    \/ StartSendFails
    \/ ShakeEnds
    \/ PingSent
    \/ StartAborted

Next ==
    \/ Start
    \/ RoutineGoesOn
    \/ ConnectionDropped
    \/ StopCompletes
    \/ ServerSpeaks
    \/ ServerTimeout
    \/ PingTimer
    \/ \E i \in Invocations : Invoke(i) \/ InvocationSent(i)
    \/ Stop
    \/ StopReturns

(* The connection keeps its promises, requests are answered or time out,   *)
(* and delays pass.  A hub that waits for the handshake hears from the     *)
(* server or its timer fires; over long polling, which arms no timer, it   *)
(* is the server that gives the handshake a time limit.                    *)
Fairness ==
    /\ WF_vars(RoutineGoesOn)
    /\ WF_vars(StopCompletes)
    /\ WF_vars(StopReturns)
    /\ WF_vars(/\ task = "shaking"
               /\ \/ HandshakeAnswered
                  \/ HandshakeRefused
                  \/ ConnectionDropped
                  \/ ServerTimeout)

Spec == Init /\ [][Next]_vars

FairSpec == Spec /\ Fairness

-----------------------------------------------------------------------------
(* Every variable keeps its type, and an invocation is pending as long as  *)
(* there is a callback for it.                                             *)
TypeOK ==
    /\ phase \in C!Phases
    /\ kind \in {"socket", "events", "polling"}
    /\ keepAlive \in BOOLEAN
    /\ hub \in {"Disconnected", "Connecting", "Connected", "Disconnecting",
                "Reconnecting"}
    /\ hubStarted \in BOOLEAN
    /\ told \in {"nothing", "reconnecting", "reconnected", "closed"}
    /\ routine \in {"none", "start", "reconnect"}
    /\ task \in {"none", "opening", "sending", "shaking", "pinging",
                 "aborting", "delay"}
    /\ attempts \in 0 .. Retries
    /\ handshake \in {"pending", "resolved", "rejected"}
    /\ received \in BOOLEAN
    /\ stopError \in BOOLEAN
    /\ timers \in Nat
    /\ tracked \in BOOLEAN
    /\ ping \in {"none", "armed", "fired"}
    /\ call \in [Invocations -> {"none", "pending", "resolved", "rejected"}]
    /\ callbacks = {i \in Invocations : call[i] = "pending"}
    /\ sending \in SUBSET Invocations
    /\ starts \in 0 .. MaxStarts
    /\ stopCall \in {"no", "waiting", "returned"}
    /\ slip \in BOOLEAN

(* Unless the connection goes while the first ping is on its way, a hub    *)
(* says "Connected" only on a connection whose handshake the server has    *)
(* answered: not on one that was closed, stopped or replaced meanwhile.    *)
ConnectedMeansShaken ==
    ~slip /\ hub = "Connected" => phase \in {"up", "closing"} /\ received

(* A hub that says "Disconnected" has let go of its connection: a start    *)
(* that fails after the connection was opened closes it again first.       *)
DisconnectedMeansClosed == hub = "Disconnected" => phase = "down"

(* What the application was told last agrees with the state: no event is   *)
(* left out or told too late, and onclose is never told for a start that   *)
(* is still running, which will be rejected.                               *)
ToldTheTruth ==
    ~slip =>
        /\ hub = "Connecting" => told = "nothing" /\ ~hubStarted
        /\ hub = "Connected" => told \in {"nothing", "reconnected"}
        /\ hub = "Reconnecting" => told = "reconnecting"
        /\ hub = "Disconnected" => ~hubStarted /\ told \in {"nothing", "closed"}
        /\ told = "closed" =>
              hub = "Disconnected" /\ (routine = "start" => task = "none")

(* No invocation waits for an answer that cannot come any more: the answer *)
(* belongs to the connection the invocation was sent on.                   *)
NoOrphanedCall == callbacks # {} => phase \in {"up", "closing"}

(* A silent server is noticed: on an open connection that does not keep    *)
(* itself alive exactly one server timeout runs.  None outlives its        *)
(* connection, where it would stop the next one.                           *)
OneServerTimeout ==
    Quiet =>
        /\ timers <= 1
        /\ phase \in {"down", "starting"} => timers = 0
        /\ hub = "Connected" /\ phase = "up" /\ ~keepAlive => timers = 1

(* Whatever fails, starting and reconnecting come to an end, stop()        *)
(* returns, and a hub that is told to stop gets there.  Only the last is   *)
(* not said of a hub that something happened to that it does not cope      *)
(* with.                                                                   *)
StartAndStopEnd ==
    /\ task # "none" ~> task = "none"
    /\ stopCall = "waiting" ~> stopCall # "waiting"
    /\ hub = "Disconnecting" ~> hub = "Disconnected" \/ slip
=============================================================================
