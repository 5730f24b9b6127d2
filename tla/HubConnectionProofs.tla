-------------------------- MODULE HubConnectionProofs --------------------------
(***************************************************************************)
(* Theorems about HubConnection, for any invocations, any number of        *)
(* attempts to reconnect and any number of starts.                         *)
(***************************************************************************)
EXTENDS HubConnection, TLAPS

FlagsOK ==
    /\ keepAlive \in BOOLEAN
    /\ hubStarted \in BOOLEAN
    /\ received \in BOOLEAN
    /\ stopError \in BOOLEAN
    /\ tracked \in BOOLEAN
    /\ slip \in BOOLEAN

StatesOK ==
    /\ phase \in {"down", "starting", "cancelled", "up", "closing"}
    /\ kind \in {"socket", "events", "polling"}
    /\ hub \in {"Disconnected", "Connecting", "Connected", "Disconnecting",
                "Reconnecting"}
    /\ told \in {"nothing", "reconnecting", "reconnected", "closed"}
    /\ routine \in {"none", "start", "reconnect"}
    /\ task \in {"none", "opening", "sending", "shaking", "pinging",
                 "aborting", "delay"}
    /\ handshake \in {"pending", "resolved", "rejected"}
    /\ ping \in {"none", "armed", "fired"}
    /\ stopCall \in {"no", "waiting", "returned"}

CountersOK ==
    /\ attempts \in 0 .. Retries
    /\ starts \in 0 .. MaxStarts
    /\ timers \in Nat
    /\ tracked => timers > 0

CallsOK ==
    /\ call \in [Invocations -> {"none", "pending", "resolved", "rejected"}]
    /\ callbacks = {i \in Invocations : call[i] = "pending"}
    /\ sending \in SUBSET Invocations

(* How far the routine is, and what the connection below is doing.         *)
RoutineFollowsPhase ==
    /\ task = "opening" <=> phase \in {"starting", "cancelled"}
    /\ task = "delay" => phase = "down" /\ hub = "Reconnecting"
    /\ hub = "Connected" => task = "none"
    /\ DisconnectedMeansClosed

(* A handshake that has been answered is one of the present connection.    *)
HandshakeIsFresh ==
    /\ task = "opening" => handshake = "pending"
    /\ handshake = "resolved" /\ ~stopError =>
          received /\ phase \in {"up", "closing"}
    /\ task = "pinging" => received
    /\ ConnectedMeansShaken

(* Until start() has succeeded nothing is told of it.                      *)
NothingToldEarly ==
    /\ ~slip /\ routine = "start" /\ task # "none" =>
          told = "nothing" /\ ~hubStarted
    /\ ToldTheTruth

(* As many server timeouts run as there are handles.                       *)
TimersCounted ==
    /\ tracked => timers = 1
    /\ ~tracked => timers = 0

(* A timer is armed once the connection is up and the handshake request is *)
(* on its way, and only then; a routine that finds its connection gone has *)
(* its handshake promise settled and stops the timer it may still arm.     *)
TimerFollowsPhase ==
    /\ kind = "polling" /\ phase \in {"up", "closing"} => keepAlive
    /\ phase \in {"down", "starting", "cancelled"} /\ tracked =>
          task = "shaking" /\ handshake # "pending"
    /\ phase = "down" /\ task \in {"sending", "shaking"} =>
          handshake # "pending"
    /\ phase = "up" /\ ~keepAlive /\ task # "sending" => tracked

(* Who runs the routine, and what is left to bring a stop to its end.      *)
StopsAreServed ==
    /\ hub = "Connecting" => routine = "start"
    /\ task # "none" => routine # "none"
    /\ task = "delay" => routine = "reconnect"
    /\ hub \in {"Connecting", "Reconnecting"} => task # "none"
    /\ routine = "reconnect" /\ task # "none" =>
          hubStarted \/ hub = "Disconnected"
    /\ hub = "Connected" /\ phase # "down" => hubStarted
    /\ hub = "Disconnecting" /\ task = "none" =>
          slip \/ (hubStarted /\ phase = "closing")
    /\ stopCall = "waiting" => phase \notin {"starting", "up"}

IInv ==
    /\ FlagsOK /\ StatesOK /\ CountersOK /\ CallsOK
    /\ RoutineFollowsPhase
    /\ HandshakeIsFresh
    /\ NothingToldEarly
    /\ NoOrphanedCall
    /\ TimersCounted /\ TimerFollowsPhase
    /\ StopsAreServed

-----------------------------------------------------------------------------
LEMMA InitInv == Init => IInv
<1> SUFFICES ASSUME Init PROVE IInv
  OBVIOUS
<1> USE DEF Init, C!Init
<1>1. FlagsOK
  BY DEF FlagsOK
<1>2. StatesOK
  BY DEF StatesOK
<1>3. CountersOK
  <2>1. ~tracked
    OBVIOUS
  <2>2. attempts \in 0 .. Retries /\ starts \in 0 .. MaxStarts /\ timers \in Nat
    BY RetriesAssumption, StartsAssumption
  <2> QED BY <2>1, <2>2 DEF CountersOK
<1>4. CallsOK
  BY DEF CallsOK
<1>5. RoutineFollowsPhase
  BY DEF RoutineFollowsPhase, DisconnectedMeansClosed
<1>6. HandshakeIsFresh
  BY DEF HandshakeIsFresh, ConnectedMeansShaken
<1>7. NothingToldEarly
  BY DEF NothingToldEarly, ToldTheTruth
<1>8. NoOrphanedCall
  BY DEF NoOrphanedCall
<1>9. TimersCounted /\ TimerFollowsPhase
  BY DEF TimersCounted, TimerFollowsPhase
<1>10. StopsAreServed
  BY DEF StopsAreServed
<1> QED
  BY <1>1, <1>2, <1>3, <1>4, <1>5, <1>6, <1>7, <1>8, <1>9, <1>10 DEF IInv

-----------------------------------------------------------------------------
(* The types, part by part.                                                *)
LEMMA FlagsStep == FlagsOK /\ Next => FlagsOK'
<1> SUFFICES ASSUME FlagsOK, Next PROVE FlagsOK'
  OBVIOUS
<1> USE DEF FlagsOK, linkVars, hubVars, routineVars, startVars, timerVars,
            callVars, userVars
<1>1. CASE Start
  BY <1>1 DEF Start, BeginStart, ReceivedReset, C!Open
<1>2. CASE ReconnectDelayOver
  BY <1>2 DEF ReconnectDelayOver, BeginStart, ReceivedReset, C!Open
<1>3. CASE ConnectionOpened
  BY <1>3 DEF ConnectionOpened, C!Opened, ArmTimeout, TimersBeforeStart, PingReset
<1>4. CASE ConnectionFailed
  BY <1>4 DEF ConnectionFailed, C!Failed, FailRoutine, CompleteClose, ClosesStarted
<1>5. CASE HandshakeSent
  BY <1>5 DEF HandshakeSent, ArmTimeout, TimersBeforeStart, PingReset
<1>6. CASE StartSendFails
  BY <1>6 DEF StartSendFails, AbortStart, CleanupTimers, Untimed
<1>7. CASE ShakeEnds
  BY <1>7 DEF ShakeEnds, SeesStopError, AbortStart, CleanupTimers, Untimed, PingReset,
     SucceedRoutine
<1>8. CASE PingSent
  BY <1>8 DEF PingSent, SucceedRoutine
<1>9. CASE StartAborted
  BY <1>9 DEF StartAborted, StopAwaited, FailRoutine, CompleteClose, ClosesStarted
<1>10. CASE ConnectionDropped \/ StopCompletes
  BY <1>10 DEF ConnectionDropped, StopCompletes, HandshakeReleased, ConnectionClosed,
     C!Closed, CleanupTimers, Untimed, CallbacksDropped, Reconnect,
     CompleteClose, ClosesStarted
<1>11. CASE HandshakeRefused
  BY <1>11 DEF HandshakeRefused, Arrives, ConnectionClosed, C!Closed, CleanupTimers,
     Untimed, CallbacksDropped, Reconnect, CompleteClose, ClosesStarted
<1>12. CASE HandshakeAnswered \/ MessageArrives
  BY <1>12 DEF HandshakeAnswered, MessageArrives, Arrives, HandshakeReleased, Rearm,
     ArmTimeout, Untimed, PingArmed
<1>13. ASSUME NEW i \in Invocations, CompletionArrives(i)
       PROVE  FlagsOK'
  BY <1>13 DEF CompletionArrives, Arrives, Rearm, ArmTimeout, Untimed, PingArmed
<1>14. CASE CloseArrives
  BY <1>14 DEF CloseArrives, Arrives, StopConnection, StopInternal, C!Close,
     CompleteClose, ClosesStarted, ArmTimeout, Untimed, PingArmed
<1>15. CASE ServerTimeout \/ PingTimer
  BY <1>15 DEF ServerTimeout, PingTimer, StopConnection, C!Close
<1>16. ASSUME NEW i \in Invocations, Invoke(i) \/ InvocationSent(i)
       PROVE  FlagsOK'
  BY <1>16 DEF Invoke, InvocationSent, PingReset
<1>17. CASE Stop \/ StopReturns
  BY <1>17 DEF Stop, StopReturns, StopInternal, StopConnection, C!Close, CompleteClose,
     ClosesStarted, CleanupTimers, Untimed
<1> QED
  BY <1>1, <1>2, <1>3, <1>4, <1>5, <1>6, <1>7, <1>8, <1>9, <1>10, <1>11,
     <1>12, <1>13, <1>14, <1>15, <1>16, <1>17
     DEF Next, RoutineGoesOn, ServerSpeaks

LEMMA StatesStep == StatesOK /\ Next => StatesOK'
<1> SUFFICES ASSUME StatesOK, Next PROVE StatesOK'
  OBVIOUS
<1> USE DEF StatesOK, linkVars, hubVars, routineVars, startVars, timerVars,
            callVars, userVars
<1>1. CASE Start
  BY <1>1 DEF Start, BeginStart, ReceivedReset, C!Open
<1>2. CASE ReconnectDelayOver
  BY <1>2 DEF ReconnectDelayOver, BeginStart, ReceivedReset, C!Open
<1>3. CASE ConnectionOpened
  BY <1>3 DEF ConnectionOpened, C!Opened, ArmTimeout, TimersBeforeStart, PingReset
<1>4. CASE ConnectionFailed
  BY <1>4 DEF ConnectionFailed, C!Failed, FailRoutine, CompleteClose, ClosesStarted
<1>5. CASE HandshakeSent
  BY <1>5 DEF HandshakeSent, ArmTimeout, TimersBeforeStart, PingReset
<1>6. CASE StartSendFails
  BY <1>6 DEF StartSendFails, AbortStart, CleanupTimers, Untimed
<1>7. CASE ShakeEnds
  BY <1>7 DEF ShakeEnds, SeesStopError, AbortStart, CleanupTimers, Untimed, PingReset,
     SucceedRoutine
<1>8. CASE PingSent
  BY <1>8 DEF PingSent, SucceedRoutine
<1>9. CASE StartAborted
  BY <1>9 DEF StartAborted, StopAwaited, FailRoutine, CompleteClose, ClosesStarted
<1>10. CASE ConnectionDropped \/ StopCompletes
  BY <1>10 DEF ConnectionDropped, StopCompletes, HandshakeReleased, ConnectionClosed,
     C!Closed, CleanupTimers, Untimed, CallbacksDropped, Reconnect,
     CompleteClose, ClosesStarted
<1>11. CASE HandshakeRefused
  BY <1>11 DEF HandshakeRefused, Arrives, ConnectionClosed, C!Closed, CleanupTimers,
     Untimed, CallbacksDropped, Reconnect, CompleteClose, ClosesStarted
<1>12. CASE HandshakeAnswered \/ MessageArrives
  BY <1>12 DEF HandshakeAnswered, MessageArrives, Arrives, HandshakeReleased, Rearm,
     ArmTimeout, Untimed, PingArmed
<1>13. ASSUME NEW i \in Invocations, CompletionArrives(i)
       PROVE  StatesOK'
  BY <1>13 DEF CompletionArrives, Arrives, Rearm, ArmTimeout, Untimed, PingArmed
<1>14. CASE CloseArrives
  BY <1>14 DEF CloseArrives, Arrives, StopConnection, StopInternal, C!Close,
     CompleteClose, ClosesStarted, ArmTimeout, Untimed, PingArmed
<1>15. CASE ServerTimeout \/ PingTimer
  BY <1>15 DEF ServerTimeout, PingTimer, StopConnection, C!Close
<1>16. ASSUME NEW i \in Invocations, Invoke(i) \/ InvocationSent(i)
       PROVE  StatesOK'
  BY <1>16 DEF Invoke, InvocationSent, PingReset
<1>17. CASE Stop \/ StopReturns
  BY <1>17 DEF Stop, StopReturns, StopInternal, StopConnection, C!Close, CompleteClose,
     ClosesStarted, CleanupTimers, Untimed
<1> QED
  BY <1>1, <1>2, <1>3, <1>4, <1>5, <1>6, <1>7, <1>8, <1>9, <1>10, <1>11,
     <1>12, <1>13, <1>14, <1>15, <1>16, <1>17
     DEF Next, RoutineGoesOn, ServerSpeaks

(* The timers that are left, and those there are when one is armed.        *)
LEMMA TimersLeft ==
    FlagsOK /\ CountersOK =>
        Untimed \in Nat /\ TimersBeforeStart(timers, tracked) \in Nat
<1> SUFFICES ASSUME FlagsOK, CountersOK
             PROVE  Untimed \in Nat /\ TimersBeforeStart(timers, tracked) \in Nat
  OBVIOUS
<1> USE DEF FlagsOK, CountersOK, Untimed, TimersBeforeStart
<1>1. CASE tracked
  <2>1. timers \in Nat /\ timers > 0
    BY <1>1
  <2>2. timers - 1 \in Nat
    BY <2>1
  <2> QED BY <1>1, <2>2
<1>2. CASE ~tracked
  BY <1>2
<1> QED BY <1>1, <1>2

LEMMA TimersArmed ==
    ASSUME NEW n \in Nat, NEW inherent, ArmTimeout(n, inherent)
    PROVE  timers' \in Nat /\ (tracked' => timers' > 0)
<1> USE DEF ArmTimeout
<1>1. CASE inherent
  <2>1. timers' = n /\ ~tracked'
    BY <1>1
  <2> QED BY <2>1
<1>2. CASE ~inherent
  <2>1. timers' = n + 1
    BY <1>2
  <2> QED BY <2>1
<1> QED BY <1>1, <1>2

LEMMA CountersStep == FlagsOK /\ CountersOK /\ Next => CountersOK'
<1> SUFFICES ASSUME FlagsOK, CountersOK, Next PROVE CountersOK'
  OBVIOUS
<1> USE RetriesAssumption, StartsAssumption DEF FlagsOK, CountersOK, linkVars, hubVars, routineVars, startVars,
            timerVars, callVars, userVars
<1>1. CASE Start
  BY <1>1 DEF Start, BeginStart, ReceivedReset, C!Open
<1>2. CASE ReconnectDelayOver
  BY <1>2 DEF ReconnectDelayOver, BeginStart, ReceivedReset, C!Open
<1>3. CASE ConnectionOpened
  <2>1. UNCHANGED <<attempts, starts>>
    BY <1>3 DEF ConnectionOpened
  <2>2. \/ ArmTimeout(TimersBeforeStart(timers, tracked), keepAlive')
        \/ UNCHANGED <<timers, tracked>>
    BY <1>3 DEF ConnectionOpened
  <2> QED BY <2>1, <2>2, TimersLeft, TimersArmed
<1>4. CASE ConnectionFailed
  BY <1>4 DEF ConnectionFailed, C!Failed, FailRoutine, CompleteClose, ClosesStarted
<1>5. CASE HandshakeSent
  <2>1. UNCHANGED <<attempts, starts>>
    BY <1>5 DEF HandshakeSent
  <2>2. ArmTimeout(TimersBeforeStart(timers, tracked), keepAlive)
    BY <1>5 DEF HandshakeSent
  <2> QED BY <2>1, <2>2, TimersLeft, TimersArmed
<1>6. CASE StartSendFails
  BY <1>6 DEF StartSendFails, AbortStart, CleanupTimers, Untimed
<1>7. CASE ShakeEnds
  BY <1>7 DEF ShakeEnds, SeesStopError, AbortStart, CleanupTimers, Untimed, PingReset,
     SucceedRoutine
<1>8. CASE PingSent
  BY <1>8 DEF PingSent, SucceedRoutine
<1>9. CASE StartAborted
  BY <1>9 DEF StartAborted, StopAwaited, FailRoutine, CompleteClose, ClosesStarted
<1>10. CASE ConnectionDropped \/ StopCompletes
  BY <1>10 DEF ConnectionDropped, StopCompletes, HandshakeReleased, ConnectionClosed,
     C!Closed, CleanupTimers, Untimed, CallbacksDropped, Reconnect,
     CompleteClose, ClosesStarted
<1>11. CASE HandshakeRefused
  BY <1>11 DEF HandshakeRefused, Arrives, ConnectionClosed, C!Closed, CleanupTimers,
     Untimed, CallbacksDropped, Reconnect, CompleteClose, ClosesStarted
<1>12. CASE HandshakeAnswered \/ MessageArrives
  <2>1. UNCHANGED <<attempts, starts>>
    BY <1>12 DEF HandshakeAnswered, MessageArrives, Rearm
  <2>2. ArmTimeout(Untimed, keepAlive)
    BY <1>12 DEF HandshakeAnswered, MessageArrives, Rearm
  <2> QED BY <2>1, <2>2, TimersLeft, TimersArmed
<1>13. ASSUME NEW i \in Invocations, CompletionArrives(i)
       PROVE  CountersOK'
  <2>1. UNCHANGED <<attempts, starts>>
    BY <1>13 DEF CompletionArrives, Rearm
  <2>2. ArmTimeout(Untimed, keepAlive)
    BY <1>13 DEF CompletionArrives, Rearm
  <2> QED BY <2>1, <2>2, TimersLeft, TimersArmed
<1>14. CASE CloseArrives
  <2>1. UNCHANGED <<attempts, starts>>
    BY <1>14 DEF CloseArrives, StopInternal, CompleteClose
  <2>2. ArmTimeout(Untimed, keepAlive)
    BY <1>14 DEF CloseArrives, StopInternal, CompleteClose
  <2> QED BY <2>1, <2>2, TimersLeft, TimersArmed
<1>15. CASE ServerTimeout \/ PingTimer
  <2>1. UNCHANGED <<attempts, starts>>
    BY <1>15 DEF ServerTimeout, PingTimer
  <2>2. \/ timers > 0 /\ timers' = timers - 1 /\ tracked' = FALSE
        \/ UNCHANGED <<timers, tracked>>
    BY <1>15 DEF ServerTimeout, PingTimer
  <2> QED BY <2>1, <2>2
<1>16. ASSUME NEW i \in Invocations, Invoke(i) \/ InvocationSent(i)
       PROVE  CountersOK'
  BY <1>16 DEF Invoke, InvocationSent, PingReset
<1>17. CASE Stop \/ StopReturns
  BY <1>17 DEF Stop, StopReturns, StopInternal, StopConnection, C!Close, CompleteClose,
     ClosesStarted, CleanupTimers, Untimed
<1> QED
  BY <1>1, <1>2, <1>3, <1>4, <1>5, <1>6, <1>7, <1>8, <1>9, <1>10, <1>11,
     <1>12, <1>13, <1>14, <1>15, <1>16, <1>17
     DEF Next, RoutineGoesOn, ServerSpeaks

LEMMA CallsStep == CallsOK /\ Next => CallsOK'
<1> SUFFICES ASSUME CallsOK, Next PROVE CallsOK'
  OBVIOUS
<1> USE DEF CallsOK, linkVars, hubVars, routineVars, startVars, timerVars,
            callVars, userVars
<1>1. CASE Start
  BY <1>1 DEF Start, BeginStart, ReceivedReset, C!Open
<1>2. CASE ReconnectDelayOver
  BY <1>2 DEF ReconnectDelayOver, BeginStart, ReceivedReset, C!Open
<1>3. CASE ConnectionOpened
  BY <1>3 DEF ConnectionOpened, C!Opened, ArmTimeout, TimersBeforeStart, PingReset
<1>4. CASE ConnectionFailed
  BY <1>4 DEF ConnectionFailed, C!Failed, FailRoutine, CompleteClose, ClosesStarted
<1>5. CASE HandshakeSent
  BY <1>5 DEF HandshakeSent, ArmTimeout, TimersBeforeStart, PingReset
<1>6. CASE StartSendFails
  BY <1>6 DEF StartSendFails, AbortStart, CleanupTimers, Untimed
<1>7. CASE ShakeEnds
  BY <1>7 DEF ShakeEnds, SeesStopError, AbortStart, CleanupTimers, Untimed, PingReset,
     SucceedRoutine
<1>8. CASE PingSent
  BY <1>8 DEF PingSent, SucceedRoutine
<1>9. CASE StartAborted
  BY <1>9 DEF StartAborted, StopAwaited, FailRoutine, CompleteClose, ClosesStarted
<1>10. CASE ConnectionDropped \/ StopCompletes
  BY <1>10 DEF ConnectionDropped, StopCompletes, HandshakeReleased, ConnectionClosed,
     C!Closed, CleanupTimers, Untimed, CallbacksDropped, Reconnect,
     CompleteClose, ClosesStarted
<1>11. CASE HandshakeRefused
  BY <1>11 DEF HandshakeRefused, Arrives, ConnectionClosed, C!Closed, CleanupTimers,
     Untimed, CallbacksDropped, Reconnect, CompleteClose, ClosesStarted
<1>12. CASE HandshakeAnswered \/ MessageArrives
  BY <1>12 DEF HandshakeAnswered, MessageArrives, Arrives, HandshakeReleased, Rearm,
     ArmTimeout, Untimed, PingArmed
<1>13. ASSUME NEW i \in Invocations, CompletionArrives(i)
       PROVE  CallsOK'
  BY <1>13 DEF CompletionArrives, Arrives, Rearm, ArmTimeout, Untimed, PingArmed
<1>14. CASE CloseArrives
  BY <1>14 DEF CloseArrives, Arrives, StopConnection, StopInternal, C!Close,
     CompleteClose, ClosesStarted, ArmTimeout, Untimed, PingArmed
<1>15. CASE ServerTimeout \/ PingTimer
  BY <1>15 DEF ServerTimeout, PingTimer, StopConnection, C!Close
<1>16. ASSUME NEW i \in Invocations, Invoke(i) \/ InvocationSent(i)
       PROVE  CallsOK'
  BY <1>16 DEF Invoke, InvocationSent, PingReset
<1>17. CASE Stop \/ StopReturns
  BY <1>17 DEF Stop, StopReturns, StopInternal, StopConnection, C!Close, CompleteClose,
     ClosesStarted, CleanupTimers, Untimed
<1> QED
  BY <1>1, <1>2, <1>3, <1>4, <1>5, <1>6, <1>7, <1>8, <1>9, <1>10, <1>11,
     <1>12, <1>13, <1>14, <1>15, <1>16, <1>17
     DEF Next, RoutineGoesOn, ServerSpeaks

-----------------------------------------------------------------------------
(* The relations between the hub, its routine and the connection.          *)
LEMMA RoutineStep == StatesOK /\ RoutineFollowsPhase /\ Next => RoutineFollowsPhase'
<1> SUFFICES ASSUME StatesOK, RoutineFollowsPhase, Next PROVE RoutineFollowsPhase'
  OBVIOUS
<1> USE DEF StatesOK, RoutineFollowsPhase, DisconnectedMeansClosed, linkVars,
            hubVars, routineVars, startVars, timerVars, callVars, userVars
<1>1. CASE Start
  BY <1>1 DEF Start, BeginStart, ReceivedReset, C!Open
<1>2. CASE ReconnectDelayOver
  BY <1>2 DEF ReconnectDelayOver, BeginStart, ReceivedReset, C!Open
<1>3. CASE ConnectionOpened
  BY <1>3 DEF ConnectionOpened, C!Opened, ArmTimeout, TimersBeforeStart, PingReset
<1>4. CASE ConnectionFailed
  BY <1>4 DEF ConnectionFailed, C!Failed, FailRoutine, CompleteClose, ClosesStarted
<1>5. CASE HandshakeSent
  BY <1>5 DEF HandshakeSent, ArmTimeout, TimersBeforeStart, PingReset
<1>6. CASE StartSendFails
  BY <1>6 DEF StartSendFails, AbortStart, CleanupTimers, Untimed
<1>7. CASE ShakeEnds
  BY <1>7 DEF ShakeEnds, SeesStopError, AbortStart, CleanupTimers, Untimed, PingReset,
     SucceedRoutine
<1>8. CASE PingSent
  BY <1>8 DEF PingSent, SucceedRoutine
<1>9. CASE StartAborted
  BY <1>9 DEF StartAborted, StopAwaited, FailRoutine, CompleteClose, ClosesStarted
<1>10. CASE ConnectionDropped \/ StopCompletes
  BY <1>10 DEF ConnectionDropped, StopCompletes, HandshakeReleased, ConnectionClosed,
     C!Closed, CleanupTimers, Untimed, CallbacksDropped, Reconnect,
     CompleteClose, ClosesStarted
<1>11. CASE HandshakeRefused
  BY <1>11 DEF HandshakeRefused, Arrives, ConnectionClosed, C!Closed, CleanupTimers,
     Untimed, CallbacksDropped, Reconnect, CompleteClose, ClosesStarted
<1>12. CASE HandshakeAnswered \/ MessageArrives
  BY <1>12 DEF HandshakeAnswered, MessageArrives, Arrives, HandshakeReleased, Rearm,
     ArmTimeout, Untimed, PingArmed
<1>13. ASSUME NEW i \in Invocations, CompletionArrives(i)
       PROVE  RoutineFollowsPhase'
  BY <1>13 DEF CompletionArrives, Arrives, Rearm, ArmTimeout, Untimed, PingArmed
<1>14. CASE CloseArrives
  BY <1>14 DEF CloseArrives, Arrives, StopConnection, StopInternal, C!Close,
     CompleteClose, ClosesStarted, ArmTimeout, Untimed, PingArmed
<1>15. CASE ServerTimeout \/ PingTimer
  BY <1>15 DEF ServerTimeout, PingTimer, StopConnection, C!Close
<1>16. ASSUME NEW i \in Invocations, Invoke(i) \/ InvocationSent(i)
       PROVE  RoutineFollowsPhase'
  BY <1>16 DEF Invoke, InvocationSent, PingReset
<1>17. CASE Stop \/ StopReturns
  BY <1>17 DEF Stop, StopReturns, StopInternal, StopConnection, C!Close, CompleteClose,
     ClosesStarted, CleanupTimers, Untimed
<1> QED
  BY <1>1, <1>2, <1>3, <1>4, <1>5, <1>6, <1>7, <1>8, <1>9, <1>10, <1>11,
     <1>12, <1>13, <1>14, <1>15, <1>16, <1>17
     DEF Next, RoutineGoesOn, ServerSpeaks

LEMMA HandshakeStep ==
    StatesOK /\ RoutineFollowsPhase /\ HandshakeIsFresh /\ Next
      => HandshakeIsFresh'
<1> SUFFICES ASSUME StatesOK, RoutineFollowsPhase, HandshakeIsFresh, Next PROVE HandshakeIsFresh'
  OBVIOUS
<1> USE DEF StatesOK, RoutineFollowsPhase, DisconnectedMeansClosed,
            HandshakeIsFresh, ConnectedMeansShaken, linkVars, hubVars,
            routineVars, startVars, timerVars, callVars, userVars
<1>1. CASE Start
  BY <1>1 DEF Start, BeginStart, ReceivedReset, C!Open
<1>2. CASE ReconnectDelayOver
  BY <1>2 DEF ReconnectDelayOver, BeginStart, ReceivedReset, C!Open
<1>3. CASE ConnectionOpened
  BY <1>3 DEF ConnectionOpened, C!Opened, ArmTimeout, TimersBeforeStart, PingReset
<1>4. CASE ConnectionFailed
  BY <1>4 DEF ConnectionFailed, C!Failed, FailRoutine, CompleteClose, ClosesStarted
<1>5. CASE HandshakeSent
  BY <1>5 DEF HandshakeSent, ArmTimeout, TimersBeforeStart, PingReset
<1>6. CASE StartSendFails
  BY <1>6 DEF StartSendFails, AbortStart, CleanupTimers, Untimed
<1>7. CASE ShakeEnds
  BY <1>7 DEF ShakeEnds, SeesStopError, AbortStart, CleanupTimers, Untimed, PingReset,
     SucceedRoutine
<1>8. CASE PingSent
  BY <1>8 DEF PingSent, SucceedRoutine
<1>9. CASE StartAborted
  BY <1>9 DEF StartAborted, StopAwaited, FailRoutine, CompleteClose, ClosesStarted
<1>10. CASE ConnectionDropped \/ StopCompletes
  BY <1>10 DEF ConnectionDropped, StopCompletes, HandshakeReleased, ConnectionClosed,
     C!Closed, CleanupTimers, Untimed, CallbacksDropped, Reconnect,
     CompleteClose, ClosesStarted
<1>11. CASE HandshakeRefused
  BY <1>11 DEF HandshakeRefused, Arrives, ConnectionClosed, C!Closed, CleanupTimers,
     Untimed, CallbacksDropped, Reconnect, CompleteClose, ClosesStarted
<1>12. CASE HandshakeAnswered \/ MessageArrives
  BY <1>12 DEF HandshakeAnswered, MessageArrives, Arrives, HandshakeReleased, Rearm,
     ArmTimeout, Untimed, PingArmed
<1>13. ASSUME NEW i \in Invocations, CompletionArrives(i)
       PROVE  HandshakeIsFresh'
  BY <1>13 DEF CompletionArrives, Arrives, Rearm, ArmTimeout, Untimed, PingArmed
<1>14. CASE CloseArrives
  BY <1>14 DEF CloseArrives, Arrives, StopConnection, StopInternal, C!Close,
     CompleteClose, ClosesStarted, ArmTimeout, Untimed, PingArmed
<1>15. CASE ServerTimeout \/ PingTimer
  BY <1>15 DEF ServerTimeout, PingTimer, StopConnection, C!Close
<1>16. ASSUME NEW i \in Invocations, Invoke(i) \/ InvocationSent(i)
       PROVE  HandshakeIsFresh'
  BY <1>16 DEF Invoke, InvocationSent, PingReset
<1>17. CASE Stop \/ StopReturns
  BY <1>17 DEF Stop, StopReturns, StopInternal, StopConnection, C!Close, CompleteClose,
     ClosesStarted, CleanupTimers, Untimed
<1> QED
  BY <1>1, <1>2, <1>3, <1>4, <1>5, <1>6, <1>7, <1>8, <1>9, <1>10, <1>11,
     <1>12, <1>13, <1>14, <1>15, <1>16, <1>17
     DEF Next, RoutineGoesOn, ServerSpeaks

LEMMA ToldStep ==
    StatesOK /\ RoutineFollowsPhase /\ NothingToldEarly /\ Next
      => NothingToldEarly'
<1> SUFFICES ASSUME StatesOK, RoutineFollowsPhase, NothingToldEarly, Next PROVE NothingToldEarly'
  OBVIOUS
<1> USE DEF StatesOK, RoutineFollowsPhase, DisconnectedMeansClosed,
            NothingToldEarly, ToldTheTruth, linkVars, hubVars, routineVars,
            startVars, timerVars, callVars, userVars
<1>1. CASE Start
  BY <1>1 DEF Start, BeginStart, ReceivedReset, C!Open
<1>2. CASE ReconnectDelayOver
  BY <1>2 DEF ReconnectDelayOver, BeginStart, ReceivedReset, C!Open
<1>3. CASE ConnectionOpened
  BY <1>3 DEF ConnectionOpened, C!Opened, ArmTimeout, TimersBeforeStart, PingReset
<1>4. CASE ConnectionFailed
  BY <1>4 DEF ConnectionFailed, C!Failed, FailRoutine, CompleteClose, ClosesStarted
<1>5. CASE HandshakeSent
  BY <1>5 DEF HandshakeSent, ArmTimeout, TimersBeforeStart, PingReset
<1>6. CASE StartSendFails
  BY <1>6 DEF StartSendFails, AbortStart, CleanupTimers, Untimed
<1>7. CASE ShakeEnds
  BY <1>7 DEF ShakeEnds, SeesStopError, AbortStart, CleanupTimers, Untimed, PingReset,
     SucceedRoutine
<1>8. CASE PingSent
  BY <1>8 DEF PingSent, SucceedRoutine
<1>9. CASE StartAborted
  BY <1>9 DEF StartAborted, StopAwaited, FailRoutine, CompleteClose, ClosesStarted
<1>10. CASE ConnectionDropped \/ StopCompletes
  BY <1>10 DEF ConnectionDropped, StopCompletes, HandshakeReleased, ConnectionClosed,
     C!Closed, CleanupTimers, Untimed, CallbacksDropped, Reconnect,
     CompleteClose, ClosesStarted
<1>11. CASE HandshakeRefused
  BY <1>11 DEF HandshakeRefused, Arrives, ConnectionClosed, C!Closed, CleanupTimers,
     Untimed, CallbacksDropped, Reconnect, CompleteClose, ClosesStarted
<1>12. CASE HandshakeAnswered \/ MessageArrives
  BY <1>12 DEF HandshakeAnswered, MessageArrives, Arrives, HandshakeReleased, Rearm,
     ArmTimeout, Untimed, PingArmed
<1>13. ASSUME NEW i \in Invocations, CompletionArrives(i)
       PROVE  NothingToldEarly'
  BY <1>13 DEF CompletionArrives, Arrives, Rearm, ArmTimeout, Untimed, PingArmed
<1>14. CASE CloseArrives
  BY <1>14 DEF CloseArrives, Arrives, StopConnection, StopInternal, C!Close,
     CompleteClose, ClosesStarted, ArmTimeout, Untimed, PingArmed
<1>15. CASE ServerTimeout \/ PingTimer
  BY <1>15 DEF ServerTimeout, PingTimer, StopConnection, C!Close
<1>16. ASSUME NEW i \in Invocations, Invoke(i) \/ InvocationSent(i)
       PROVE  NothingToldEarly'
  BY <1>16 DEF Invoke, InvocationSent, PingReset
<1>17. CASE Stop \/ StopReturns
  BY <1>17 DEF Stop, StopReturns, StopInternal, StopConnection, C!Close, CompleteClose,
     ClosesStarted, CleanupTimers, Untimed
<1> QED
  BY <1>1, <1>2, <1>3, <1>4, <1>5, <1>6, <1>7, <1>8, <1>9, <1>10, <1>11,
     <1>12, <1>13, <1>14, <1>15, <1>16, <1>17
     DEF Next, RoutineGoesOn, ServerSpeaks

LEMMA OrphanStep == CallsOK /\ NoOrphanedCall /\ Next => NoOrphanedCall'
<1> SUFFICES ASSUME CallsOK, NoOrphanedCall, Next PROVE NoOrphanedCall'
  OBVIOUS
<1> USE DEF CallsOK, NoOrphanedCall, linkVars, hubVars, routineVars,
            startVars, timerVars, callVars, userVars
<1>1. CASE Start
  BY <1>1 DEF Start, BeginStart, ReceivedReset, C!Open
<1>2. CASE ReconnectDelayOver
  BY <1>2 DEF ReconnectDelayOver, BeginStart, ReceivedReset, C!Open
<1>3. CASE ConnectionOpened
  BY <1>3 DEF ConnectionOpened, C!Opened, ArmTimeout, TimersBeforeStart, PingReset
<1>4. CASE ConnectionFailed
  BY <1>4 DEF ConnectionFailed, C!Failed, FailRoutine, CompleteClose, ClosesStarted
<1>5. CASE HandshakeSent
  BY <1>5 DEF HandshakeSent, ArmTimeout, TimersBeforeStart, PingReset
<1>6. CASE StartSendFails
  BY <1>6 DEF StartSendFails, AbortStart, CleanupTimers, Untimed
<1>7. CASE ShakeEnds
  BY <1>7 DEF ShakeEnds, SeesStopError, AbortStart, CleanupTimers, Untimed, PingReset,
     SucceedRoutine
<1>8. CASE PingSent
  BY <1>8 DEF PingSent, SucceedRoutine
<1>9. CASE StartAborted
  BY <1>9 DEF StartAborted, StopAwaited, FailRoutine, CompleteClose, ClosesStarted
<1>10. CASE ConnectionDropped \/ StopCompletes
  BY <1>10 DEF ConnectionDropped, StopCompletes, HandshakeReleased, ConnectionClosed,
     C!Closed, CleanupTimers, Untimed, CallbacksDropped, Reconnect,
     CompleteClose, ClosesStarted
<1>11. CASE HandshakeRefused
  BY <1>11 DEF HandshakeRefused, Arrives, ConnectionClosed, C!Closed, CleanupTimers,
     Untimed, CallbacksDropped, Reconnect, CompleteClose, ClosesStarted
<1>12. CASE HandshakeAnswered \/ MessageArrives
  BY <1>12 DEF HandshakeAnswered, MessageArrives, Arrives, HandshakeReleased, Rearm,
     ArmTimeout, Untimed, PingArmed
<1>13. ASSUME NEW i \in Invocations, CompletionArrives(i)
       PROVE  NoOrphanedCall'
  BY <1>13 DEF CompletionArrives, Arrives, Rearm, ArmTimeout, Untimed, PingArmed
<1>14. CASE CloseArrives
  BY <1>14 DEF CloseArrives, Arrives, StopConnection, StopInternal, C!Close,
     CompleteClose, ClosesStarted, ArmTimeout, Untimed, PingArmed
<1>15. CASE ServerTimeout \/ PingTimer
  BY <1>15 DEF ServerTimeout, PingTimer, StopConnection, C!Close
<1>16. ASSUME NEW i \in Invocations, Invoke(i) \/ InvocationSent(i)
       PROVE  NoOrphanedCall'
  BY <1>16 DEF Invoke, InvocationSent, PingReset
<1>17. CASE Stop \/ StopReturns
  BY <1>17 DEF Stop, StopReturns, StopInternal, StopConnection, C!Close, CompleteClose,
     ClosesStarted, CleanupTimers, Untimed
<1> QED
  BY <1>1, <1>2, <1>3, <1>4, <1>5, <1>6, <1>7, <1>8, <1>9, <1>10, <1>11,
     <1>12, <1>13, <1>14, <1>15, <1>16, <1>17
     DEF Next, RoutineGoesOn, ServerSpeaks

(* What is left of the timers once the handle is cleared: nothing.         *)
LEMMA NoneLeft ==
    FlagsOK /\ TimersCounted =>
        Untimed = 0 /\ TimersBeforeStart(timers, tracked) = 0
<1> SUFFICES ASSUME FlagsOK, TimersCounted
             PROVE  Untimed = 0 /\ TimersBeforeStart(timers, tracked) = 0
  OBVIOUS
<1>1. CASE tracked
  <2>1. timers - 1 = 0
    BY <1>1 DEF TimersCounted
  <2> QED BY <1>1, <2>1 DEF Untimed, TimersBeforeStart
<1>2. CASE ~tracked
  BY <1>2 DEF TimersCounted, Untimed, TimersBeforeStart
<1> QED BY <1>1, <1>2

LEMMA OneArmed ==
    ASSUME NEW inherent, ArmTimeout(0, inherent)
    PROVE  TimersCounted'
<1>1. CASE inherent
  BY <1>1 DEF ArmTimeout, TimersCounted
<1>2. CASE ~inherent
  <2>1. timers' = 1
    BY <1>2 DEF ArmTimeout
  <2> QED BY <1>2, <2>1 DEF ArmTimeout, TimersCounted
<1> QED BY <1>1, <1>2

LEMMA CountedStep ==
    FlagsOK /\ TimersCounted /\ Next
      => TimersCounted'
<1> SUFFICES ASSUME FlagsOK, TimersCounted, Next
             PROVE  TimersCounted'
  OBVIOUS
<1> USE DEF FlagsOK, TimersCounted, linkVars, hubVars, routineVars,
            startVars, timerVars, callVars, userVars
<1>1. CASE Start
  BY <1>1 DEF Start, BeginStart, ReceivedReset, C!Open
<1>2. CASE ReconnectDelayOver
  BY <1>2 DEF ReconnectDelayOver, BeginStart, ReceivedReset, C!Open
<1>3. CASE ConnectionOpened
  <2>1. \/ ArmTimeout(TimersBeforeStart(timers, tracked), keepAlive')
        \/ UNCHANGED <<timers, tracked>>
    BY <1>3 DEF ConnectionOpened
  <2> QED BY <2>1, NoneLeft, OneArmed
<1>4. CASE ConnectionFailed
  BY <1>4 DEF ConnectionFailed, C!Failed, FailRoutine, CompleteClose, ClosesStarted
<1>5. CASE HandshakeSent
  <2>1. ArmTimeout(TimersBeforeStart(timers, tracked), keepAlive)
    BY <1>5 DEF HandshakeSent
  <2> QED BY <2>1, NoneLeft, OneArmed
<1>6. CASE StartSendFails
  <2>1. \/ timers' = Untimed /\ ~tracked'
        \/ UNCHANGED <<timers, tracked>>
    BY <1>6 DEF StartSendFails, AbortStart, CleanupTimers
  <2> QED BY <2>1, NoneLeft
<1>7. CASE ShakeEnds
  <2>1. \/ timers' = Untimed /\ ~tracked'
        \/ UNCHANGED <<timers, tracked>>
    BY <1>7 DEF ShakeEnds, AbortStart, CleanupTimers
  <2> QED BY <2>1, NoneLeft
<1>8. CASE PingSent
  BY <1>8 DEF PingSent, SucceedRoutine
<1>9. CASE StartAborted
  BY <1>9 DEF StartAborted, StopAwaited, FailRoutine, CompleteClose, ClosesStarted
<1>10. CASE ConnectionDropped \/ StopCompletes
  <2>1. \/ timers' = Untimed /\ ~tracked'
        \/ UNCHANGED <<timers, tracked>>
    BY <1>10 DEF ConnectionDropped, StopCompletes, ConnectionClosed,
       CleanupTimers
  <2> QED BY <2>1, NoneLeft
<1>11. CASE HandshakeRefused
  <2>1. \/ timers' = Untimed /\ ~tracked'
        \/ UNCHANGED <<timers, tracked>>
    BY <1>11 DEF HandshakeRefused, ConnectionClosed, CleanupTimers
  <2> QED BY <2>1, NoneLeft
<1>12. CASE HandshakeAnswered \/ MessageArrives
  <2>1. ArmTimeout(Untimed, keepAlive)
    BY <1>12 DEF HandshakeAnswered, MessageArrives, Rearm
  <2> QED BY <2>1, NoneLeft, OneArmed
<1>13. ASSUME NEW i \in Invocations, CompletionArrives(i)
       PROVE  TimersCounted'
  <2>1. ArmTimeout(Untimed, keepAlive)
    BY <1>13 DEF CompletionArrives, Rearm
  <2> QED BY <2>1, NoneLeft, OneArmed
<1>14. CASE CloseArrives
  <2>1. ArmTimeout(Untimed, keepAlive)
    BY <1>14 DEF CloseArrives
  <2> QED BY <2>1, NoneLeft, OneArmed
<1>15. CASE ServerTimeout \/ PingTimer
  <2>1. \/ timers > 0 /\ timers' = timers - 1 /\ tracked' = FALSE
        \/ UNCHANGED <<timers, tracked>>
    BY <1>15 DEF ServerTimeout, PingTimer
  <2>2. timers > 0 => timers = 1
    OBVIOUS
  <2> QED BY <2>1, <2>2
<1>16. ASSUME NEW i \in Invocations, Invoke(i) \/ InvocationSent(i)
       PROVE  TimersCounted'
  BY <1>16 DEF Invoke, InvocationSent, PingReset
<1>17. CASE Stop \/ StopReturns
  <2>1. \/ timers' = Untimed /\ ~tracked'
        \/ UNCHANGED <<timers, tracked>>
    BY <1>17 DEF Stop, StopReturns, CleanupTimers
  <2> QED BY <2>1, NoneLeft
<1> QED
  BY <1>1, <1>2, <1>3, <1>4, <1>5, <1>6, <1>7, <1>8, <1>9, <1>10, <1>11,
     <1>12, <1>13, <1>14, <1>15, <1>16, <1>17
     DEF Next, RoutineGoesOn, ServerSpeaks

LEMMA PlacedStep ==
    FlagsOK /\ StatesOK /\ RoutineFollowsPhase /\ HandshakeIsFresh /\ TimersCounted /\ TimerFollowsPhase /\ Next
      => TimerFollowsPhase'
<1> SUFFICES ASSUME FlagsOK, StatesOK, RoutineFollowsPhase, HandshakeIsFresh, TimersCounted, TimerFollowsPhase, Next
             PROVE  TimerFollowsPhase'
  OBVIOUS
<1> USE DEF FlagsOK, StatesOK, RoutineFollowsPhase, HandshakeIsFresh,
            TimerFollowsPhase,
            linkVars, hubVars, routineVars,
            startVars, timerVars, callVars, userVars
<1>1. CASE Start
  BY <1>1 DEF Start, BeginStart, ReceivedReset, C!Open
<1>2. CASE ReconnectDelayOver
  BY <1>2 DEF ReconnectDelayOver, BeginStart, ReceivedReset, C!Open
<1>3. CASE ConnectionOpened
  BY <1>3 DEF ConnectionOpened, C!Opened, ArmTimeout, TimersBeforeStart, PingReset
<1>4. CASE ConnectionFailed
  BY <1>4 DEF ConnectionFailed, C!Failed, FailRoutine, CompleteClose, ClosesStarted
<1>5. CASE HandshakeSent
  BY <1>5 DEF HandshakeSent, ArmTimeout, TimersBeforeStart, PingReset
<1>6. CASE StartSendFails
  BY <1>6 DEF StartSendFails, AbortStart, CleanupTimers, Untimed
<1>7. CASE ShakeEnds
  <2>1. task = "shaking" /\ task' # "shaking" /\ UNCHANGED <<kind, keepAlive>>
    BY <1>7 DEF ShakeEnds, AbortStart, SucceedRoutine
  <2>2. CASE AbortStart
    <3>1. tracked' = FALSE /\ task' = "aborting"
      BY <2>2 DEF AbortStart, CleanupTimers
    <3>2. phase' = IF phase = "up" THEN "closing" ELSE phase
      BY <2>2 DEF AbortStart
    <3> QED BY <2>1, <3>1, <3>2
  <2>3. CASE ~AbortStart
    <3>1. UNCHANGED <<phase, tracked>> /\ (~keepAlive => phase = "up")
      BY <1>7, <2>3 DEF ShakeEnds
    <3>2. task' \in {"none", "pinging"}
      BY <1>7, <2>3 DEF ShakeEnds, SucceedRoutine
    <3>3. handshake # "pending" /\ handshake # "rejected" /\ ~stopError
      BY <1>7, <2>3 DEF ShakeEnds, SeesStopError
    <3> QED BY <2>1, <3>1, <3>2, <3>3
  <2> QED BY <2>2, <2>3
<1>8. CASE PingSent
  BY <1>8 DEF PingSent, SucceedRoutine
<1>9. CASE StartAborted
  BY <1>9 DEF StartAborted, StopAwaited, FailRoutine, CompleteClose, ClosesStarted
<1>10. CASE ConnectionDropped \/ StopCompletes
  BY <1>10 DEF ConnectionDropped, StopCompletes, HandshakeReleased, ConnectionClosed,
     C!Closed, CleanupTimers, Untimed, CallbacksDropped, Reconnect,
     CompleteClose, ClosesStarted
<1>11. CASE HandshakeRefused
  BY <1>11 DEF HandshakeRefused, Arrives, ConnectionClosed, C!Closed, CleanupTimers,
     Untimed, CallbacksDropped, Reconnect, CompleteClose, ClosesStarted
<1>12. CASE HandshakeAnswered \/ MessageArrives
  BY <1>12 DEF HandshakeAnswered, MessageArrives, Arrives, HandshakeReleased, Rearm,
     ArmTimeout, Untimed, PingArmed
<1>13. ASSUME NEW i \in Invocations, CompletionArrives(i)
       PROVE  TimerFollowsPhase'
  BY <1>13 DEF CompletionArrives, Arrives, Rearm, ArmTimeout, Untimed, PingArmed
<1>14. CASE CloseArrives
  BY <1>14 DEF CloseArrives, Arrives, StopConnection, StopInternal, C!Close,
     CompleteClose, ClosesStarted, ArmTimeout, Untimed, PingArmed
<1>15. CASE ServerTimeout \/ PingTimer
  <2>1. CASE ServerTimeout
    <3>1. tracked
      BY <2>1 DEF ServerTimeout, TimersCounted
    <3>2. tracked' = FALSE /\ UNCHANGED <<kind, keepAlive, task, handshake>>
      BY <2>1 DEF ServerTimeout
    <3>3. phase' \notin {"up", "starting"}
      BY <2>1 DEF ServerTimeout, StopConnection, C!Close
    <3>4. phase' \in {"closing", "up"} => phase \in {"up", "closing"}
      BY <2>1 DEF ServerTimeout, StopConnection, C!Close
    <3>5. phase' = "down" => phase = "down"
      BY <2>1 DEF ServerTimeout, StopConnection, C!Close
    <3> QED BY <3>1, <3>2, <3>3, <3>4, <3>5
  <2>2. CASE PingTimer
    BY <2>2 DEF PingTimer
  <2> QED BY <1>15, <2>1, <2>2
<1>16. ASSUME NEW i \in Invocations, Invoke(i) \/ InvocationSent(i)
       PROVE  TimerFollowsPhase'
  BY <1>16 DEF Invoke, InvocationSent, PingReset
<1>17. CASE Stop \/ StopReturns
  BY <1>17 DEF Stop, StopReturns, StopInternal, StopConnection, C!Close, CompleteClose,
     ClosesStarted, CleanupTimers, Untimed
<1> QED
  BY <1>1, <1>2, <1>3, <1>4, <1>5, <1>6, <1>7, <1>8, <1>9, <1>10, <1>11,
     <1>12, <1>13, <1>14, <1>15, <1>16, <1>17
     DEF Next, RoutineGoesOn, ServerSpeaks

LEMMA ClosedServes ==
    ASSUME FlagsOK, StatesOK, RoutineFollowsPhase, StopsAreServed,
           ConnectionClosed
    PROVE  StopsAreServed'
<1> USE DEF FlagsOK, StatesOK, RoutineFollowsPhase, StopsAreServed
<1>1. phase \in {"up", "closing"} /\ phase' = "down"
  BY DEF ConnectionClosed, C!Closed
<1>2. CASE hub = "Connected"
  <2>1. Reconnect
    BY <1>2 DEF ConnectionClosed
  <2>2. \/ /\ hub' = "Reconnecting" /\ routine' = "reconnect"
           /\ task' = "delay" /\ hubStarted' = hubStarted
        \/ /\ hub' = "Disconnecting" /\ slip'
           /\ UNCHANGED <<routine, task>>
    BY <2>1 DEF Reconnect, routineVars
  <2>3. task = "none" /\ hubStarted
    BY <1>1, <1>2
  <2> QED BY <1>1, <2>2, <2>3
<1>3. CASE hub = "Disconnecting"
  <2>1. CompleteClose /\ UNCHANGED <<routineVars, stopCall, slip>>
    BY <1>3 DEF ConnectionClosed
  <2>2. \/ hub' = "Disconnected"
        \/ UNCHANGED <<hub, hubStarted>> /\ ~hubStarted
    BY <2>1 DEF CompleteClose, ClosesStarted, hubVars
  <2>3. UNCHANGED <<routine, task, slip>>
    BY <2>1 DEF routineVars
  <2>4. routine = "reconnect" /\ task # "none" => hubStarted
    BY <1>3
  <2>5. ~hubStarted /\ task = "none" => slip
    BY <1>3
  <2> QED BY <1>1, <1>3, <2>2, <2>3, <2>4, <2>5
<1>4. CASE hub \notin {"Connected", "Disconnecting"}
  <2>1. UNCHANGED <<hubVars, routineVars, stopCall, slip>>
    BY <1>4 DEF ConnectionClosed
  <2> QED BY <1>1, <1>4, <2>1 DEF routineVars, hubVars
<1> QED BY <1>2, <1>3, <1>4

LEMMA ServedStep ==
    FlagsOK /\ StatesOK /\ RoutineFollowsPhase /\ HandshakeIsFresh /\ StopsAreServed /\ Next
      => StopsAreServed'
<1> SUFFICES ASSUME FlagsOK, StatesOK, RoutineFollowsPhase, HandshakeIsFresh, StopsAreServed, Next
             PROVE  StopsAreServed'
  OBVIOUS
<1> USE DEF FlagsOK, StatesOK, RoutineFollowsPhase,
            DisconnectedMeansClosed, HandshakeIsFresh, ConnectedMeansShaken,
            StopsAreServed, linkVars, hubVars, routineVars,
            startVars, timerVars, callVars, userVars
<1>1. CASE Start
  BY <1>1 DEF Start, BeginStart, ReceivedReset, C!Open
<1>2. CASE ReconnectDelayOver
  <2>1. task = "delay" /\ phase = "down" /\ ~StopReturned
    BY <1>2 DEF ReconnectDelayOver, Quiet
  <2>2. stopCall # "waiting"
    BY <2>1 DEF StopReturned
  <2> QED BY <1>2, <2>1, <2>2 DEF ReconnectDelayOver, BeginStart, C!Open
<1>3. CASE ConnectionOpened
  BY <1>3 DEF ConnectionOpened, C!Opened, ArmTimeout, TimersBeforeStart, PingReset
<1>4. CASE ConnectionFailed
  BY <1>4 DEF ConnectionFailed, C!Failed, FailRoutine, CompleteClose, ClosesStarted
<1>5. CASE HandshakeSent
  BY <1>5 DEF HandshakeSent, ArmTimeout, TimersBeforeStart, PingReset
<1>6. CASE StartSendFails
  BY <1>6 DEF StartSendFails, AbortStart, CleanupTimers, Untimed
<1>7. CASE ShakeEnds
  <2>1. CASE AbortStart
    BY <1>7, <2>1 DEF ShakeEnds, AbortStart
  <2>2. CASE ~AbortStart
    <3>1. handshake = "resolved" /\ ~stopError /\ task = "shaking"
      BY <1>7, <2>2 DEF ShakeEnds, SeesStopError
    <3>2. UNCHANGED <<phase, routine, stopCall, slip>>
      BY <1>7, <2>2 DEF ShakeEnds
    <3>3. \/ SucceedRoutine
          \/ task' = "pinging" /\ UNCHANGED hubVars
      BY <1>7, <2>2 DEF ShakeEnds
    <3>4. phase \in {"up", "closing"} /\ hub # "Disconnected"
      BY <3>1
    <3> QED BY <3>1, <3>2, <3>3, <3>4 DEF SucceedRoutine
  <2> QED BY <2>1, <2>2
<1>8. CASE PingSent
  BY <1>8 DEF PingSent, SucceedRoutine
<1>9. CASE StartAborted
  BY <1>9 DEF StartAborted, StopAwaited, FailRoutine, CompleteClose, ClosesStarted
<1>10. CASE ConnectionDropped \/ StopCompletes
  <2>1. ConnectionClosed
    BY <1>10 DEF ConnectionDropped, StopCompletes
  <2> QED BY <2>1, ClosedServes
<1>11. CASE HandshakeRefused
  <2>1. CASE ConnectionClosed
    BY <2>1, ClosedServes
  <2>2. CASE ~ConnectionClosed
    BY <1>11, <2>2 DEF HandshakeRefused
  <2> QED BY <2>1, <2>2
<1>12. CASE HandshakeAnswered \/ MessageArrives
  BY <1>12 DEF HandshakeAnswered, MessageArrives, Arrives, HandshakeReleased, Rearm,
     ArmTimeout, Untimed, PingArmed
<1>13. ASSUME NEW i \in Invocations, CompletionArrives(i)
       PROVE  StopsAreServed'
  BY <1>13 DEF CompletionArrives, Arrives, Rearm, ArmTimeout, Untimed, PingArmed
<1>14. CASE CloseArrives
  BY <1>14 DEF CloseArrives, Arrives, StopConnection, StopInternal, C!Close,
     CompleteClose, ClosesStarted, ArmTimeout, Untimed, PingArmed
<1>15. CASE ServerTimeout \/ PingTimer
  BY <1>15 DEF ServerTimeout, PingTimer, StopConnection, C!Close
<1>16. ASSUME NEW i \in Invocations, Invoke(i) \/ InvocationSent(i)
       PROVE  StopsAreServed'
  BY <1>16 DEF Invoke, InvocationSent, PingReset
<1>17. CASE Stop \/ StopReturns
  <2>1. CASE Stop
    <3>1. /\ hub # "Disconnected"
          /\ stopCall' = "waiting"
          /\ UNCHANGED <<routine, slip>>
      BY <2>1 DEF Stop
    <3>2. CASE task = "delay"
      BY <2>1, <3>1, <3>2 DEF Stop, StopInternal, CompleteClose, ClosesStarted
    <3>3. CASE task # "delay"
      <4>1. hub' = "Disconnecting" /\ UNCHANGED <<hubStarted, task>>
        BY <2>1, <3>3 DEF Stop, StopInternal
      <4>2. StopConnection
        BY <2>1, <3>3 DEF Stop, StopInternal
      <4>3. /\ phase' \notin {"starting", "up"}
            /\ phase \in {"up", "closing"} => phase' = "closing"
        BY <4>2 DEF StopConnection, C!Close
      <4>4. task = "none" => hub = "Connected"
        BY <2>1 DEF Stop
      <4>5. task = "none" /\ ~slip => hubStarted /\ phase' = "closing"
        BY <4>3, <4>4
      <4> QED BY <3>1, <4>1, <4>3, <4>5
    <3> QED BY <3>2, <3>3
  <2>2. CASE StopReturns
    BY <2>2 DEF StopReturns
  <2> QED BY <1>17, <2>1, <2>2
<1> QED
  BY <1>1, <1>2, <1>3, <1>4, <1>5, <1>6, <1>7, <1>8, <1>9, <1>10, <1>11,
     <1>12, <1>13, <1>14, <1>15, <1>16, <1>17
     DEF Next, RoutineGoesOn, ServerSpeaks

LEMMA NextInv == IInv /\ [Next]_vars => IInv'
<1> SUFFICES ASSUME IInv, [Next]_vars PROVE IInv'
  OBVIOUS
<1>1. CASE UNCHANGED vars
  <2> USE <1>1 DEF vars, linkVars, hubVars, routineVars, startVars, timerVars,
                   callVars, userVars, IInv
  <2>1. FlagsOK' /\ StatesOK'
    BY DEF FlagsOK, StatesOK
  <2>2. CountersOK'
    BY DEF CountersOK
  <2>3. CallsOK' /\ NoOrphanedCall'
    BY DEF CallsOK, NoOrphanedCall
  <2>4. RoutineFollowsPhase' /\ HandshakeIsFresh' /\ NothingToldEarly'
    BY DEF RoutineFollowsPhase, DisconnectedMeansClosed, HandshakeIsFresh,
       ConnectedMeansShaken, NothingToldEarly, ToldTheTruth
  <2>5. TimersCounted' /\ TimerFollowsPhase' /\ StopsAreServed'
    BY DEF TimersCounted, TimerFollowsPhase, StopsAreServed
  <2> QED BY <2>1, <2>2, <2>3, <2>4, <2>5
<1>2. CASE Next
  BY <1>2, FlagsStep, StatesStep, CountersStep, CallsStep, RoutineStep,
     HandshakeStep, ToldStep, OrphanStep, CountedStep, PlacedStep, ServedStep
     DEF IInv
<1> QED BY <1>1, <1>2

LEMMA Inductive == Spec => []IInv
<1> QED BY InitInv, NextInv, PTL DEF Spec

-----------------------------------------------------------------------------
(* Every variable keeps its type, and an invocation is pending as long as  *)
(* there is a callback for it.                                             *)
THEOREM TypeCorrect == Spec => []TypeOK
<1>1. IInv => TypeOK
  BY DEF IInv, FlagsOK, StatesOK, CountersOK, CallsOK, TypeOK, C!Phases
<1> QED BY <1>1, Inductive, PTL

(* Unless the connection goes while the first ping is on its way, a hub    *)
(* that says "Connected" has had its handshake answered on its connection. *)
THEOREM HandshakesAreAnswered == Spec => []ConnectedMeansShaken
<1>1. IInv => ConnectedMeansShaken
  BY DEF IInv, HandshakeIsFresh
<1> QED BY <1>1, Inductive, PTL

(* A hub that says "Disconnected" has let go of its connection.            *)
THEOREM ConnectionsAreClosed == Spec => []DisconnectedMeansClosed
<1>1. IInv => DisconnectedMeansClosed
  BY DEF IInv, RoutineFollowsPhase
<1> QED BY <1>1, Inductive, PTL

(* What the application was told last agrees with the state.               *)
THEOREM EventsAreTrue == Spec => []ToldTheTruth
<1>1. IInv => ToldTheTruth
  BY DEF IInv, NothingToldEarly
<1> QED BY <1>1, Inductive, PTL

(* No invocation waits for an answer that cannot come any more.            *)
THEOREM CallsAreAnswered == Spec => []NoOrphanedCall
<1>1. IInv => NoOrphanedCall
  BY DEF IInv
<1> QED BY <1>1, Inductive, PTL

(* On an open connection that does not keep itself alive exactly one       *)
(* server timeout runs, and none outlives its connection.                  *)
THEOREM TimeoutsAreSingle == Spec => []OneServerTimeout
<1>1. IInv => OneServerTimeout
  <2> SUFFICES ASSUME IInv PROVE OneServerTimeout
    OBVIOUS
  <2> USE DEF IInv, FlagsOK
  <2>1. timers <= 1
    BY DEF TimersCounted
  <2>2. ASSUME Quiet, phase \in {"down", "starting"}
        PROVE  timers = 0
    <3>1. ~tracked
      BY <2>2 DEF TimerFollowsPhase, Quiet
    <3> QED BY <3>1 DEF TimersCounted
  <2>3. ASSUME hub = "Connected", phase = "up", ~keepAlive
        PROVE  timers = 1
    <3>1. tracked
      BY <2>3 DEF TimerFollowsPhase, RoutineFollowsPhase
    <3> QED BY <3>1 DEF TimersCounted
  <2> QED BY <2>1, <2>2, <2>3 DEF OneServerTimeout
<1> QED BY <1>1, Inductive, PTL

(* Nothing waits for nobody.  A hub that connects or reconnects has its    *)
(* routine running; one that disconnects has its routine or the end of the *)
(* connection before it, unless it has slipped; a handshake is awaited     *)
(* while the connection is there to be answered or closed, with a timer    *)
(* that watches it unless the connection keeps itself alive; and stop()    *)
(* waits for a connection that is closing, for the routine of start(), or  *)
(* for its turn.                                                           *)
NothingWaitsForNobody ==
    /\ hub \in {"Connecting", "Reconnecting"} => task # "none"
    /\ hub = "Disconnecting" => task # "none" \/ phase = "closing" \/ slip
    /\ task = "shaking" /\ handshake = "pending" =>
          \/ phase = "closing"
          \/ phase = "up" /\ (keepAlive \/ timers = 1)
    /\ stopCall = "waiting" =>
          \/ StopReturned
          \/ phase \in {"cancelled", "closing"}
          \/ routine = "start" /\ task # "none"

(* This is the part of StartAndStopEnd that needs no fairness: whatever is *)
(* left to do, somebody is there who does it.                              *)
THEOREM WaitersAreServed == Spec => []NothingWaitsForNobody
<1>1. IInv => NothingWaitsForNobody
  <2> SUFFICES ASSUME IInv PROVE NothingWaitsForNobody
    OBVIOUS
  <2> USE DEF IInv, FlagsOK, StatesOK
  <2>1. /\ hub \in {"Connecting", "Reconnecting"} => task # "none"
        /\ hub = "Disconnecting" => task # "none" \/ phase = "closing" \/ slip
    BY DEF StopsAreServed
  <2>2. ASSUME task = "shaking", handshake = "pending"
        PROVE  \/ phase = "closing"
               \/ phase = "up" /\ (keepAlive \/ timers = 1)
    <3>1. phase \in {"up", "closing"}
      BY <2>2 DEF TimerFollowsPhase, RoutineFollowsPhase
    <3>2. phase = "up" /\ ~keepAlive => tracked
      BY <2>2 DEF TimerFollowsPhase
    <3> QED BY <3>1, <3>2 DEF TimersCounted
  <2>3. ASSUME stopCall = "waiting"
        PROVE  \/ StopReturned
               \/ phase \in {"cancelled", "closing"}
               \/ routine = "start" /\ task # "none"
    BY <2>3 DEF StopsAreServed, StopReturned
  <2> QED BY <2>1, <2>2, <2>3 DEF NothingWaitsForNobody
<1> QED BY <1>1, Inductive, PTL

-----------------------------------------------------------------------------
(* A start that fails closes the connection, if it is up.                  *)
LEMMA AbortCloses == AbortStart => [C!Next]_phase
<1> SUFFICES ASSUME AbortStart PROVE [C!Next]_phase
  OBVIOUS
<1>1. phase' = IF phase = "up" THEN "closing" ELSE phase
  BY DEF AbortStart
<1> QED BY <1>1 DEF C!Next, C!Close

(* The hub uses the connection below as that promises to be used: every    *)
(* step of the hub is a step of Connection or leaves it alone.             *)
THEOREM ConnectionIsUsedAsPromised == Spec => C!Init /\ [][C!Next]_phase
<1>1. Init => C!Init
  BY DEF Init
<1>2. [Next]_vars => [C!Next]_phase
  <2> SUFFICES ASSUME [Next]_vars PROVE [C!Next]_phase
    OBVIOUS
  <2> USE DEF linkVars, C!Next
  <2>1. CASE Start
    BY <2>1 DEF Start, BeginStart, ReceivedReset, C!Open
  <2>2. CASE ReconnectDelayOver
    BY <2>2 DEF ReconnectDelayOver, BeginStart, ReceivedReset, C!Open
  <2>3. CASE ConnectionOpened
    BY <2>3 DEF ConnectionOpened, C!Opened, ArmTimeout, TimersBeforeStart, PingReset
  <2>4. CASE ConnectionFailed
    BY <2>4 DEF ConnectionFailed, C!Failed, FailRoutine, CompleteClose, ClosesStarted
  <2>5. CASE HandshakeSent
    BY <2>5 DEF HandshakeSent, ArmTimeout, TimersBeforeStart, PingReset
  <2>6. CASE StartSendFails
    BY <2>6, AbortCloses DEF StartSendFails
  <2>7. CASE ShakeEnds
    BY <2>7, AbortCloses DEF ShakeEnds
  <2>8. CASE PingSent
    BY <2>8 DEF PingSent, SucceedRoutine
  <2>9. CASE StartAborted
    BY <2>9 DEF StartAborted, StopAwaited, FailRoutine, CompleteClose, ClosesStarted
  <2>10. CASE ConnectionDropped \/ StopCompletes
    BY <2>10 DEF ConnectionDropped, StopCompletes, HandshakeReleased, ConnectionClosed,
       C!Closed, CleanupTimers, Untimed, CallbacksDropped, Reconnect,
       CompleteClose, ClosesStarted
  <2>11. CASE HandshakeRefused
    BY <2>11 DEF HandshakeRefused, Arrives, ConnectionClosed, C!Closed, CleanupTimers,
       Untimed, CallbacksDropped, Reconnect, CompleteClose, ClosesStarted
  <2>12. CASE HandshakeAnswered \/ MessageArrives
    BY <2>12 DEF HandshakeAnswered, MessageArrives, Arrives, HandshakeReleased, Rearm,
       ArmTimeout, Untimed, PingArmed
  <2>13. ASSUME NEW i \in Invocations, CompletionArrives(i)
         PROVE  [C!Next]_phase
    BY <2>13 DEF CompletionArrives, Arrives, Rearm, ArmTimeout, Untimed, PingArmed
  <2>14. CASE CloseArrives
    BY <2>14 DEF CloseArrives, Arrives, StopConnection, StopInternal, C!Close,
       CompleteClose, ClosesStarted, ArmTimeout, Untimed, PingArmed
  <2>15. CASE ServerTimeout \/ PingTimer
    BY <2>15 DEF ServerTimeout, PingTimer, StopConnection, C!Close
  <2>16. ASSUME NEW i \in Invocations, Invoke(i) \/ InvocationSent(i)
         PROVE  [C!Next]_phase
    BY <2>16 DEF Invoke, InvocationSent, PingReset
  <2>17. CASE Stop \/ StopReturns
    BY <2>17 DEF Stop, StopReturns, StopInternal, StopConnection, C!Close, CompleteClose,
       ClosesStarted, CleanupTimers, Untimed
  <2>18. CASE UNCHANGED vars
    BY <2>18 DEF vars
  <2> QED
    BY <2>1, <2>2, <2>3, <2>4, <2>5, <2>6, <2>7, <2>8, <2>9, <2>10, <2>11,
       <2>12, <2>13, <2>14, <2>15, <2>16, <2>17, <2>18
       DEF Next, RoutineGoesOn, ServerSpeaks
<1> QED BY <1>1, <1>2, PTL DEF Spec
=============================================================================
