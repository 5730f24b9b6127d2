---------------------------- MODULE HttpConnection ----------------------------
(***************************************************************************)
(* HttpConnection of the SignalR client over its three transports: start   *)
(* negotiates, follows redirects and falls back from one transport to the  *)
(* next; stop may come at any moment; a transport ends by itself.          *)
(*                                                                         *)
(* A step is a call of the owner, or an answer or event of the network     *)
(* with the microtasks that follow it.  A transport is identified by the   *)
(* start that dialled it and its kind.                                     *)
(***************************************************************************)
EXTENDS Integers, Sequences

CONSTANTS
    None,          \* no transport, no queue
    Offers,        \* the lists of transports a server may answer with
    MaxRedirects,  \* MAX_REDIRECTS
    MaxStarts      \* bound: calls of start()

Kinds == {"WebSockets", "ServerSentEvents", "LongPolling"}

Transports == [start : 1 .. MaxStarts, kind : Kinds]

ASSUME NoneAssumption == None \notin Transports \cup (1 .. MaxStarts)
ASSUME OffersAssumption == Offers \subseteq Seq(Kinds)
ASSUME RedirectsAssumption == MaxRedirects \in Nat \ {0}
ASSUME StartsAssumption == MaxStarts \in Nat

VARIABLES
    state,        \* _connectionState
    starts,       \* how many times start() has been called
    task,         \* the request or dial that _startInternal awaits
    dialled,      \* the transport it is dialling
    offers,       \* the transports it has not tried
    redirects,    \* how often it has been redirected
    transport,    \* this.transport
    started,      \* _connectionStarted
    sendQueue,    \* _sendQueue: the start it was made after, or None
    stopping,     \* _stopInternal awaits the start
    leaving,      \* the transport whose stop() it awaits
    stopPromise,  \* _stopPromise
    live,         \* transports that are open in the browser
    sources,      \* given up EventSources the browser tries again, or got through
    closes,       \* how many times onclose has been called
    stray         \* a transport has ended that was not the one in use

startVars == <<starts, task, dialled, offers, redirects>>
stopVars == <<stopping, leaving>>
vars == <<state, startVars, transport, started, sendQueue, stopVars,
          stopPromise, live, sources, closes, stray>>

Init ==
    /\ state = "Disconnected"
    /\ starts = 0
    /\ task = "none"
    /\ dialled = None
    /\ offers = <<>>
    /\ redirects = 0
    /\ transport = None
    /\ started = FALSE
    /\ sendQueue = None
    /\ stopping = FALSE
    /\ leaving = None
    /\ stopPromise = "resolved"
    /\ live = {}
    /\ sources = [t \in Transports |-> "closed"]
    /\ closes = 0
    /\ stray = FALSE

Current(kind) == [start |-> starts, kind |-> kind]

(* stop() has been called, the start is over, and a microtask waits.       *)
Quiet == ~(stopping /\ task = "none")

(* The pieces that a slip would change, each preceded by the slip, a       *)
(* mutant the model does not use.                                          *)

QueueKept(q) == q

(* this._sendQueue = undefined, in _stopConnection.                        *)
QueueDropped(q) == None

StopForgotten(promise) == promise

(* _stopPromiseResolver(), when start fails.                               *)
StopResolved(promise) == "resolved"

CallsAlways(wasStarted) == TRUE

(* if (this._connectionStarted), around onclose.                           *)
CallsOnClose(wasStarted) == wasStarted

StopsAtOnce(t) == TRUE

(* await this._startInternalPromise, in _stopInternal.                     *)
StartIsOver(t) == t = "none"

(* The loop over availableTransports.                                      *)
RemainingOffers(list) == Tail(list)

(* this.transport = undefined, when start fails.                           *)
TransportDropped(t) == None

-----------------------------------------------------------------------------
Start ==
    /\ Quiet
    /\ state = "Disconnected"
    /\ task = "none"
    /\ starts < MaxStarts
    /\ state' = "Connecting"
    /\ starts' = starts + 1
    /\ task' = "negotiating"
    /\ redirects' = 0
    /\ UNCHANGED <<dialled, offers, transport, started, sendQueue, stopVars,
                   stopPromise, live, sources, closes, stray>>

(* The catch block of _startInternal.                                      *)
FailStart ==
    /\ state' = "Disconnected"
    /\ task' = "none"
    /\ dialled' = None
    /\ offers' = <<>>
    /\ transport' = TransportDropped(transport)
    /\ stopPromise' = StopResolved(stopPromise)
    /\ UNCHANGED <<starts, started, sendQueue, stopVars, live, closes, stray>>

(* The server answers with another URL, once too often or not.             *)
Redirected ==
    /\ task = "negotiating"
    /\ state = "Connecting"
    /\ redirects' = redirects + 1
    /\ \/ /\ redirects + 1 < MaxRedirects
          /\ UNCHANGED <<state, starts, task, dialled, offers, transport,
                         started, sendQueue, stopVars, stopPromise, live,
                         closes, stray>>
       \/ /\ redirects + 1 = MaxRedirects
          /\ FailStart
    /\ UNCHANGED sources

Dial(list) ==
    /\ transport' = Current(Head(list))
    /\ dialled' = Current(Head(list))
    /\ offers' = RemainingOffers(list)

(* The server answers with the transports it offers.                       *)
Negotiated(list) ==
    /\ task = "negotiating"
    /\ state = "Connecting"
    /\ \/ /\ list # <<>>
          /\ task' = "dialling"
          /\ Dial(list)
          /\ UNCHANGED <<state, starts, started, sendQueue, stopVars,
                         stopPromise, live, closes, stray>>
       \/ list = <<>> /\ FailStart
    /\ UNCHANGED <<redirects, sources>>

(* The request fails, or its answer comes after stop().                    *)
NegotiationFails ==
    /\ task \in {"negotiating", "renegotiating"}
    /\ FailStart
    /\ UNCHANGED <<redirects, sources>>

(* The connection token for the next transport; stop() is not looked for.  *)
Renegotiated ==
    /\ task = "renegotiating"
    /\ task' = "dialling"
    /\ UNCHANGED <<state, starts, dialled, offers, redirects, transport,
                   started, sendQueue, stopVars, stopPromise, live, sources,
                   closes, stray>>

StartEnds ==
    /\ task' = "none"
    /\ dialled' = None
    /\ offers' = <<>>
    /\ UNCHANGED <<starts, redirects>>

(* connect() of the transport resolves.  After stop() the state stays      *)
(* "Disconnecting", and stop() goes on.                                    *)
Connected ==
    /\ task = "dialling"
    /\ live' = live \cup {dialled}
    /\ StartEnds
    /\ IF state = "Connecting"
       THEN state' = "Connected" /\ started' = TRUE
       ELSE UNCHANGED <<state, started>>
    /\ UNCHANGED <<transport, sendQueue, stopVars, stopPromise, sources,
                   closes, stray>>

(* connect() is rejected.  Another transport is tried with a connection of *)
(* its own.  An EventSource that failed is not closed, and unless the      *)
(* server refused it the browser goes on trying.                           *)
ConnectFails ==
    /\ task = "dialling"
    /\ \/ /\ state = "Connecting"
          /\ offers # <<>>
          /\ task' = "renegotiating"
          /\ Dial(offers)
          /\ UNCHANGED <<state, starts, started, sendQueue, stopVars,
                         stopPromise, live, closes, stray>>
       \/ /\ state # "Connecting" \/ offers = <<>>
          /\ FailStart
    /\ \/ UNCHANGED sources
       \/ /\ dialled.kind = "ServerSentEvents"
          /\ sources' = [sources EXCEPT ![dialled] = "retrying"]
    /\ UNCHANGED redirects

-----------------------------------------------------------------------------
(* _stopConnection, the onclose of every transport.  While the connection  *)
(* is connecting it drops the transport and throws.                        *)
StopConnection ==
    /\ transport' = None
    /\ \/ /\ state \in {"Disconnected", "Connecting"}
          /\ UNCHANGED <<state, started, sendQueue, stopPromise, closes>>
       \/ /\ state \in {"Connected", "Disconnecting"}
          /\ state' = "Disconnected"
          /\ stopPromise' =
                IF state = "Disconnecting" THEN "resolved" ELSE stopPromise
          /\ sendQueue' = QueueDropped(sendQueue)
          /\ started' = FALSE
          /\ closes' = IF CallsOnClose(started) THEN closes + 1 ELSE closes

(* The first poll is answered with a success that is not 200: connect()    *)
(* resolves, but the transport has already raised onclose.  _startInternal *)
(* takes a connection that is still connecting to "Connected".             *)
FirstPollRefused ==
    /\ task = "dialling"
    /\ dialled.kind = "LongPolling"
    /\ StartEnds
    /\ \/ /\ state = "Connecting"
          /\ state' = "Connected"
          /\ started' = TRUE
          /\ transport' = None
          /\ stray' = TRUE
          /\ UNCHANGED <<sendQueue, stopPromise, closes>>
       \/ /\ state # "Connecting"
          /\ StopConnection
          /\ UNCHANGED stray
    /\ UNCHANGED <<stopVars, live, sources>>

(* A transport ends: a closed socket, an error of the EventSource, the end *)
(* of the polling.  While it is being stopped it is stop() that reports    *)
(* the end.                                                                *)
TransportEnds(t) ==
    /\ Quiet
    /\ t \in live
    /\ t # leaving
    /\ live' = live \ {t}
    /\ stray' = (stray \/ t # transport \/ state = "Connecting")
    /\ StopConnection
    /\ UNCHANGED <<startVars, stopVars, sources>>

(* The browser gets an EventSource through after all: its handlers are     *)
(* those of a transport that _createTransport has given up.                *)
SourceRevives(t) ==
    /\ sources[t] = "retrying"
    /\ sources' = [sources EXCEPT ![t] = "open"]
    /\ UNCHANGED <<state, startVars, transport, started, sendQueue, stopVars,
                   stopPromise, live, closes, stray>>

(* Or it is refused, and the browser stops trying.                         *)
SourceRefused(t) ==
    /\ sources[t] = "retrying"
    /\ sources' = [sources EXCEPT ![t] = "closed"]
    /\ UNCHANGED <<state, startVars, transport, started, sendQueue, stopVars,
                   stopPromise, live, closes, stray>>

(* One that got through ends, and takes the connection of another          *)
(* transport with it.                                                      *)
SourceEnds(t) ==
    /\ Quiet
    /\ sources[t] = "open"
    /\ sources' = [sources EXCEPT ![t] = "closed"]
    /\ stray' = TRUE
    /\ StopConnection
    /\ UNCHANGED <<startVars, stopVars, live>>

-----------------------------------------------------------------------------
(* send(): the queue is made for the transport of the moment.              *)
Send ==
    /\ state = "Connected"
    /\ sendQueue = None
    /\ sendQueue' = starts
    /\ UNCHANGED <<state, startVars, transport, started, stopVars,
                   stopPromise, live, sources, closes, stray>>

(* stop() up to its first await.                                           *)
Stop ==
    /\ Quiet
    /\ state \in {"Connecting", "Connected"}
    /\ state' = "Disconnecting"
    /\ stopPromise' = "pending"
    /\ stopping' = TRUE
    /\ UNCHANGED <<startVars, transport, started, sendQueue, leaving, live,
                   sources, closes, stray>>

(* _stopInternal after the start: a socket and an EventSource are closed   *)
(* on the spot, polling takes its time; without a transport nothing        *)
(* happens, since the start that failed has resolved the promise.          *)
StopTransport ==
    /\ stopping
    /\ StartIsOver(task)
    /\ leaving = None
    /\ stopping' = FALSE
    /\ \/ /\ transport = None
          /\ UNCHANGED <<state, transport, started, sendQueue, leaving,
                         stopPromise, live, closes>>
       \/ /\ transport # None
          /\ transport.kind # "LongPolling"
          /\ live' = live \ {transport}
          /\ IF transport \in live
             THEN StopConnection
             ELSE transport' = None
                  /\ UNCHANGED <<state, started, sendQueue, stopPromise,
                                 closes>>
          /\ UNCHANGED leaving
       \/ /\ transport # None
          /\ transport.kind = "LongPolling"
          /\ leaving' = transport
          /\ UNCHANGED <<state, transport, started, sendQueue, stopPromise,
                         live, closes>>
    /\ UNCHANGED <<startVars, sources, stray>>

(* The polling is over and the DELETE request answered.                    *)
PollingStopped ==
    /\ leaving # None
    /\ live' = live \ {leaving}
    /\ leaving' = None
    /\ StopConnection
    /\ stray' = (stray \/ transport \notin {leaving, None})
    /\ UNCHANGED <<startVars, stopping, sources>>

-----------------------------------------------------------------------------
NegotiateAnswered ==
    \/ Redirected
    \/ \E list \in Offers : Negotiated(list)
    \/ NegotiationFails
    \/ Renegotiated

DialAnswered ==
    \/ Connected
    \/ ConnectFails
    \/ FirstPollRefused

Next ==
    \/ Start
    \/ NegotiateAnswered
    \/ DialAnswered
    \/ \E t \in Transports : \/ TransportEnds(t)
                             \/ SourceRevives(t)
                             \/ SourceRefused(t)
                             \/ SourceEnds(t)
    \/ Send
    \/ Stop
    \/ StopTransport
    \/ PollingStopped

(* Requests and dials are answered or time out, and microtasks run.        *)
Fairness ==
    /\ WF_vars(NegotiateAnswered)
    /\ WF_vars(DialAnswered)
    /\ WF_vars(StopTransport)
    /\ WF_vars(PollingStopped)

Spec == Init /\ [][Next]_vars

FairSpec == Spec /\ Fairness

-----------------------------------------------------------------------------
(* Every variable keeps its type, what _startInternal remembers goes with  *)
(* it, and a connection that is disconnected has no transport.             *)
TypeOK ==
    /\ state \in {"Disconnected", "Connecting", "Connected", "Disconnecting"}
    /\ starts \in 0 .. MaxStarts
    /\ task \in {"none", "negotiating", "renegotiating", "dialling"}
    /\ dialled \in Transports \cup {None}
    /\ offers \in Seq(Kinds)
    /\ redirects \in 0 .. MaxRedirects
    /\ transport \in Transports \cup {None}
    /\ started \in BOOLEAN
    /\ sendQueue \in 1 .. MaxStarts \cup {None}
    /\ stopping \in BOOLEAN
    /\ leaving \in Transports \cup {None}
    /\ stopPromise \in {"pending", "resolved"}
    /\ live \in SUBSET Transports
    /\ sources \in [Transports -> {"closed", "retrying", "open"}]
    /\ closes \in Nat
    /\ stray \in BOOLEAN
    /\ task \in {"renegotiating", "dialling"} <=> dialled # None
    /\ state = "Disconnected" => transport = None

(* A connection in state "Connected" has a transport to send with and to   *)
(* stop: what _stopInternal says of it, and what a first poll with a       *)
(* success other than 200 refutes.                                         *)
ConnectedHasTransport == state = "Connected" => transport # None

(* The queue that send() uses was made for the transport of this start: no *)
(* data of a new connection goes to the transport of an earlier one.       *)
QueueIsOfThisStart ==
    sendQueue # None =>
        sendQueue = starts /\ state \in {"Connected", "Disconnecting"}

(* No transport stays open behind the back of the connection, whichever    *)
(* dials failed before and whenever stop() was called.                     *)
NoTransportLeft == ~stray => live \subseteq {transport}

(* The contract of Connection, by state and by whether start() has         *)
(* succeeded.                                                              *)
Promise ==
    INSTANCE Connection
    WITH phase <- CASE state = "Disconnected" -> "down"
                    [] state = "Connecting" -> "starting"
                    [] state = "Connected" -> "up"
                    [] state = "Disconnecting" /\ started -> "closing"
                    [] state = "Disconnecting" /\ ~started -> "cancelled"

(* The connection keeps the promise of Connection, and calls onclose in    *)
(* its steps Closed only: once for each start that succeeded, and never    *)
(* for a start that failed or that stop() overtook.  That holds even when  *)
(* an EventSource that was given up ends, or a first poll is refused.      *)
KeepsPromise ==
    /\ Promise!Init
    /\ [][Promise!Next /\ closes' = closes + (IF Promise!Closed THEN 1 ELSE 0)
         ]_<<state, started, closes>>

(* Every start comes to an end: redirects and fallbacks are finite.  So    *)
(* does every stop, whether it catches a start that fails, one that        *)
(* succeeds or a connection: the promise of stop() is resolved.            *)
StartAndStopSettle ==
    /\ state = "Connecting" ~> state # "Connecting"
    /\ stopPromise = "pending" ~> stopPromise = "resolved" \/ stray
=============================================================================
