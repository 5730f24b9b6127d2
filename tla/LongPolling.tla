----------------------------- MODULE LongPolling -----------------------------
(***************************************************************************)
(* One life of LongPollingTransport under the HttpConnection that owns it  *)
(* and with the TransportSendQueue that feeds it: a loop of GET requests   *)
(* that receives, POST requests that send, and a DELETE request at the     *)
(* end.                                                                    *)
(*                                                                         *)
(* The client is single-threaded.  An answer from the network is handled   *)
(* when no microtask waits (Quiet); what the owner's code calls may come   *)
(* at any time.                                                            *)
(***************************************************************************)
EXTENDS SendQueue

CONSTANT MaxReceived  \* bound: polls answered with data

ASSUME MaxReceivedAssumption == MaxReceived \in Nat

VARIABLES
    owner,     \* HttpConnection._connectionState
    attached,  \* HttpConnection.transport is set
    poll,      \* the GET request: the first one, waiting, reading its body
    running,   \* _running
    aborted,   \* _pollAbort.aborted
    stopping,  \* how far HttpConnection.stop has come
    posting,   \* a POST request is on its way
    received,  \* how many answers have been passed to onreceive
    closes     \* how many times onclose has been called

transport == <<owner, attached, poll, running, aborted, stopping, posting,
               received, closes>>
vars == <<queue, transport>>

(* The constructors, and connect() up to the answer of the first poll.     *)
Init ==
    /\ QueueInit
    /\ owner = "connecting"
    /\ attached = TRUE
    /\ poll = "first"
    /\ running = FALSE
    /\ aborted = FALSE
    /\ stopping = "no"
    /\ posting = FALSE
    /\ received = 0
    /\ closes = 0

(* No microtask waits: neither the send loop, nor stop() between two of    *)
(* its awaits, nor a send that was refused without a request.              *)
Quiet ==
    /\ ~(loop = "waiting" /\ flush = "resolved")
    /\ ~(stopping = "called" /\ poll # "first")
    /\ ~(stopping = "receiving" /\ poll = "ended")
    /\ ~(loop = "sending" /\ ~posting)

(* The pieces that a slip would change, each preceded by the slip, a       *)
(* mutant the model does not use.                                          *)

RaisesAlways(isAborted) == TRUE

(* if (!this.pollAborted), at the end of the loop.                         *)
RaisesAtLoopEnd(isAborted) == ~isAborted

PostsAlways(isRunning) == TRUE

(* if (!this._running), in send().                                         *)
Posts(isRunning) == isRunning

(* await this._receiving, before the DELETE request.                       *)
ReceivingIsOver(p) == p = "ended"

RaisesOnlyIfDeleted(ok) == ok

(* finally: onclose is raised whether or not the DELETE request succeeds.  *)
RaisesAfterDelete(ok) == TRUE

-----------------------------------------------------------------------------
(* _stopConnection: nothing but the loss of the transport while the        *)
(* connection is still connecting, when it throws.                         *)
StopConnection ==
    /\ attached' = FALSE
    /\ IF owner \in {"connected", "disconnecting"}
       THEN /\ owner' = "disconnected"
            /\ executing' = FALSE
            /\ flush' = "resolved"
       ELSE UNCHANGED <<owner, executing, flush>>
    /\ UNCHANGED <<buffer, result, batch, loop, promised, settled, accepted>>

RaiseOnClose == closes' = closes + 1 /\ StopConnection

EndPoll ==
    /\ poll' = "ended"
    /\ IF RaisesAtLoopEnd(aborted)
       THEN RaiseOnClose
       ELSE UNCHANGED <<queue, owner, attached, closes>>

(* The first poll is answered with 200, and _startInternal goes on.        *)
FirstPollSucceeds ==
    /\ Quiet
    /\ poll = "first"
    /\ poll' = "waiting"
    /\ running' = TRUE
    /\ owner' = IF owner = "connecting" THEN "connected" ELSE owner
    /\ UNCHANGED <<queue, attached, aborted, stopping, posting, received,
                   closes>>

(* It is answered with another successful status: the loop ends before its *)
(* first turn and raises onclose.  _stopConnection drops the transport; if *)
(* the connection is connecting it throws into a promise nobody awaits,    *)
(* and _startInternal goes on to "connected".                              *)
FirstPollRefused ==
    /\ Quiet
    /\ poll = "first"
    /\ poll' = "ended"
    /\ closes' = closes + 1
    /\ attached' = FALSE
    /\ IF owner = "connecting"
       THEN owner' = "connected" /\ UNCHANGED queue
       ELSE StopConnection
    /\ UNCHANGED <<running, aborted, stopping, posting, received>>

(* It fails, and with it the start of the connection.                      *)
FirstPollFails ==
    /\ Quiet
    /\ poll = "first"
    /\ poll' = "ended"
    /\ owner' = "disconnected"
    /\ attached' = FALSE
    /\ UNCHANGED <<queue, running, aborted, stopping, posting, received,
                   closes>>

-----------------------------------------------------------------------------
(* The head of the answer to a poll is there.  From now on abort() has no  *)
(* effect: FetchHttpClient has removed its handler.                        *)
PollAnswered ==
    /\ Quiet
    /\ poll = "waiting"
    /\ ~aborted
    /\ poll' = "reading"
    /\ UNCHANGED <<queue, owner, attached, running, aborted, stopping,
                   posting, received, closes>>

(* A poll is aborted or fails.  One that times out is sent again, which    *)
(* leaves everything as it is.                                             *)
PollFails ==
    /\ Quiet
    /\ poll = "waiting"
    /\ running' = FALSE
    /\ EndPoll
    /\ UNCHANGED <<aborted, stopping, posting, received>>

(* The server has ended the connection (204), or the answer is an error.   *)
PollEnds ==
    /\ Quiet
    /\ poll = "reading"
    /\ running' = FALSE
    /\ EndPoll
    /\ UNCHANGED <<aborted, stopping, posting, received>>

(* The answer is passed on if it has content, even after stop(), and the   *)
(* loop goes on while the transport is running.                            *)
PollReceives ==
    /\ Quiet
    /\ poll = "reading"
    /\ received' \in {received, received + 1} \cap 0 .. MaxReceived
    /\ IF running
       THEN poll' = "waiting" /\ UNCHANGED <<queue, owner, attached, closes>>
       ELSE EndPoll
    /\ UNCHANGED <<running, aborted, stopping, posting>>

-----------------------------------------------------------------------------
(* HttpConnection.send.                                                    *)
ConnectionSend ==
    /\ owner = "connected"
    /\ Send
    /\ UNCHANGED transport

(* The loop of the queue calls send() of the transport.                    *)
SendBatch ==
    /\ TakeBatch
    /\ posting' = Posts(running)
    /\ UNCHANGED <<owner, attached, poll, running, aborted, stopping,
                   received, closes>>

(* The transport is not running, or is not there any more.                 *)
SendRefused ==
    /\ ~posting
    /\ TransportRefuses
    /\ UNCHANGED transport

PostAnswered ==
    /\ Quiet
    /\ posting
    /\ TransportAccepts \/ TransportRefuses
    /\ posting' = FALSE
    /\ UNCHANGED <<owner, attached, poll, running, aborted, stopping,
                   received, closes>>

EndQueue ==
    /\ EndLoop
    /\ UNCHANGED transport

-----------------------------------------------------------------------------
(* HttpConnection.stop up to its first await.                              *)
Stop ==
    /\ owner \in {"connecting", "connected"}
    /\ owner' = "disconnecting"
    /\ stopping' = "called"
    /\ UNCHANGED <<queue, attached, poll, running, aborted, posting, received,
                   closes>>

(* The start is over one way or the other.  stop() of the transport, up to *)
(* await this._receiving; without a transport there is nothing to stop.    *)
StopTransport ==
    /\ stopping = "called"
    /\ poll # "first"
    /\ IF attached
       THEN stopping' = "receiving" /\ running' = FALSE /\ aborted' = TRUE
       ELSE stopping' = "done" /\ UNCHANGED <<running, aborted>>
    /\ UNCHANGED <<queue, owner, attached, poll, posting, received, closes>>

SendDelete ==
    /\ stopping = "receiving"
    /\ ReceivingIsOver(poll)
    /\ stopping' = "deleting"
    /\ UNCHANGED <<queue, owner, attached, poll, running, aborted, posting,
                   received, closes>>

(* The DELETE request is answered or fails.  A failure comes back as an    *)
(* exception of stop(); HttpConnection then calls _stopConnection, which   *)
(* finds the connection disconnected.                                      *)
DeleteAnswered ==
    /\ Quiet
    /\ stopping = "deleting"
    /\ stopping' = "done"
    /\ \E ok \in BOOLEAN :
          IF RaisesAfterDelete(ok)
          THEN RaiseOnClose
          ELSE attached' = FALSE /\ UNCHANGED <<queue, owner, closes>>
    /\ UNCHANGED <<poll, running, aborted, posting, received>>

Microtask ==
    \/ SendBatch
    \/ SendRefused
    \/ EndQueue
    \/ StopTransport
    \/ SendDelete

FirstAnswer == FirstPollSucceeds \/ FirstPollRefused \/ FirstPollFails

Next ==
    \/ FirstAnswer
    \/ PollAnswered
    \/ PollFails
    \/ PollEnds
    \/ PollReceives
    \/ ConnectionSend
    \/ PostAnswered
    \/ Stop
    \/ DeleteAnswered
    \/ Microtask

(* Microtasks run, and every request is answered or fails: each has a      *)
(* timeout, and an aborted one fails at once.  Nobody has to send or stop. *)
Fairness ==
    /\ WF_vars(Microtask)
    /\ WF_vars(FirstAnswer)
    /\ WF_vars(PollAnswered \/ PollFails)
    /\ WF_vars(PollEnds \/ PollReceives)
    /\ WF_vars(PostAnswered)
    /\ WF_vars(DeleteAnswered)

Spec == Init /\ [][Next]_vars

FairSpec == Spec /\ Fairness

-----------------------------------------------------------------------------
(* Every variable keeps its type, and a POST request belongs to a batch.   *)
TypeOK ==
    /\ QueueTypeOK
    /\ owner \in {"connecting", "connected", "disconnecting", "disconnected"}
    /\ attached \in BOOLEAN
    /\ poll \in {"first", "waiting", "reading", "ended"}
    /\ running \in BOOLEAN
    /\ aborted \in BOOLEAN
    /\ stopping \in {"no", "called", "receiving", "deleting", "done"}
    /\ posting \in BOOLEAN
    /\ received \in 0 .. MaxReceived
    /\ closes \in Nat
    /\ posting => loop = "sending"

(* The loop and stop() both end in onclose; exactly one of them raises it, *)
(* whichever way a poll that is answered while stop() runs comes out.      *)
(* When the client stops the transport it is stop(), after the DELETE      *)
(* request, so that the server does not keep the connection.               *)
CloseOnceAfterDelete ==
    closes <= 1 /\ (aborted /\ closes > 0 => stopping = "done")

(* No POST request starts once the DELETE request is on its way, although  *)
(* the queue still holds data when stop() is called and its loop goes on.  *)
NoPostAfterDelete ==
    [][posting' /\ ~posting => stopping \notin {"deleting", "done"}]_vars

(* stop() comes to its end, if the connection has a transport to stop.     *)
StopCompletes ==
    owner = "disconnecting" /\ attached ~> owner = "disconnected"
=============================================================================
