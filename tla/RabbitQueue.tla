----------------------------- MODULE RabbitQueue -----------------------------
(***************************************************************************)
(* One durable RabbitMQ queue, the RabbitMqConsumer that reads it and the  *)
(* connection the two meet on.                                             *)
(*                                                                         *)
(* The consumer has a prefetch count of 1 and acknowledges by hand, so the *)
(* broker holds at most one delivery on the consumer's channel and sends   *)
(* the next one only when that delivery has been settled.  A connection    *)
(* that is lost takes the channel with it: the broker puts the held        *)
(* message back where it was, and the handler that was working on it goes  *)
(* on in the process, unaware.  An epoch is the life of one channel.       *)
(***************************************************************************)
EXTENDS Integers, Sequences

CONSTANTS
    Messages,          \* messages that producers publish
    None,              \* no delivery, no execution
    MaxRetryCount,     \* RetrySettings.Count
    SharesConnection,  \* producers of this process use the same connection
    MaxLosses,         \* bound: connections lost and processes stopped
    MaxFailures        \* bound: handler executions that fail

VARIABLES
    published,  \* the messages published so far, in that order
    ready,      \* the queue: copies that wait to be delivered
    held,       \* the copy delivered on the present channel and not settled
    dropped,    \* the messages the broker was told to discard
    link,       \* the consumer's channel
    epoch,      \* how many channels the consumer has lost
    execution,  \* the handler execution that began in each epoch
    started,    \* how many executions of each message have begun
    handled,    \* how many executions of each message returned true
    failures    \* how many executions have failed

vars == <<published, ready, held, dropped, link, epoch, execution, started,
          handled, failures>>

ASSUME MaxRetryAssumption == MaxRetryCount \in Nat
ASSUME BoundsAssumption == MaxLosses \in Nat /\ MaxFailures \in Nat
ASSUME SharesAssumption == SharesConnection \in BOOLEAN

(* A message in the queue: which one, and its header x-retry-count.        *)
Copy == [id : Messages, retry : Nat]

(* A Received callback: running the handler, about to acknowledge, about   *)
(* to call NackWithRetryIncrement.                                         *)
Execution == [copy : Copy, phase : {"handling", "acking", "nacking"}]

ASSUME NoneAssumption == None \notin Messages \cup Copy \cup Execution

Epochs == 0 .. MaxLosses

Links == {"closed", "open", "recovering", "orphaned"}

Published == {published[i] : i \in 1 .. Len(published)}

-----------------------------------------------------------------------------
Init ==
    /\ published = <<>>
    /\ ready = <<>>
    /\ held = None
    /\ dropped = {}
    /\ link = "closed"
    /\ epoch = 0
    /\ execution = [e \in Epochs |-> None]
    /\ started = [m \in Messages |-> 0]
    /\ handled = [m \in Messages |-> 0]
    /\ failures = 0

IsIn(e, phase) == execution[e] # None /\ execution[e].phase = phase

GoTo(e, phase) == execution' = [execution EXCEPT ![e].phase = phase]

Finish(e) == execution' = [execution EXCEPT ![e] = None]

(* The pieces of the callback that a slip would change; each is preceded   *)
(* by the slip, a mutant the model does not use.                           *)

(* CreateRetryCountHeader.                                                 *)
NewCopy(m) == [id |-> m, retry |-> 0]

HeldWhenAutoAcked(copy) == None

(* BasicConsume with autoAck: false.                                       *)
HeldOnDelivery(copy) == copy

SettleForgotten(e) == held

(* What is held after BasicAck or BasicNack of the delivery of epoch e:    *)
(* the tag of a channel that was lost means nothing on the recovered one   *)
(* and is ignored.                                                         *)
Settle(e) == IF e = epoch THEN None ELSE held

NackAfterAck(e) == GoTo(e, "nacking")

(* return, after BasicAck.                                                 *)
ReturnAfterAck(e) == Finish(e)

ShouldRetryOneLess(retry) == retry < MaxRetryCount

ShouldRetry(retry) == retry <= MaxRetryCount

(* return, after BasicPublish: the delivery is not settled.                *)
ReturnAfterRepublish(e) == held

-----------------------------------------------------------------------------
(* RabbitMqProducer.Publish, when it returns true: a persistent message    *)
(* with a retry count of 0.                                                *)
Publish(m) ==
    /\ m \notin Published
    /\ published' = Append(published, m)
    /\ ready' = Append(ready, NewCopy(m))
    /\ UNCHANGED <<held, dropped, link, epoch, execution, started, handled,
                   failures>>

(* The background service of the consumer starts: channel, prefetch of 1,  *)
(* subscription without automatic acknowledgement.                         *)
StartConsuming ==
    /\ link = "closed"
    /\ link' = "open"
    /\ UNCHANGED <<published, ready, held, dropped, epoch, execution, started,
                   handled, failures>>

(* The broker delivers the next message if nothing is held on the channel; *)
(* the dispatcher of the channel runs one callback at a time.              *)
Deliver ==
    /\ link = "open"
    /\ held = None
    /\ execution[epoch] = None
    /\ ready # <<>>
    /\ held' = HeldOnDelivery(Head(ready))
    /\ ready' = Tail(ready)
    /\ execution' = [execution EXCEPT ![epoch] =
                       [copy |-> Head(ready), phase |-> "handling"]]
    /\ started' = [started EXCEPT ![Head(ready).id] = @ + 1]
    /\ UNCHANGED <<published, dropped, link, epoch, handled, failures>>

(* The message handler returns true.                                       *)
HandlerSucceeds(e) ==
    /\ IsIn(e, "handling")
    /\ GoTo(e, "acking")
    /\ handled' = [handled EXCEPT ![execution[e].copy.id] = @ + 1]
    /\ UNCHANGED <<published, ready, held, dropped, link, epoch, started,
                   failures>>

(* The message handler returns false or throws.                            *)
HandlerFails(e) ==
    /\ IsIn(e, "handling")
    /\ failures < MaxFailures
    /\ GoTo(e, "nacking")
    /\ failures' = failures + 1
    /\ UNCHANGED <<published, ready, held, dropped, link, epoch, started,
                   handled>>

(* channel.BasicAck.  With no channel open the call throws inside the try  *)
(* block, and the message counts as failed, or its frame is lost with the  *)
(* connection.                                                             *)
Ack(e) ==
    /\ IsIn(e, "acking")
    /\ \/ link = "open" /\ held' = Settle(e) /\ ReturnAfterAck(e)
       \/ link # "open" /\ (Finish(e) \/ GoTo(e, "nacking")) /\ UNCHANGED held
    /\ UNCHANGED <<published, ready, dropped, link, epoch, started, handled,
                   failures>>

(* NackWithRetryIncrement: a copy with a higher retry count is published,  *)
(* and the delivery itself is left unsettled; or, with the retries used    *)
(* up, the delivery is rejected without being put back.  With no channel   *)
(* open either call throws out of the callback and nothing happens.        *)
Nack(e) ==
    /\ IsIn(e, "nacking")
    /\ Finish(e)
    /\ LET copy == [execution[e].copy EXCEPT !.retry = @ + 1] IN
         \/ link # "open" /\ UNCHANGED <<ready, held, dropped>>
         \/ /\ link = "open"
            /\ ShouldRetry(copy.retry)
            /\ ready' = Append(ready, copy)
            /\ held' = ReturnAfterRepublish(e)
            /\ UNCHANGED dropped
         \/ /\ link = "open"
            /\ ~ShouldRetry(copy.retry)
            /\ held' = Settle(e)
            /\ dropped' = IF e = epoch THEN dropped \cup {copy.id} ELSE dropped
            /\ UNCHANGED ready
    /\ UNCHANGED <<published, link, epoch, started, handled, failures>>

(* The broker puts what it holds for a channel that is gone back at the    *)
(* place it had, the head of the queue.                                    *)
Requeue ==
    /\ ready' = IF held = None THEN ready ELSE <<held>> \o ready
    /\ held' = None
    /\ epoch' = epoch + 1

ConnectionLost ==
    /\ link = "open"
    /\ epoch < MaxLosses
    /\ link' = "recovering"
    /\ Requeue
    /\ UNCHANGED <<published, dropped, execution, started, handled, failures>>

(* The client library reconnects by itself and subscribes again.           *)
Recover ==
    /\ link = "recovering"
    /\ link' = "open"
    /\ UNCHANGED <<published, ready, held, dropped, epoch, execution, started,
                   handled, failures>>

(* RabbitMqConnection.GetConnection, called by a producer before the       *)
(* library has recovered: the connection is not open, so it is disposed,   *)
(* which ends its recovery, and another one takes its place.  The channel  *)
(* of the consumer stays with the first.                                   *)
ReplaceConnection ==
    /\ SharesConnection
    /\ link = "recovering"
    /\ link' = "orphaned"
    /\ UNCHANGED <<published, ready, held, dropped, epoch, execution, started,
                   handled, failures>>

(* The process of the consumer stops, and with it what it was doing.       *)
ProcessStops ==
    /\ link # "closed"
    /\ epoch < MaxLosses
    /\ link' = "closed"
    /\ execution' = [e \in Epochs |-> None]
    /\ Requeue
    /\ UNCHANGED <<published, dropped, started, handled, failures>>

Next ==
    \/ \E m \in Messages : Publish(m)
    \/ StartConsuming
    \/ Deliver
    \/ \E e \in Epochs : \/ HandlerSucceeds(e)
                         \/ HandlerFails(e)
                         \/ Ack(e)
                         \/ Nack(e)
    \/ ConnectionLost
    \/ Recover
    \/ ReplaceConnection
    \/ ProcessStops

(* The host starts its services, the broker delivers, a handler comes back *)
(* with an answer (it awaits calls with timeouts only) and a callback runs *)
(* to its end, and the library reconnects.  Nothing forces a publication,  *)
(* a failure or a loss.                                                    *)
Fairness ==
    /\ WF_vars(StartConsuming)
    /\ WF_vars(Deliver)
    /\ WF_vars(Recover)
    /\ \A e \in Epochs :
          /\ WF_vars(HandlerSucceeds(e) \/ HandlerFails(e))
          /\ WF_vars(Ack(e))
          /\ WF_vars(Nack(e))

Spec == Init /\ [][Next]_vars

FairSpec == Spec /\ Fairness

-----------------------------------------------------------------------------
(* Every variable keeps its type, what is in the queue has been published, *)
(* and executions belong to channels the consumer has had.                 *)
TypeOK ==
    /\ published \in Seq(Messages)
    /\ ready \in Seq(Copy)
    /\ held \in Copy \cup {None}
    /\ dropped \in SUBSET Messages
    /\ link \in Links
    /\ epoch \in Epochs
    /\ execution \in [Epochs -> Execution \cup {None}]
    /\ started \in [Messages -> Nat]
    /\ handled \in [Messages -> Nat]
    /\ failures \in 0 .. MaxFailures
    /\ \A e \in Epochs : e > epoch => execution[e] = None

InQueue(m) ==
    \/ \E i \in 1 .. Len(ready) : ready[i].id = m
    \/ held # None /\ held.id = m

(* A message that was published is in the broker's hands until a handler   *)
(* has returned true for it or the broker was told to discard it: neither  *)
(* a failing handler, nor a connection lost at any moment, nor a stop of   *)
(* the consumer's process loses it.                                        *)
NoLoss ==
    \A m \in Published : handled[m] > 0 \/ m \in dropped \/ InQueue(m)

(* A message is discarded only after more executions of its handler than   *)
(* the configured number of retries, and no copy of it in the broker's     *)
(* hands has been retried more often: retries come to an end, and not      *)
(* before their time.                                                      *)
DroppedOnlyWhenExhausted ==
    \A m \in dropped : started[m] > MaxRetryCount

RetriesAreLimited ==
    /\ \A i \in 1 .. Len(ready) : ready[i].retry <= MaxRetryCount
    /\ held # None => held.retry <= MaxRetryCount

RetriesAreExact == DroppedOnlyWhenExhausted /\ RetriesAreLimited

(* The channel stands still, with a delivery that nobody will settle, only *)
(* after a handler has failed with retries left: its retry has been put in *)
(* the queue behind it.                                                    *)
WedgedOnlyByRetry ==
    link = "open" /\ held # None /\ execution[epoch] = None =>
        /\ failures > 0
        /\ held.retry < MaxRetryCount
        /\ \E i \in 1 .. Len(ready) :
              ready[i] = [id |-> held.id, retry |-> held.retry + 1]

(* What the programs at both ends see of the queue: the executions that    *)
(* have not come to an end, or for which no retry has been arranged yet,   *)
(* and whether a channel was ever lost.                                    *)
Promise ==
    INSTANCE AtLeastOnce
    WITH Slots <- Epochs,
         sent <- published,
         done <- {m \in Messages : handled[m] > 0},
         discarded <- dropped,
         running <- [e \in Epochs |->
                       IF IsIn(e, "handling") \/ IsIn(e, "nacking")
                          THEN execution[e].copy.id ELSE None],
         disturbed <- epoch > 0

(* The queue keeps the promise of AtLeastOnce: messages are handled for    *)
(* the first time in the order of publication, whatever is retried or      *)
(* delivered again; once, until a channel is lost; and never a message     *)
(* nobody published.                                                       *)
KeepsPromise == Promise!Spec

(* A message is settled in the end, through any loss of the connection,    *)
(* unless a handler fails or the connection is replaced.                   *)
SettledUnlessFailing ==
    \A m \in Messages :
        m \in Published ~>
            \/ handled[m] > 0
            \/ m \in dropped
            \/ failures > 0
            \/ link = "orphaned"

(* Every message that is published is handled in the end, or discarded.    *)
EveryMessageSettled ==
    \A m \in Messages :
        m \in Published ~> handled[m] > 0 \/ m \in dropped
=============================================================================
