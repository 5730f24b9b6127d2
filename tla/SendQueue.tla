------------------------------ MODULE SendQueue ------------------------------
(***************************************************************************)
(* TransportSendQueue of the SignalR client: data handed to a connection   *)
(* wait in a buffer while the transport is busy, and all that has gathered *)
(* goes out as one batch.  The caller of send() gets the promise of the    *)
(* batch its data will be in, before that batch exists.                    *)
(*                                                                         *)
(* The data of the n-th call of send() is n, and promises are numbered in  *)
(* the order they are made.  The loop wakes up in a microtask of its own,  *)
(* after the code that called send() or stop() has run.                    *)
(***************************************************************************)
EXTENDS Integers, Sequences

CONSTANT MaxSends  \* bound: calls of send()

ASSUME MaxSendsAssumption == MaxSends \in Nat

VARIABLES
    buffer,     \* _buffer
    flush,      \* _sendBufferedData: "pending" or "resolved"
    result,     \* _transportResult: a promise, or NoPromise
    batch,      \* what the loop is sending, and for which promise
    loop,       \* where _sendLoop is
    executing,  \* _executing
    promised,   \* the promise each call of send() returned
    settled,    \* what has become of each promise
    accepted    \* the data the transport has accepted, in that order

queue == <<buffer, flush, result, batch, loop, executing, promised, settled,
           accepted>>

NoPromise == 0

NoBatch == [data |-> <<>>, result |-> NoPromise]

QueueInit ==
    /\ buffer = <<>>
    /\ flush = "pending"
    /\ result = 1
    /\ batch = NoBatch
    /\ loop = "waiting"
    /\ executing = TRUE
    /\ promised = <<>>
    /\ settled = <<"pending">>
    /\ accepted = <<>>

(* The pieces that a slip would change, each preceded by the slip, a       *)
(* mutant the model does not use.                                          *)

FlushKept(f) == f

(* this._sendBufferedData = new PromiseSource(), before the batch is sent. *)
FlushRenewed(f) == "pending"

ResultKept(r) == r

(* this._transportResult = undefined: what is sent from now on belongs to  *)
(* the next batch.                                                         *)
ResultForgotten(r) == NoPromise

BufferKept(b) == b

(* this._buffer.length = 0.                                                *)
BufferEmptied(b) == <<>>

LeftPending(p) == settled

(* The promise of data that no batch has taken, when the loop ends.        *)
RejectedAtEnd(p) ==
    IF p = NoPromise THEN settled ELSE [settled EXCEPT ![p] = "rejected"]

-----------------------------------------------------------------------------
(* send() and _bufferData.                                                 *)
Send ==
    /\ executing
    /\ Len(promised) < MaxSends
    /\ buffer' = Append(buffer, Len(promised) + 1)
    /\ flush' = "resolved"
    /\ \/ /\ result = NoPromise
          /\ settled' = Append(settled, "pending")
          /\ result' = Len(settled')
       \/ /\ result # NoPromise
          /\ UNCHANGED <<result, settled>>
    /\ promised' = Append(promised, result')
    /\ UNCHANGED <<batch, loop, executing, accepted>>

(* stop(); the owner uses the queue no more.                               *)
StopQueue ==
    /\ executing
    /\ executing' = FALSE
    /\ flush' = "resolved"
    /\ UNCHANGED <<buffer, result, batch, loop, promised, settled, accepted>>

(* The loop wakes up and hands the buffer to the transport.                *)
TakeBatch ==
    /\ loop = "waiting"
    /\ flush = "resolved"
    /\ executing
    /\ flush' = FlushRenewed(flush)
    /\ batch' = [data |-> buffer, result |-> result]
    /\ result' = ResultForgotten(result)
    /\ buffer' = BufferEmptied(buffer)
    /\ loop' = "sending"
    /\ UNCHANGED <<executing, promised, settled, accepted>>

(* The loop wakes up because of stop().                                    *)
EndLoop ==
    /\ loop = "waiting"
    /\ flush = "resolved"
    /\ ~executing
    /\ settled' = RejectedAtEnd(result)
    /\ loop' = "ended"
    /\ UNCHANGED <<buffer, flush, result, batch, executing, promised,
                   accepted>>

Settle(outcome) ==
    /\ loop = "sending"
    /\ settled' = [settled EXCEPT ![batch.result] = outcome]
    /\ batch' = NoBatch
    /\ loop' = "waiting"
    /\ UNCHANGED <<buffer, flush, result, executing, promised>>

(* The promise of transport.send() resolves.                               *)
TransportAccepts ==
    /\ Settle("resolved")
    /\ accepted' = accepted \o batch.data

(* It is rejected: the batch is lost, and the next one goes its way.       *)
TransportRefuses ==
    /\ Settle("rejected")
    /\ UNCHANGED accepted

QueueNext ==
    \/ Send
    \/ StopQueue
    \/ TakeBatch
    \/ EndLoop
    \/ TransportAccepts
    \/ TransportRefuses

QueueSpec == QueueInit /\ [][QueueNext]_queue

-----------------------------------------------------------------------------
(* Every variable of the queue keeps its type, and data in the buffer have *)
(* a promise and something that wakes the loop.                            *)
QueueTypeOK ==
    /\ buffer \in Seq(1 .. MaxSends)
    /\ flush \in {"pending", "resolved"}
    /\ settled \in Seq({"pending", "resolved", "rejected"})
    /\ result \in 0 .. Len(settled)
    /\ batch \in [data : Seq(1 .. MaxSends), result : 0 .. Len(settled)]
    /\ loop \in {"waiting", "sending", "ended"}
    /\ executing \in BOOLEAN
    /\ promised \in Seq(1 .. Len(settled))
    /\ Len(promised) <= MaxSends
    /\ accepted \in Seq(1 .. MaxSends)
    /\ buffer # <<>> => flush = "resolved" /\ result # NoPromise

(* The loop never goes to the transport with nothing to send: on an empty  *)
(* buffer _concatBuffers throws outside the try block, the loop is over    *)
(* and whatever is sent later is never answered.                           *)
NoEmptyBatch == loop = "sending" => batch.data # <<>>

(* A promise of send() that has resolved was given for data the transport  *)
(* has accepted, although it was made before the batch and is shared with  *)
(* all the data of it.                                                     *)
ResolvedMeansAccepted ==
    \A n \in 1 .. Len(promised) :
        settled[promised[n]] = "resolved" =>
            \E i \in 1 .. Len(accepted) : accepted[i] = n

(* The transport accepts data in the order of the calls and nothing twice, *)
(* whatever batches are refused in between.                                *)
AcceptedInOrder ==
    \A i, j \in 1 .. Len(accepted) : i < j => accepted[i] < accepted[j]

(* Every call of send() gets an answer, even if the queue is stopped       *)
(* between the call and the batch.                                         *)
EverySendSettles ==
    \A n \in 1 .. MaxSends :
        n <= Len(promised) ~>
            n <= Len(promised) /\ settled[promised[n]] # "pending"
=============================================================================
