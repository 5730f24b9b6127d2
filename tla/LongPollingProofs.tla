--------------------------- MODULE LongPollingProofs ---------------------------
(***************************************************************************)
(* Theorems about SendQueue and about LongPolling, which drives it, for    *)
(* any number of sends and polls.                                          *)
(***************************************************************************)
EXTENDS LongPolling, SequenceTheorems, TLAPS

(* What send() and the loop keep true of the promises: the two that are    *)
(* not settled are those of the batch and of the buffer.                   *)
PromisesOpen ==
    /\ result # NoPromise /\ loop # "ended" => settled[result] = "pending"
    /\ loop = "sending" =>
          /\ batch.result # NoPromise
          /\ batch.result # result
          /\ settled[batch.result] = "pending"

IsIn(n, data) == \E i \in 1 .. Len(data) : data[i] = n

(* The data of a call are where its promise says.                          *)
DataFollowPromise ==
    \A n \in 1 .. Len(promised) :
        /\ promised[n] # NoPromise
        /\ promised[n] = result => IsIn(n, buffer)
        /\ loop = "sending" /\ promised[n] = batch.result => IsIn(n, batch.data)

(* What the transport has accepted, the batch and the buffer hold the data *)
(* of the calls so far, in their order.                                    *)
Increasing(s) == \A i, j \in 1 .. Len(s) : i < j => s[i] < s[j]

Precedes(s, t) == \A i \in 1 .. Len(s), j \in 1 .. Len(t) : s[i] < t[j]

CalledBefore(s, n) == \A i \in 1 .. Len(s) : s[i] < n

DataInOrder ==
    /\ Increasing(accepted) /\ Increasing(batch.data) /\ Increasing(buffer)
    /\ Precedes(accepted, batch.data)
    /\ Precedes(accepted, buffer)
    /\ Precedes(batch.data, buffer)
    /\ CalledBefore(accepted, Len(promised) + 1)
    /\ CalledBefore(batch.data, Len(promised) + 1)
    /\ CalledBefore(buffer, Len(promised) + 1)

(* The loop is only woken when there is something to do, and only ends     *)
(* when the queue is stopped.                                              *)
WokenForData ==
    /\ flush = "resolved" /\ executing => buffer # <<>>
    /\ loop = "ended" => ~executing

QueueInv ==
    /\ QueueTypeOK
    /\ PromisesOpen
    /\ DataFollowPromise
    /\ DataInOrder
    /\ WokenForData
    /\ NoEmptyBatch
    /\ ResolvedMeansAccepted

Datum == 1 .. MaxSends

Outcome == {"pending", "resolved", "rejected"}

-----------------------------------------------------------------------------
LEMMA QueueInitInv == QueueInit => QueueInv
<1> SUFFICES ASSUME QueueInit PROVE QueueInv
  OBVIOUS
<1> USE MaxSendsAssumption DEF QueueInit, NoPromise, NoBatch
<1>1. Len(settled) = 1 /\ settled[1] = "pending" /\ Len(promised) = 0
  OBVIOUS
<1>2. QueueTypeOK
  BY <1>1 DEF QueueTypeOK
<1>3. PromisesOpen /\ WokenForData /\ NoEmptyBatch
  BY <1>1 DEF PromisesOpen, WokenForData, NoEmptyBatch
<1>4. DataFollowPromise /\ ResolvedMeansAccepted
  BY <1>1 DEF DataFollowPromise, ResolvedMeansAccepted
<1>5. DataInOrder
  BY DEF DataInOrder, Increasing, Precedes, CalledBefore
<1> QED BY <1>2, <1>3, <1>4, <1>5 DEF QueueInv

(* A new call comes after all the data there are.                          *)
LEMMA LaterCall ==
    ASSUME NEW n \in Datum, NEW s \in Seq(Datum), CalledBefore(s, n)
    PROVE  CalledBefore(s, n + 1)
<1> SUFFICES ASSUME NEW i \in 1 .. Len(s) PROVE s[i] < n + 1
  BY DEF CalledBefore
<1>1. s[i] \in Datum /\ s[i] < n
  BY ElementOfSeq DEF CalledBefore
<1> QED BY <1>1 DEF Datum

LEMMA AppendInOrder ==
    ASSUME NEW n \in Datum, NEW s \in Seq(Datum), NEW t \in Seq(Datum),
           Increasing(s), CalledBefore(s, n), Precedes(t, s),
           CalledBefore(t, n)
    PROVE  /\ Increasing(Append(s, n))
           /\ CalledBefore(Append(s, n), n + 1)
           /\ Precedes(t, Append(s, n))
<1> DEFINE u == Append(s, n)
<1>1. /\ Len(s) \in Nat /\ Len(t) \in Nat
      /\ Len(u) = Len(s) + 1
      /\ u[Len(s) + 1] = n
      /\ \A i \in 1 .. Len(s) : u[i] = s[i] /\ s[i] < n /\ s[i] \in Datum
  BY AppendProperties, LenProperties, ElementOfSeq DEF CalledBefore
<1> HIDE DEF u
<1>2. Increasing(u)
  BY <1>1 DEF Increasing
<1>3. CalledBefore(u, n + 1)
  BY <1>1 DEF CalledBefore, Datum
<1>4. Precedes(t, u)
  BY <1>1 DEF Precedes, CalledBefore
<1> QED BY <1>2, <1>3, <1>4 DEF u

LEMMA ConcatInOrder ==
    ASSUME NEW s \in Seq(Datum), NEW t \in Seq(Datum), NEW u \in Seq(Datum),
           NEW n, Increasing(s), Increasing(t), Precedes(s, t),
           Precedes(s, u), Precedes(t, u), CalledBefore(s, n),
           CalledBefore(t, n)
    PROVE  /\ Increasing(s \o t)
           /\ Precedes(s \o t, u)
           /\ CalledBefore(s \o t, n)
<1> DEFINE v == s \o t
<1>1. /\ Len(s) \in Nat /\ Len(t) \in Nat /\ Len(u) \in Nat
      /\ Len(v) = Len(s) + Len(t)
      /\ \A i \in 1 .. Len(v) :
            v[i] = IF i <= Len(s) THEN s[i] ELSE t[i - Len(s)]
  BY ConcatProperties, LenProperties
<1> HIDE DEF v
<1>2. \A i \in 1 .. Len(v) :
         \/ i \in 1 .. Len(s) /\ v[i] = s[i]
         \/ i - Len(s) \in 1 .. Len(t) /\ v[i] = t[i - Len(s)]
  BY <1>1
<1>3. Increasing(v)
  <2> SUFFICES ASSUME NEW i \in 1 .. Len(v), NEW j \in 1 .. Len(v), i < j
               PROVE  v[i] < v[j]
    BY DEF Increasing
  <2>1. CASE i \in 1 .. Len(s) /\ j \in 1 .. Len(s)
    BY <1>1, <2>1 DEF Increasing
  <2>2. CASE i \in 1 .. Len(s) /\ j - Len(s) \in 1 .. Len(t)
    <3>1. v[i] = s[i] /\ v[j] = t[j - Len(s)]
      BY <1>1, <2>2
    <3> QED BY <2>2, <3>1 DEF Precedes
  <2>3. CASE i - Len(s) \in 1 .. Len(t) /\ j - Len(s) \in 1 .. Len(t)
    <3>1. v[i] = t[i - Len(s)] /\ v[j] = t[j - Len(s)]
      BY <1>1, <2>3
    <3>2. i - Len(s) < j - Len(s)
      BY <1>1
    <3> QED BY <2>3, <3>1, <3>2 DEF Increasing
  <2> QED BY <1>1, <2>1, <2>2, <2>3
<1>4. Precedes(v, u) /\ CalledBefore(v, n)
  BY <1>1, <1>2 DEF Precedes, CalledBefore
<1> QED BY <1>3, <1>4 DEF v

(* The promise of a new call: the one of the next batch, or a new one.     *)
LEMMA SendPromises ==
    ASSUME QueueTypeOK, Send
    PROVE  /\ settled' \in Seq(Outcome)
           /\ Len(settled') >= Len(settled)
           /\ result' \in 1 .. Len(settled')
           /\ \A p \in 1 .. Len(settled) : settled'[p] = settled[p]
           /\ result' # result =>
                 /\ result = NoPromise
                 /\ result' = Len(settled) + 1
                 /\ settled'[result'] = "pending"
<1> USE DEF QueueTypeOK, NoPromise, Outcome
<1>1. CASE result = 0
  <2>1. settled' = Append(settled, "pending") /\ result' = Len(settled')
    BY <1>1 DEF Send
  <2> QED BY <1>1, <2>1, AppendProperties
<1>2. CASE result # 0
  BY <1>2 DEF Send
<1> QED BY <1>1, <1>2

LEMMA SendCalls ==
    ASSUME QueueTypeOK, Send
    PROVE  LET n == Len(promised) + 1 IN
           /\ n \in Datum
           /\ promised' \in Seq(1 .. Len(settled'))
           /\ Len(promised') = n
           /\ promised'[n] = result'
           /\ \A i \in 1 .. Len(promised) : promised'[i] = promised[i]
           /\ buffer' \in Seq(Datum)
           /\ buffer' = Append(buffer, n)
           /\ Len(buffer') = Len(buffer) + 1
           /\ buffer'[Len(buffer) + 1] = n
           /\ \A i \in 1 .. Len(buffer) : buffer'[i] = buffer[i]
<1> DEFINE n == Len(promised) + 1
<1>1. Len(promised) \in Nat /\ Len(settled) \in Nat /\ Len(settled') \in Nat
  BY SendPromises, LenProperties DEF QueueTypeOK
<1>2. n \in Datum
  BY <1>1, MaxSendsAssumption DEF Send, Datum
<1>3. 1 .. Len(settled) \subseteq 1 .. Len(settled')
  BY <1>1, SendPromises
<1>4. promised \in Seq(1 .. Len(settled'))
  BY <1>3, SeqMonotonic DEF QueueTypeOK
<1>5. promised' = Append(promised, result') /\ buffer' = Append(buffer, n)
  BY DEF Send
<1>6. result' \in 1 .. Len(settled')
  BY SendPromises
<1> HIDE DEF n
<1>7. buffer \in Seq(Datum)
  BY DEF QueueTypeOK, Datum
<1>8. /\ promised' \in Seq(1 .. Len(settled'))
      /\ Len(promised') = Len(promised) + 1
      /\ promised'[Len(promised) + 1] = result'
      /\ \A i \in 1 .. Len(promised) : promised'[i] = promised[i]
  BY <1>4, <1>5, <1>6, AppendProperties
<1>9. /\ buffer' \in Seq(Datum)
      /\ Len(buffer') = Len(buffer) + 1
      /\ buffer'[Len(buffer) + 1] = n
      /\ \A i \in 1 .. Len(buffer) : buffer'[i] = buffer[i]
  BY <1>2, <1>5, <1>7, AppendProperties
<1> QED BY <1>2, <1>5, <1>8, <1>9 DEF n

LEMMA SendInv ==
    ASSUME QueueInv, Send
    PROVE  QueueInv'
<1> DEFINE n == Len(promised) + 1
<1> USE DEF QueueInv
<1>0. /\ UNCHANGED <<batch, loop, executing, accepted>>
      /\ executing /\ flush' = "resolved"
  BY DEF Send
<1>1. /\ n \in Datum
      /\ Len(promised) \in Nat /\ Len(promised) < MaxSends
      /\ Len(buffer) \in Nat /\ Len(settled) \in Nat /\ Len(settled') \in Nat
  BY SendCalls, SendPromises, LenProperties DEF QueueTypeOK, Send
<1>2. QueueTypeOK'
  <2>1. batch' \in [data : Seq(1 .. MaxSends), result : 0 .. Len(settled')]
    <3>1. 0 .. Len(settled) \subseteq 0 .. Len(settled')
      BY <1>1, SendPromises
    <3> QED BY <1>0, <3>1 DEF QueueTypeOK
  <2>2. result' \in 0 .. Len(settled') /\ result' # NoPromise
    BY <1>1, SendPromises DEF NoPromise
  <2>3. Len(promised') <= MaxSends
    BY <1>1, SendCalls DEF Datum
  <2> QED
    BY <1>0, <2>1, <2>2, <2>3, SendPromises, SendCalls
       DEF QueueTypeOK, Datum, Outcome
<1>3. PromisesOpen'
  <2>1. loop = "sending" =>
           batch.result \in 1 .. Len(settled) /\ batch.result # result'
    BY <1>1, SendPromises DEF QueueTypeOK, PromisesOpen, NoPromise
  <2>2. result # NoPromise => result \in 1 .. Len(settled)
    BY <1>1 DEF QueueTypeOK, NoPromise
  <2> QED BY <1>0, <2>1, <2>2, SendPromises DEF PromisesOpen
<1>4. ASSUME NEW k \in 1 .. Len(promised')
      PROVE  /\ promised'[k] # NoPromise
             /\ promised'[k] = result' => IsIn(k, buffer')
             /\ loop = "sending" /\ promised'[k] = batch.result =>
                   IsIn(k, batch.data)
             /\ settled'[promised'[k]] = "resolved" => IsIn(k, accepted)
  <2>1. CASE k = n
    <3>1. promised'[k] = result' /\ result' # NoPromise
      BY <1>1, <2>1, SendCalls, SendPromises DEF NoPromise
    <3>2. IsIn(k, buffer')
      BY <1>1, <2>1, SendCalls DEF IsIn
    <3>3. settled'[result'] = "pending" /\ loop # "ended"
      BY <1>0, <1>3, <3>1 DEF PromisesOpen, WokenForData
    <3>4. loop = "sending" => result' # batch.result
      BY <1>0, <1>3 DEF PromisesOpen
    <3> QED BY <3>1, <3>2, <3>3, <3>4
  <2>2. CASE k \in 1 .. Len(promised)
    <3>1. promised'[k] = promised[k] /\ promised[k] \in 1 .. Len(settled)
      BY <1>1, <2>2, SendCalls, ElementOfSeq DEF QueueTypeOK
    <3>2. settled'[promised[k]] = settled[promised[k]]
      BY <3>1, SendPromises
    <3>3. promised[k] = result' => result' = result
      BY <1>1, <3>1, SendPromises
    <3>4. IsIn(k, buffer) => IsIn(k, buffer')
      BY <1>1, SendCalls DEF IsIn
    <3>5. settled[promised[k]] = "resolved" => IsIn(k, accepted)
      BY <2>2 DEF ResolvedMeansAccepted, IsIn
    <3> QED
      BY <2>2, <3>1, <3>2, <3>3, <3>4, <3>5 DEF DataFollowPromise
  <2> QED BY <1>1, <2>1, <2>2, SendCalls
<1>5. DataFollowPromise' /\ ResolvedMeansAccepted'
  BY <1>0, <1>4 DEF DataFollowPromise, ResolvedMeansAccepted, IsIn
<1>6. /\ accepted \in Seq(Datum) /\ batch.data \in Seq(Datum)
      /\ buffer \in Seq(Datum)
  BY DEF QueueTypeOK, Datum
<1>7. Len(promised') + 1 = n + 1
  BY SendCalls
<1>8. buffer' = Append(buffer, n)
  BY SendCalls
<1>9. n \in Datum
  BY <1>1
<1> HIDE DEF n
<1>10. /\ CalledBefore(accepted, n) /\ CalledBefore(batch.data, n)
       /\ CalledBefore(buffer, n)
  BY DEF DataInOrder, n
<1>11. DataInOrder'
  <2>1. CalledBefore(accepted, n + 1) /\ CalledBefore(batch.data, n + 1)
    BY <1>6, <1>9, <1>10, LaterCall
  <2>2. /\ Increasing(buffer') /\ CalledBefore(buffer', n + 1)
        /\ Precedes(accepted, buffer') /\ Precedes(batch.data, buffer')
    BY <1>6, <1>8, <1>9, <1>10, AppendInOrder DEF DataInOrder
  <2> QED BY <1>0, <1>7, <2>1, <2>2 DEF DataInOrder
<1>12. WokenForData' /\ NoEmptyBatch'
  BY <1>0, <1>1, SendCalls DEF WokenForData, NoEmptyBatch
<1> QED BY <1>2, <1>3, <1>5, <1>11, <1>12

-----------------------------------------------------------------------------
(* stop() and the end of the loop settle no promise but the one of data    *)
(* that no batch has taken.                                                *)
LEMMA StopQueueInv ==
    ASSUME QueueInv, StopQueue
    PROVE  QueueInv'
BY DEF QueueInv, StopQueue, QueueTypeOK, PromisesOpen, DataFollowPromise,
       DataInOrder, WokenForData, NoEmptyBatch, ResolvedMeansAccepted

(* Settling an open promise changes nothing for the others.                *)
LEMMA SettledType ==
    ASSUME QueueTypeOK, NEW p \in 1 .. Len(settled), NEW o \in Outcome,
           settled' = [settled EXCEPT ![p] = o]
    PROVE  /\ settled' \in Seq(Outcome)
           /\ Len(settled') = Len(settled)
           /\ settled'[p] = o
           /\ \A q \in 1 .. Len(settled) : q # p => settled'[q] = settled[q]
BY ExceptSeq DEF QueueTypeOK, Outcome

LEMMA EndLoopInv ==
    ASSUME QueueInv, EndLoop
    PROVE  QueueInv'
<1> USE DEF QueueInv
<1>1. /\ UNCHANGED <<buffer, flush, result, batch, executing, promised,
                     accepted>>
      /\ loop = "waiting" /\ loop' = "ended" /\ ~executing
  BY DEF EndLoop
<1>2. /\ settled' \in Seq(Outcome) /\ Len(settled') = Len(settled)
      /\ \A p \in 1 .. Len(settled) :
            settled'[p] = settled[p] \/ settled'[p] = "rejected"
  <2>1. CASE result = NoPromise
    BY <2>1 DEF EndLoop, RejectedAtEnd, QueueTypeOK, Outcome
  <2>2. CASE result # NoPromise
    <3>1. result \in 1 .. Len(settled)
      BY <2>2, LenProperties DEF QueueTypeOK, NoPromise
    <3>2. settled' = [settled EXCEPT ![result] = "rejected"]
      BY <2>2 DEF EndLoop, RejectedAtEnd
    <3> QED BY <3>1, <3>2, SettledType DEF Outcome
  <2> QED BY <2>1, <2>2
<1>3. QueueTypeOK'
  BY <1>1, <1>2 DEF QueueTypeOK, Outcome
<1>4. PromisesOpen' /\ WokenForData' /\ NoEmptyBatch'
  BY <1>1 DEF PromisesOpen, WokenForData, NoEmptyBatch
<1>5. DataFollowPromise' /\ DataInOrder'
  BY <1>1 DEF DataFollowPromise, DataInOrder
<1>6. ResolvedMeansAccepted'
  <2>1. \A n \in 1 .. Len(promised) : promised[n] \in 1 .. Len(settled)
    BY ElementOfSeq DEF QueueTypeOK
  <2> QED BY <1>1, <1>2, <2>1 DEF ResolvedMeansAccepted
<1> QED BY <1>3, <1>4, <1>5, <1>6

(* The batch is what the buffer held, with its promise.                    *)
LEMMA TakeBatchInv ==
    ASSUME QueueInv, TakeBatch
    PROVE  QueueInv'
<1> USE DEF QueueInv, FlushRenewed, ResultForgotten, BufferEmptied, NoPromise
<1>1. /\ UNCHANGED <<executing, promised, settled, accepted>>
      /\ loop' = "sending" /\ flush' = "pending"
      /\ batch' = [data |-> buffer, result |-> result]
      /\ result' = 0 /\ buffer' = <<>>
      /\ batch'.data = buffer /\ batch'.result = result
  BY DEF TakeBatch
<1>2. buffer # <<>> /\ result # 0 /\ loop = "waiting"
  BY DEF TakeBatch, WokenForData, QueueTypeOK
<1>3. QueueTypeOK'
  <2>1. Len(settled) \in Nat
    BY LenProperties DEF QueueTypeOK
  <2>2. batch' \in [data : Seq(1 .. MaxSends), result : 0 .. Len(settled)]
    BY <1>1 DEF QueueTypeOK
  <2> QED BY <1>1, <2>1, <2>2 DEF QueueTypeOK
<1>4. PromisesOpen' /\ WokenForData' /\ NoEmptyBatch'
  BY <1>1, <1>2 DEF PromisesOpen, WokenForData, NoEmptyBatch
<1>5. DataFollowPromise'
  BY <1>1, <1>2 DEF DataFollowPromise
<1>6. ResolvedMeansAccepted'
  BY <1>1 DEF ResolvedMeansAccepted
<1>7. /\ Increasing(buffer') /\ Precedes(accepted, buffer')
      /\ Precedes(buffer, buffer') /\ CalledBefore(buffer', Len(promised) + 1)
  BY <1>1 DEF Increasing, Precedes, CalledBefore
<1>8. DataInOrder'
  BY <1>1, <1>7 DEF DataInOrder
<1> QED BY <1>3, <1>4, <1>5, <1>6, <1>8

(* The batch is over, and the promise of its data settled.                 *)
LEMMA BatchSettled ==
    ASSUME QueueInv, NEW o \in {"resolved", "rejected"}, Settle(o)
    PROVE  /\ loop = "sending"
           /\ UNCHANGED <<buffer, flush, result, executing, promised>>
           /\ batch.result \in 1 .. Len(settled)
           /\ batch' = NoBatch /\ loop' = "waiting"
           /\ settled' \in Seq(Outcome)
           /\ Len(settled') = Len(settled)
           /\ settled'[batch.result] = o
           /\ \A q \in 1 .. Len(settled) :
                 q # batch.result => settled'[q] = settled[q]
<1> USE DEF QueueInv
<1>1. loop = "sending" /\ settled' = [settled EXCEPT ![batch.result] = o]
  BY DEF Settle
<1>2. batch.result \in 1 .. Len(settled)
  BY <1>1, LenProperties DEF QueueTypeOK, PromisesOpen, NoPromise
<1> QED BY <1>1, <1>2, SettledType DEF Settle, Outcome

LEMMA SettledTypeOK ==
    ASSUME QueueInv, NEW o \in {"resolved", "rejected"}, Settle(o),
           accepted' \in Seq(Datum)
    PROVE  QueueTypeOK' /\ PromisesOpen' /\ WokenForData' /\ NoEmptyBatch'
<1> USE BatchSettled DEF QueueInv
<1>1. Len(settled) \in Nat
  BY LenProperties DEF QueueTypeOK
<1>2. NoBatch \in [data : Seq(1 .. MaxSends), result : 0 .. Len(settled)]
  BY <1>1 DEF NoBatch, NoPromise
<1>3. QueueTypeOK'
  BY <1>2 DEF QueueTypeOK, Datum, Outcome
<1>4. result # NoPromise =>
         result \in 1 .. Len(settled) /\ result # batch.result
  BY <1>1 DEF QueueTypeOK, NoPromise, PromisesOpen
<1>5. PromisesOpen'
  BY <1>4 DEF PromisesOpen
<1>6. WokenForData' /\ NoEmptyBatch'
  BY DEF WokenForData, NoEmptyBatch
<1> QED BY <1>3, <1>5, <1>6

LEMMA NoBatchInOrder ==
    /\ Increasing(NoBatch.data)
    /\ \A s : Precedes(s, NoBatch.data) /\ Precedes(NoBatch.data, s)
    /\ \A n : CalledBefore(NoBatch.data, n)
BY DEF NoBatch, Increasing, Precedes, CalledBefore

LEMMA RefusedInv ==
    ASSUME QueueInv, TransportRefuses
    PROVE  QueueInv'
<1> USE DEF QueueInv
<1>1. Settle("rejected") /\ accepted' = accepted
  BY DEF TransportRefuses
<1>2. accepted' \in Seq(Datum)
  BY <1>1 DEF QueueTypeOK, Datum
<1>3. QueueTypeOK' /\ PromisesOpen' /\ WokenForData' /\ NoEmptyBatch'
  BY <1>1, <1>2, SettledTypeOK
<1>4. DataFollowPromise'
  BY <1>1, BatchSettled DEF DataFollowPromise
<1>5. DataInOrder'
  BY <1>1, BatchSettled, NoBatchInOrder DEF DataInOrder
<1>6. ResolvedMeansAccepted'
  <2>1. \A n \in 1 .. Len(promised) : promised[n] \in 1 .. Len(settled)
    BY ElementOfSeq DEF QueueTypeOK
  <2> QED BY <1>1, <2>1, BatchSettled DEF ResolvedMeansAccepted
<1> QED BY <1>3, <1>4, <1>5, <1>6

LEMMA AcceptedInv ==
    ASSUME QueueInv, TransportAccepts
    PROVE  QueueInv'
<1> USE DEF QueueInv
<1>1. Settle("resolved") /\ accepted' = accepted \o batch.data
  BY DEF TransportAccepts
<1>2. /\ accepted \in Seq(Datum) /\ batch.data \in Seq(Datum)
      /\ buffer \in Seq(Datum)
  BY DEF QueueTypeOK, Datum
<1>3. /\ accepted' \in Seq(Datum)
      /\ Len(accepted) \in Nat /\ Len(batch.data) \in Nat
      /\ Len(accepted') = Len(accepted) + Len(batch.data)
      /\ \A i \in 1 .. Len(accepted) + Len(batch.data) :
            accepted'[i] = IF i <= Len(accepted) THEN accepted[i]
                           ELSE batch.data[i - Len(accepted)]
  BY <1>1, <1>2, ConcatProperties, LenProperties
<1>4. QueueTypeOK' /\ PromisesOpen' /\ WokenForData' /\ NoEmptyBatch'
  BY <1>1, <1>3, SettledTypeOK
<1>5. DataFollowPromise'
  BY <1>1, BatchSettled DEF DataFollowPromise
<1>6. DataInOrder'
  <2>1. /\ Increasing(accepted') /\ Precedes(accepted', buffer)
        /\ CalledBefore(accepted', Len(promised) + 1)
    BY <1>1, <1>2, ConcatInOrder DEF DataInOrder
  <2> QED BY <1>1, <2>1, BatchSettled, NoBatchInOrder DEF DataInOrder
<1>7. ResolvedMeansAccepted'
  <2> SUFFICES ASSUME NEW n \in 1 .. Len(promised),
                      settled'[promised[n]] = "resolved"
               PROVE  IsIn(n, accepted')
    BY <1>1, BatchSettled DEF ResolvedMeansAccepted, IsIn
  <2>1. promised[n] \in 1 .. Len(settled)
    BY ElementOfSeq DEF QueueTypeOK
  <2>2. CASE promised[n] = batch.result
    <3>1. PICK i \in 1 .. Len(batch.data) : batch.data[i] = n
      BY <1>1, <2>2, BatchSettled DEF DataFollowPromise, IsIn
    <3>2. accepted'[Len(accepted) + i] = n
      BY <1>3, <3>1
    <3> QED BY <1>3, <3>2 DEF IsIn
  <2>3. CASE promised[n] # batch.result
    <3>1. PICK i \in 1 .. Len(accepted) : accepted[i] = n
      BY <1>1, <2>1, <2>3, BatchSettled DEF ResolvedMeansAccepted
    <3> QED BY <1>3, <3>1 DEF IsIn
  <2> QED BY <2>2, <2>3
<1> QED BY <1>4, <1>5, <1>6, <1>7

LEMMA QueueNextInv == QueueInv /\ [QueueNext]_queue => QueueInv'
<1> SUFFICES ASSUME QueueInv, [QueueNext]_queue PROVE QueueInv'
  OBVIOUS
<1>1. CASE UNCHANGED queue
  BY <1>1 DEF QueueInv, queue, QueueTypeOK, PromisesOpen, DataFollowPromise,
     DataInOrder, WokenForData, NoEmptyBatch, ResolvedMeansAccepted
<1>2. CASE QueueNext
  BY <1>2, SendInv, StopQueueInv, TakeBatchInv, EndLoopInv, AcceptedInv,
     RefusedInv DEF QueueNext
<1> QED BY <1>1, <1>2

LEMMA QueueInductive == QueueSpec => []QueueInv
<1> QED BY QueueInitInv, QueueNextInv, PTL DEF QueueSpec

-----------------------------------------------------------------------------
(* Every promise without an answer is one that somebody has to settle: the *)
(* loop that will take the buffer, or the transport that has the batch.    *)
PendingIsHeld ==
    \A p \in 1 .. Len(settled) :
        settled[p] = "pending" =>
            \/ p = result /\ loop # "ended"
            \/ loop = "sending" /\ p = batch.result

LEMMA InitPending == QueueInit => PendingIsHeld
BY DEF QueueInit, PendingIsHeld

LEMMA SendPending ==
    ASSUME QueueInv, PendingIsHeld, Send
    PROVE  PendingIsHeld'
<1> SUFFICES ASSUME NEW p \in 1 .. Len(settled'), settled'[p] = "pending"
             PROVE  \/ p = result' /\ loop' # "ended"
                    \/ loop' = "sending" /\ p = batch'.result
  BY DEF PendingIsHeld
<1>1. /\ UNCHANGED <<batch, loop>>
      /\ loop # "ended"
  BY DEF Send, QueueInv, WokenForData
<1>2. CASE p \in 1 .. Len(settled)
  <2>1. p = result \/ (loop = "sending" /\ p = batch.result)
    BY <1>2, SendPromises DEF QueueInv, PendingIsHeld
  <2>2. p = result => result' = result
    BY <1>2, SendPromises DEF QueueInv, NoPromise
  <2> QED BY <1>1, <2>1, <2>2
<1>3. CASE p \notin 1 .. Len(settled)
  <2>1. /\ Len(settled) \in Nat /\ Len(settled') \in Nat
        /\ Len(settled') > Len(settled)
    BY <1>3, SendPromises, LenProperties DEF QueueInv, QueueTypeOK
  <2>2. /\ settled' = Append(settled, "pending") /\ result' = Len(settled')
    BY <2>1 DEF Send
  <2>3. Len(settled') = Len(settled) + 1
    BY <2>2, AppendProperties DEF QueueInv, QueueTypeOK
  <2> QED BY <1>1, <1>3, <2>1, <2>2, <2>3
<1> QED BY <1>2, <1>3

(* The promise of the buffer goes with the batch.                          *)
LEMMA TakePending ==
    ASSUME PendingIsHeld, TakeBatch
    PROVE  PendingIsHeld'
BY DEF PendingIsHeld, TakeBatch

(* What the end of the loop and of a batch settle is what they had.        *)
LEMMA EndPending ==
    ASSUME QueueInv, PendingIsHeld, EndLoop
    PROVE  PendingIsHeld'
<1>1. loop = "waiting" /\ settled \in Seq(Outcome) /\ Len(settled) \in Nat
  BY LenProperties DEF EndLoop, QueueInv, QueueTypeOK, Outcome
<1>2. CASE result = NoPromise
  <2>1. settled' = settled
    BY <1>2 DEF EndLoop, RejectedAtEnd
  <2>2. \A p \in 1 .. Len(settled) : settled[p] # "pending"
    BY <1>1, <1>2 DEF PendingIsHeld, NoPromise
  <2> QED BY <2>1, <2>2 DEF PendingIsHeld
<1>3. CASE result # NoPromise
  <2>1. result \in 1 .. Len(settled)
    BY <1>1, <1>3 DEF QueueInv, QueueTypeOK, NoPromise
  <2>2. settled' = [settled EXCEPT ![result] = "rejected"]
    BY <1>3 DEF EndLoop, RejectedAtEnd
  <2>3. /\ Len(settled') = Len(settled) /\ settled'[result] = "rejected"
        /\ \A p \in 1 .. Len(settled) : p # result => settled'[p] = settled[p]
    BY <2>1, <2>2, SettledType DEF QueueInv, Outcome
  <2> QED BY <1>1, <2>3 DEF PendingIsHeld
<1> QED BY <1>2, <1>3

LEMMA SettlePending ==
    ASSUME QueueInv, PendingIsHeld, NEW o \in {"resolved", "rejected"},
           Settle(o)
    PROVE  PendingIsHeld'
<1> USE BatchSettled
<1>1. loop' # "ended" /\ Len(settled') = Len(settled)
  OBVIOUS
<1> QED BY <1>1 DEF PendingIsHeld

LEMMA NextPending ==
    QueueInv /\ PendingIsHeld /\ [QueueNext]_queue => PendingIsHeld'
<1> SUFFICES ASSUME QueueInv, PendingIsHeld, [QueueNext]_queue
             PROVE  PendingIsHeld'
  OBVIOUS
<1>1. CASE StopQueue \/ UNCHANGED queue
  BY <1>1 DEF StopQueue, queue, PendingIsHeld
<1>2. CASE TransportAccepts \/ TransportRefuses
  BY <1>2, SettlePending DEF TransportAccepts, TransportRefuses
<1> QED BY <1>1, <1>2, SendPending, TakePending, EndPending DEF QueueNext

(* A call of send() that has no answer is not forgotten: its data are in   *)
(* the buffer of a loop that is about to wake up, or in the batch that the *)
(* transport has.                                                          *)
SendsAreInHand ==
    \A n \in 1 .. Len(promised) :
        settled[promised[n]] = "pending" =>
            \/ loop # "ended" /\ flush = "resolved" /\ IsIn(n, buffer)
            \/ loop = "sending" /\ IsIn(n, batch.data)

LEMMA HeldMeansInHand == QueueInv /\ PendingIsHeld => SendsAreInHand
<1> SUFFICES ASSUME QueueInv, PendingIsHeld, NEW n \in 1 .. Len(promised),
                    settled[promised[n]] = "pending"
             PROVE  \/ loop # "ended" /\ flush = "resolved" /\ IsIn(n, buffer)
                    \/ loop = "sending" /\ IsIn(n, batch.data)
  BY DEF SendsAreInHand
<1>1. promised[n] \in 1 .. Len(settled)
  BY ElementOfSeq DEF QueueInv, QueueTypeOK
<1>2. CASE promised[n] = result /\ loop # "ended"
  <2>1. IsIn(n, buffer)
    BY <1>2 DEF QueueInv, DataFollowPromise
  <2>2. buffer # <<>>
    BY <2>1 DEF IsIn
  <2> QED BY <1>2, <2>1, <2>2 DEF QueueInv, QueueTypeOK
<1>3. CASE loop = "sending" /\ promised[n] = batch.result
  BY <1>3 DEF QueueInv, DataFollowPromise
<1> QED BY <1>1, <1>2, <1>3 DEF PendingIsHeld

-----------------------------------------------------------------------------
(* The queue is stopped with its connection, a poll that goes on has a     *)
(* connection it has not closed, and stop() leaves nothing running.        *)
ClosingInv ==
    /\ owner # "disconnected" => executing
    /\ poll # "ended" => attached
    /\ attached => closes = 0
    /\ poll \in {"first", "ended"} \/ aborted => ~running
    /\ poll = "first" => ~aborted
    /\ aborted => stopping \in {"receiving", "deleting", "done"}
    /\ stopping \in {"receiving", "deleting"} => aborted
    /\ owner \in {"connecting", "connected"} => stopping = "no"
    /\ stopping \in {"deleting", "done"} => poll = "ended"
    /\ CloseOnceAfterDelete

FlagsOK ==
    /\ attached \in BOOLEAN
    /\ running \in BOOLEAN
    /\ aborted \in BOOLEAN
    /\ posting \in BOOLEAN

StatesOK ==
    /\ owner \in {"connecting", "connected", "disconnecting", "disconnected"}
    /\ poll \in {"first", "waiting", "reading", "ended"}
    /\ stopping \in {"no", "called", "receiving", "deleting", "done"}
    /\ received \in 0 .. MaxReceived
    /\ closes \in Nat

TransportTypeOK == FlagsOK /\ StatesOK

PostingHasBatch == posting => loop = "sending"

IInv == QueueInv /\ TransportTypeOK /\ PostingHasBatch /\ ClosingInv

LEMMA InitInv == Init => IInv
<1> SUFFICES ASSUME Init PROVE IInv
  OBVIOUS
<1>1. QueueInv
  BY QueueInitInv DEF Init
<1>2. TransportTypeOK
  <2>1. FlagsOK
    BY DEF Init, FlagsOK
  <2>2. StatesOK
    BY MaxReceivedAssumption DEF Init, StatesOK
  <2> QED BY <2>1, <2>2 DEF TransportTypeOK
<1>3. PostingHasBatch
  BY DEF Init, PostingHasBatch
<1>4. ClosingInv
  BY DEF Init, QueueInit, ClosingInv, CloseOnceAfterDelete
<1> QED BY <1>1, <1>2, <1>3, <1>4 DEF IInv

(* The loss of the transport is a stop of the queue, or nothing to it.     *)
LEMMA StopConnectionStep ==
    ASSUME ClosingInv, StopConnection
    PROVE  QueueNext \/ UNCHANGED queue
BY DEF ClosingInv, StopConnection, QueueNext, StopQueue, queue

(* Every step of the transport is a step of its queue, or leaves it alone. *)
LEMMA QueueStep == ClosingInv /\ [Next]_vars => [QueueNext]_queue
<1> SUFFICES ASSUME ClosingInv, Next PROVE QueueNext \/ UNCHANGED queue
  BY DEF vars
<1>1. CASE FirstAnswer
  BY <1>1, StopConnectionStep
     DEF FirstAnswer, FirstPollSucceeds, FirstPollRefused, FirstPollFails
<1>2. CASE PollFails \/ PollEnds \/ PollReceives
  BY <1>2, StopConnectionStep
     DEF PollFails, PollEnds, PollReceives, EndPoll, RaiseOnClose, queue
<1>3. CASE PollAnswered \/ Stop
  BY <1>3 DEF PollAnswered, Stop
<1>4. CASE ConnectionSend \/ PostAnswered
  BY <1>4 DEF ConnectionSend, PostAnswered, QueueNext
<1>5. CASE DeleteAnswered
  BY <1>5, StopConnectionStep DEF DeleteAnswered, RaiseOnClose, queue
<1>6. CASE Microtask
  BY <1>6 DEF Microtask, SendBatch, SendRefused, EndQueue, StopTransport,
     SendDelete, QueueNext
<1> QED BY <1>1, <1>2, <1>3, <1>4, <1>5, <1>6 DEF Next

(* The types of the transport, by the actions that change much of it.      *)
LEMMA StatesType ==
    ASSUME StatesOK, Next
    PROVE  StatesOK'
<1> USE MaxReceivedAssumption DEF StatesOK
<1>1. CASE FirstAnswer
  BY <1>1 DEF FirstAnswer, FirstPollSucceeds, FirstPollRefused,
     FirstPollFails, StopConnection, queue
<1>2. CASE PollFails \/ PollEnds \/ PollReceives
  BY <1>2 DEF PollFails, PollEnds, PollReceives, EndPoll, RaisesAtLoopEnd,
     RaiseOnClose, StopConnection, queue
<1>3. CASE PollAnswered \/ Stop
  BY <1>3 DEF PollAnswered, Stop, queue
<1>4. CASE ConnectionSend \/ PostAnswered
  BY <1>4 DEF ConnectionSend, Send, PostAnswered, TransportAccepts,
     TransportRefuses, Settle, transport
<1>5. CASE DeleteAnswered
  BY <1>5 DEF DeleteAnswered, RaisesAfterDelete, RaiseOnClose,
     StopConnection, queue
<1>6. CASE Microtask
  BY <1>6 DEF Microtask, SendBatch, SendRefused, EndQueue, StopTransport,
     SendDelete, TakeBatch, Posts, EndLoop, TransportRefuses, Settle,
     transport, queue
<1> QED BY <1>1, <1>2, <1>3, <1>4, <1>5, <1>6 DEF Next

LEMMA FlagsType ==
    ASSUME FlagsOK, Next
    PROVE  FlagsOK'
<1> USE DEF FlagsOK
<1>1. CASE FirstAnswer
  BY <1>1 DEF FirstAnswer, FirstPollSucceeds, FirstPollRefused,
     FirstPollFails, StopConnection, queue
<1>2. CASE PollFails \/ PollEnds \/ PollReceives
  BY <1>2 DEF PollFails, PollEnds, PollReceives, EndPoll, RaisesAtLoopEnd,
     RaiseOnClose, StopConnection, queue
<1>3. CASE PollAnswered \/ Stop
  BY <1>3 DEF PollAnswered, Stop, queue
<1>4. CASE ConnectionSend \/ PostAnswered
  BY <1>4 DEF ConnectionSend, Send, PostAnswered, TransportAccepts,
     TransportRefuses, Settle, transport
<1>5. CASE DeleteAnswered
  BY <1>5 DEF DeleteAnswered, RaisesAfterDelete, RaiseOnClose,
     StopConnection, queue
<1>6. CASE Microtask
  BY <1>6 DEF Microtask, SendBatch, SendRefused, EndQueue, StopTransport,
     SendDelete, TakeBatch, Posts, EndLoop, TransportRefuses, Settle,
     transport, queue
<1> QED BY <1>1, <1>2, <1>3, <1>4, <1>5, <1>6 DEF Next

(* A POST request ends with its batch, and begins with it.                 *)
LEMMA PostingStep ==
    ASSUME PostingHasBatch, Next
    PROVE  PostingHasBatch'
<1>1. CASE SendBatch
  BY <1>1 DEF SendBatch, TakeBatch, PostingHasBatch
<1>2. CASE SendRefused
  BY <1>2 DEF SendRefused, TransportRefuses, transport, PostingHasBatch
<1>3. CASE PostAnswered
  BY <1>3 DEF PostAnswered, PostingHasBatch
<1>4. CASE EndQueue
  BY <1>4 DEF EndQueue, EndLoop, transport, PostingHasBatch
<1>5. CASE ~(SendBatch \/ SendRefused \/ PostAnswered \/ EndQueue)
  <2>1. UNCHANGED <<posting, loop>>
    BY <1>5 DEF Next, FirstAnswer, FirstPollSucceeds, FirstPollRefused,
       FirstPollFails, StopConnection, PollAnswered, PollFails, PollEnds,
       PollReceives, EndPoll, RaiseOnClose, ConnectionSend, Send, Stop,
       DeleteAnswered, Microtask, StopTransport, SendDelete, transport, queue
  <2> QED BY <2>1 DEF PostingHasBatch
<1> QED BY <1>1, <1>2, <1>3, <1>4, <1>5

LEMMA ClosingStep ==
    ASSUME TransportTypeOK, ClosingInv, Next
    PROVE  ClosingInv'
<1> USE DEF TransportTypeOK, FlagsOK, StatesOK, ClosingInv,
            CloseOnceAfterDelete
<1>1. CASE FirstAnswer
  BY <1>1 DEF FirstAnswer, FirstPollSucceeds, FirstPollRefused,
     FirstPollFails, StopConnection, queue
<1>2. CASE PollFails \/ PollEnds \/ PollReceives
  BY <1>2 DEF PollFails, PollEnds, PollReceives, EndPoll, RaisesAtLoopEnd,
     RaiseOnClose, StopConnection, queue
<1>3. CASE PollAnswered \/ Stop
  BY <1>3 DEF PollAnswered, Stop, queue
<1>4. CASE ConnectionSend \/ PostAnswered
  BY <1>4 DEF ConnectionSend, Send, PostAnswered, TransportAccepts,
     TransportRefuses, Settle, transport
<1>5. CASE DeleteAnswered
  BY <1>5 DEF DeleteAnswered, RaisesAfterDelete, RaiseOnClose,
     StopConnection, queue
<1>6. CASE Microtask
  BY <1>6 DEF Microtask, SendBatch, SendRefused, EndQueue, StopTransport,
     SendDelete, ReceivingIsOver, TakeBatch, EndLoop, TransportRefuses,
     Settle, transport, queue
<1> QED BY <1>1, <1>2, <1>3, <1>4, <1>5, <1>6 DEF Next

LEMMA NextInv == IInv /\ [Next]_vars => IInv'
<1> SUFFICES ASSUME IInv, [Next]_vars PROVE IInv'
  OBVIOUS
<1>1. QueueInv'
  BY QueueStep, QueueNextInv DEF IInv
<1>2. CASE UNCHANGED vars
  BY <1>1, <1>2 DEF IInv, vars, queue, transport, TransportTypeOK,
     FlagsOK, StatesOK, PostingHasBatch, ClosingInv, CloseOnceAfterDelete
<1>3. CASE Next
  BY <1>1, <1>3, StatesType, FlagsType, PostingStep, ClosingStep
     DEF IInv, TransportTypeOK
<1> QED BY <1>2, <1>3

LEMMA Inductive == Spec => []IInv
<1> QED BY InitInv, NextInv, PTL DEF Spec

(* A stop of a connection that has a transport is under way: stop() has    *)
(* yet to run, or the transport it has stopped is on its way to onclose.   *)
StopIsUnderWay ==
    owner = "disconnecting" /\ attached =>
        \/ stopping = "called"
        \/ stopping = "receiving" /\ aborted
        \/ stopping = "deleting" /\ poll = "ended"

LEMMA UnderWayStep ==
    ASSUME TransportTypeOK, ClosingInv, StopIsUnderWay, Next
    PROVE  StopIsUnderWay'
<1> USE DEF StopIsUnderWay
<1>1. CASE Stop
  BY <1>1 DEF Stop
<1>2. CASE FirstAnswer
  BY <1>2 DEF FirstAnswer, FirstPollSucceeds, FirstPollRefused,
     FirstPollFails, StopConnection, ClosingInv
<1>3. CASE PollAnswered \/ PollFails \/ PollEnds \/ PollReceives
  BY <1>3 DEF PollAnswered, PollFails, PollEnds, PollReceives, EndPoll,
     RaiseOnClose, StopConnection, ClosingInv
<1>4. CASE ConnectionSend \/ PostAnswered
  BY <1>4 DEF ConnectionSend, PostAnswered, transport
<1>5. CASE DeleteAnswered
  BY <1>5 DEF DeleteAnswered, RaisesAfterDelete, RaiseOnClose, StopConnection
<1>6. CASE SendBatch \/ SendRefused \/ EndQueue
  BY <1>6 DEF SendBatch, SendRefused, EndQueue, transport
<1>7. CASE StopTransport \/ SendDelete
  BY <1>7 DEF StopTransport, SendDelete, ReceivingIsOver, ClosingInv
<1> QED BY <1>1, <1>2, <1>3, <1>4, <1>5, <1>6, <1>7 DEF Next, Microtask

LEMMA NextUnderWay ==
    IInv /\ StopIsUnderWay /\ [Next]_vars => StopIsUnderWay'
<1> SUFFICES ASSUME IInv, StopIsUnderWay, [Next]_vars PROVE StopIsUnderWay'
  OBVIOUS
<1>1. CASE UNCHANGED vars
  BY <1>1 DEF vars, transport, StopIsUnderWay
<1> QED BY <1>1, UnderWayStep DEF IInv

-----------------------------------------------------------------------------
(* The transport uses its queue as the queue is meant to be used.          *)
THEOREM ImplementsQueue == Spec => QueueSpec
<1>1. Init => QueueInit
  BY DEF Init
<1>2. IInv /\ [Next]_vars => [QueueNext]_queue
  BY QueueStep DEF IInv
<1> QED BY <1>1, <1>2, Inductive, PTL DEF Spec, QueueSpec

(* Every variable keeps its type.                                          *)
THEOREM TypeCorrect == Spec => []TypeOK
<1>1. IInv => TypeOK
  BY DEF IInv, QueueInv, TransportTypeOK, FlagsOK, StatesOK,
     PostingHasBatch, TypeOK
<1> QED BY <1>1, Inductive, PTL

(* The loop never goes to the transport with nothing to send.              *)
THEOREM BatchesHaveData == QueueSpec => []NoEmptyBatch
<1>1. QueueInv => NoEmptyBatch
  BY DEF QueueInv
<1> QED BY <1>1, QueueInductive, PTL

(* A promise of send() that has resolved was given for accepted data.      *)
THEOREM PromisesAreTrue == QueueSpec => []ResolvedMeansAccepted
<1>1. QueueInv => ResolvedMeansAccepted
  BY DEF QueueInv
<1> QED BY <1>1, QueueInductive, PTL

(* Data are accepted in the order of the calls, and nothing twice.         *)
THEOREM OrderIsKept == QueueSpec => []AcceptedInOrder
<1>1. QueueInv => AcceptedInOrder
  BY DEF QueueInv, DataInOrder, Increasing, AcceptedInOrder
<1> QED BY <1>1, QueueInductive, PTL

(* The connection is closed once, by stop() only after the DELETE request. *)
THEOREM ClosedOnce == Spec => []CloseOnceAfterDelete
<1>1. IInv => CloseOnceAfterDelete
  BY DEF IInv, ClosingInv
<1> QED BY <1>1, Inductive, PTL

(* No POST request starts once the DELETE request is on its way.           *)
THEOREM NothingPostedLate == Spec => NoPostAfterDelete
<1>1. ASSUME IInv, Next, posting', ~posting
      PROVE  stopping \notin {"deleting", "done"}
  <2>1. CASE SendBatch
    BY <1>1, <2>1 DEF IInv, TransportTypeOK, StatesOK, ClosingInv,
       SendBatch, Posts
  <2>2. CASE ~SendBatch
    BY <1>1, <2>2 DEF Next, FirstAnswer, FirstPollSucceeds, FirstPollRefused,
       FirstPollFails, PollAnswered, PollFails, PollEnds, PollReceives,
       ConnectionSend, PostAnswered, Stop, DeleteAnswered, Microtask,
       SendRefused, EndQueue, StopTransport, SendDelete, transport
  <2> QED BY <2>1, <2>2
<1>2. IInv /\ [Next]_vars =>
        [posting' /\ ~posting => stopping \notin {"deleting", "done"}]_vars
  BY <1>1
<1> QED BY <1>2, Inductive, PTL DEF Spec, NoPostAfterDelete

(* No call of send() is forgotten while it has no answer.                  *)
THEOREM NoSendIsForgotten == QueueSpec => []SendsAreInHand
<1>1. QueueInv /\ PendingIsHeld => SendsAreInHand
  BY HeldMeansInHand
<1> QED BY <1>1, InitPending, NextPending, QueueInductive, PTL DEF QueueSpec

(* A stop is not forgotten while the connection has its transport.         *)
THEOREM NoStopIsForgotten == Spec => []StopIsUnderWay
<1>1. Init => StopIsUnderWay
  BY DEF Init, StopIsUnderWay
<1> QED BY <1>1, NextUnderWay, Inductive, PTL DEF Spec
=============================================================================
