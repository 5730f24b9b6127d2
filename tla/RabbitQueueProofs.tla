-------------------------- MODULE RabbitQueueProofs --------------------------
(***************************************************************************)
(* Theorems about RabbitQueue, for any messages, any number of retries,    *)
(* lost connections and failing handlers.                                  *)
(***************************************************************************)
EXTENDS RabbitQueue, TLAPS

(* An execution on the present channel works on the delivery that is held. *)
HoldsWhatRuns ==
    execution[epoch] # None => held = execution[epoch].copy

(* A callback that is about to acknowledge has handled its message.        *)
AckedIsHandled ==
    \A e \in Epochs :
        IsIn(e, "acking") => handled[execution[e].copy.id] > 0

(* Each retry of a copy stands for an execution that began earlier; the    *)
(* copy an execution works on has begun once more.                         *)
RetriesWereStarted ==
    /\ \A i \in 1 .. Len(ready) : ready[i].retry <= started[ready[i].id]
    /\ held # None => held.retry <= started[held.id]
    /\ \A e \in Epochs :
          execution[e] # None =>
              execution[e].copy.retry < started[execution[e].copy.id]

IInv ==
    /\ TypeOK
    /\ HoldsWhatRuns
    /\ AckedIsHandled
    /\ RetriesWereStarted
    /\ NoLoss
    /\ DroppedOnlyWhenExhausted
    /\ RetriesAreLimited

-----------------------------------------------------------------------------
(* What each action does to the types, and to the counts of executions.    *)
LEMMA ExecutionType ==
    ASSUME TypeOK, NEW e \in Epochs, execution[e] # None
    PROVE  /\ execution[e] \in Execution
           /\ execution[e].copy \in Copy
           /\ e <= epoch
BY DEF TypeOK, Execution, Epochs

LEMMA FinishType ==
    ASSUME TypeOK, NEW e \in Epochs, Finish(e), epoch' = epoch
    PROVE  /\ execution' \in [Epochs -> Execution \cup {None}]
           /\ \A f \in Epochs : f > epoch' => execution'[f] = None
BY DEF TypeOK, Finish

LEMMA GoToValue ==
    ASSUME TypeOK, NEW e \in Epochs, execution[e] # None, NEW phase,
           GoTo(e, phase)
    PROVE  execution' = [execution EXCEPT ![e] =
                           [copy |-> execution[e].copy, phase |-> phase]]
<1>1. execution[e] \in Execution
  BY ExecutionType
<1>2. [execution[e] EXCEPT !.phase = phase] =
        [copy |-> execution[e].copy, phase |-> phase]
  BY <1>1 DEF Execution
<1> QED BY <1>2 DEF GoTo

LEMMA GoToType ==
    ASSUME TypeOK, NEW e \in Epochs, execution[e] # None,
           NEW phase \in {"handling", "acking", "nacking"}, GoTo(e, phase),
           epoch' = epoch
    PROVE  /\ execution' \in [Epochs -> Execution \cup {None}]
           /\ \A f \in Epochs : f > epoch' => execution'[f] = None
<1>1. /\ [copy |-> execution[e].copy, phase |-> phase] \in Execution
      /\ e <= epoch
  BY ExecutionType DEF Execution
<1>2. execution' = [execution EXCEPT ![e] =
                       [copy |-> execution[e].copy, phase |-> phase]]
  BY GoToValue
<1>3. execution' \in [Epochs -> Execution \cup {None}]
  BY <1>1, <1>2 DEF TypeOK
<1>4. ASSUME NEW f \in Epochs, f > epoch'
      PROVE  execution'[f] = None
  <2>1. f # e
    BY <1>1, <1>4 DEF TypeOK, Epochs
  <2> QED BY <1>2, <1>4, <2>1 DEF TypeOK
<1> QED BY <1>3, <1>4

LEMMA RequeueType ==
    ASSUME TypeOK, Requeue, epoch < MaxLosses
    PROVE  /\ ready' \in Seq(Copy)
           /\ held' \in Copy \cup {None}
           /\ epoch' \in Epochs
           /\ epoch' > epoch
BY BoundsAssumption DEF TypeOK, Requeue, Epochs

LEMMA NextType ==
    ASSUME TypeOK, Next
    PROVE  TypeOK'
<1>1. ASSUME NEW m \in Messages, Publish(m)
      PROVE  TypeOK'
  BY <1>1 DEF Publish, NewCopy, TypeOK, Copy
<1>2. ASSUME Deliver
      PROVE  TypeOK'
  <2>1. Head(ready) \in Copy /\ Tail(ready) \in Seq(Copy) /\ epoch \in Epochs
    BY <1>2 DEF Deliver, TypeOK
  <2>2. [copy |-> Head(ready), phase |-> "handling"] \in Execution
    BY <2>1 DEF Execution
  <2>3. started' \in [Messages -> Nat]
    <3>1. Head(ready).id \in Messages
      BY <2>1 DEF Copy
    <3>2. started \in [Messages -> Nat]
      BY DEF TypeOK
    <3> QED BY <1>2, <3>1, <3>2 DEF Deliver
  <2>4. /\ execution' \in [Epochs -> Execution \cup {None}]
        /\ \A e \in Epochs : e > epoch' => execution'[e] = None
    <3>1. /\ execution' = [execution EXCEPT ![epoch] =
                             [copy |-> Head(ready), phase |-> "handling"]]
          /\ epoch' = epoch
          /\ execution \in [Epochs -> Execution \cup {None}]
      BY <1>2 DEF Deliver, TypeOK
    <3>2. ASSUME NEW e \in Epochs, e > epoch
          PROVE  execution'[e] = None
      <4>1. e # epoch
        BY <2>1, <3>2 DEF Epochs
      <4>2. execution[e] = None
        BY <3>2 DEF TypeOK
      <4> QED BY <3>1, <4>1, <4>2
    <3> QED BY <2>2, <3>1, <3>2
  <2> QED BY <1>2, <2>1, <2>3, <2>4 DEF Deliver, HeldOnDelivery, TypeOK
<1>3. ASSUME NEW e \in Epochs, HandlerSucceeds(e)
      PROVE  TypeOK'
  <2>1. execution[e] # None /\ GoTo(e, "acking")
    BY <1>3 DEF HandlerSucceeds, IsIn
  <2>2. execution[e].copy.id \in Messages
    BY <2>1, ExecutionType DEF Copy
  <2>3. handled \in [Messages -> Nat]
    BY DEF TypeOK
  <2>4. handled' \in [Messages -> Nat]
    BY <1>3, <2>2, <2>3 DEF HandlerSucceeds
  <2> QED BY <1>3, <2>1, <2>4, GoToType DEF HandlerSucceeds, TypeOK
<1>4. ASSUME NEW e \in Epochs, HandlerFails(e)
      PROVE  TypeOK'
  BY <1>4, GoToType, BoundsAssumption DEF HandlerFails, IsIn, TypeOK
<1>5. ASSUME NEW e \in Epochs, Ack(e)
      PROVE  TypeOK'
  BY <1>5, GoToType, FinishType DEF Ack, IsIn, Settle, ReturnAfterAck, TypeOK
<1>6. ASSUME NEW e \in Epochs, Nack(e)
      PROVE  TypeOK'
  <2> DEFINE copy == [execution[e].copy EXCEPT !.retry = @ + 1]
  <2>1. copy \in Copy
    BY <1>6, ExecutionType DEF Nack, IsIn, Copy
  <2>2. copy.id \in Messages
    BY <2>1 DEF Copy
  <2> HIDE DEF copy
  <2>3. /\ ready' \in {ready, Append(ready, copy)}
        /\ held' \in {held, None}
        /\ dropped' \in {dropped, dropped \cup {copy.id}}
    BY <1>6 DEF Nack, Settle, ReturnAfterRepublish, copy
  <2>4. ready' \in Seq(Copy)
    <3>1. ready \in Seq(Copy) /\ Append(ready, copy) \in Seq(Copy)
      BY <2>1 DEF TypeOK
    <3> QED BY <2>3, <3>1
  <2>5. dropped' \in SUBSET Messages /\ held' \in Copy \cup {None}
    BY <2>2, <2>3 DEF TypeOK
  <2>6. /\ execution' \in [Epochs -> Execution \cup {None}]
        /\ \A f \in Epochs : f > epoch' => execution'[f] = None
    BY <1>6, FinishType DEF Nack
  <2> QED BY <1>6, <2>4, <2>5, <2>6 DEF Nack, TypeOK
<1>7. ASSUME ConnectionLost
      PROVE  TypeOK'
  BY <1>7, RequeueType DEF ConnectionLost, TypeOK, Links, Epochs
<1>8. ASSUME ProcessStops
      PROVE  TypeOK'
  BY <1>8, RequeueType DEF ProcessStops, TypeOK, Links, Epochs
<1>9. CASE StartConsuming \/ Recover \/ ReplaceConnection
  BY <1>9 DEF StartConsuming, Recover, ReplaceConnection, TypeOK, Links
<1> QED BY <1>1, <1>2, <1>3, <1>4, <1>5, <1>6, <1>7, <1>8, <1>9 DEF Next

-----------------------------------------------------------------------------
(* A callback changes its own execution only, which goes on to another     *)
(* phase, acknowledging after success only, or ends.                       *)
LEMMA CallbackStep ==
    ASSUME TypeOK, NEW f \in Epochs,
           HandlerSucceeds(f) \/ HandlerFails(f) \/ Ack(f) \/ Nack(f)
    PROVE  /\ execution[f] # None
           /\ \/ execution' = [execution EXCEPT ![f] = None]
              \/ /\ HandlerSucceeds(f)
                 /\ execution' = [execution EXCEPT ![f] =
                      [copy |-> execution[f].copy, phase |-> "acking"]]
              \/ execution' = [execution EXCEPT ![f] =
                      [copy |-> execution[f].copy, phase |-> "nacking"]]
<1>1. execution[f] # None
  BY DEF HandlerSucceeds, HandlerFails, Ack, Nack, IsIn
<1>2. CASE HandlerSucceeds(f)
  BY <1>1, <1>2, GoToValue DEF HandlerSucceeds
<1>3. CASE HandlerFails(f)
  BY <1>1, <1>3, GoToValue DEF HandlerFails
<1>4. CASE Ack(f)
  BY <1>1, <1>4, GoToValue DEF Ack, ReturnAfterAck, Finish
<1>5. CASE Nack(f)
  BY <1>5, <1>1 DEF Nack, Finish
<1> QED BY <1>1, <1>2, <1>3, <1>4, <1>5

(* An execution changes its phase or ends; only Deliver begins one.        *)
LEMMA ExecutionStep ==
    ASSUME TypeOK, Next, NEW e \in Epochs, execution'[e] # None
    PROVE  \/ /\ Deliver
              /\ e = epoch
              /\ execution'[e] = [copy |-> Head(ready), phase |-> "handling"]
           \/ /\ execution[e] # None
              /\ execution'[e].copy = execution[e].copy
<1>1. CASE Deliver
  BY <1>1 DEF Deliver, TypeOK
<1>2. ASSUME NEW f \in Epochs,
             HandlerSucceeds(f) \/ HandlerFails(f) \/ Ack(f) \/ Nack(f)
      PROVE  execution[e] # None /\ execution'[e].copy = execution[e].copy
  <2>1. CASE f # e
    <3>1. execution'[e] = execution[e]
      BY <1>2, <2>1, CallbackStep DEF TypeOK
    <3> QED BY <3>1
  <2>2. CASE f = e
    <3> DEFINE In(phase) == [copy |-> execution[e].copy, phase |-> phase]
    <3>1. execution[e] # None /\ execution'[e] \in {In("acking"), In("nacking")}
      BY <1>2, <2>2, CallbackStep DEF TypeOK
    <3> QED BY <3>1
  <2> QED BY <2>1, <2>2
<1>3. CASE execution' = execution
  BY <1>3
<1>4. ~ProcessStops
  BY DEF ProcessStops
<1> QED
  BY <1>1, <1>2, <1>3, <1>4
  DEF Next, Publish, StartConsuming, ConnectionLost, Recover,
      ReplaceConnection

(* What is held changes only when it is delivered, settled or put back.    *)
LEMMA HeldStep ==
    ASSUME TypeOK, HoldsWhatRuns, Next, held # None, held' # held
    PROVE  /\ held' = None
           /\ \/ Requeue
              \/ Ack(epoch) /\ execution'[epoch] = None
              \/ /\ Nack(epoch)
                 /\ execution'[epoch] = None
                 /\ dropped' = dropped \cup {held.id}
<1>1. epoch \in Epochs
  BY DEF TypeOK
<1>2. ASSUME NEW e \in Epochs, Ack(e)
      PROVE  e = epoch /\ held' = None /\ execution'[epoch] = None
  BY <1>2 DEF Ack, Settle, ReturnAfterAck, Finish, TypeOK
<1>3. ASSUME NEW e \in Epochs, Nack(e)
      PROVE  /\ e = epoch /\ held' = None /\ execution'[epoch] = None
             /\ dropped' = dropped \cup {execution[e].copy.id}
             /\ execution[e] # None
  BY <1>3 DEF Nack, IsIn, Settle, ReturnAfterRepublish, Finish, TypeOK
<1> QED
  BY <1>1, <1>2, <1>3
  DEF Next, HoldsWhatRuns, Publish, StartConsuming, Deliver, HandlerSucceeds,
      HandlerFails, ConnectionLost, Recover, ReplaceConnection, ProcessStops,
      Requeue

-----------------------------------------------------------------------------
(* One lemma for each of the other conjuncts of the invariant.             *)
LEMMA NextHoldsWhatRuns ==
    ASSUME TypeOK, HoldsWhatRuns, Next
    PROVE  HoldsWhatRuns'
<1> SUFFICES ASSUME execution'[epoch'] # None
             PROVE  held' = execution'[epoch'].copy
  BY DEF HoldsWhatRuns
<1>1. epoch \in Epochs
  BY DEF TypeOK
<1>2. epoch' = epoch
  <2>1. ASSUME ConnectionLost \/ ProcessStops
        PROVE  FALSE
    <3>1. epoch' \in Epochs /\ epoch' > epoch
      BY <2>1, RequeueType DEF ConnectionLost, ProcessStops
    <3> QED BY <2>1, <3>1 DEF ConnectionLost, ProcessStops, TypeOK
  <2> QED BY <2>1
      DEF Next, Publish, StartConsuming, Deliver, HandlerSucceeds,
          HandlerFails, Ack, Nack, Recover, ReplaceConnection
<1>3. CASE Deliver
  BY <1>1, <1>2, <1>3 DEF Deliver, HeldOnDelivery, TypeOK
<1>4. CASE ~Deliver
  <2>1. /\ execution[epoch] # None
        /\ execution'[epoch].copy = execution[epoch].copy
    BY <1>1, <1>2, <1>4, ExecutionStep
  <2>2. held = execution[epoch].copy /\ held # None
    BY <1>1, <2>1, ExecutionType, NoneAssumption DEF HoldsWhatRuns
  <2>3. held' = held
    <3> SUFFICES ASSUME held' # held
                 PROVE  FALSE
      OBVIOUS
    <3>1. CASE Requeue
      BY <1>1, <1>2, <3>1 DEF Requeue, Epochs
    <3>2. CASE execution'[epoch] = None
      BY <1>2, <3>2
    <3> QED BY <2>2, <3>1, <3>2, HeldStep
  <2> QED BY <1>2, <2>1, <2>2, <2>3
<1> QED BY <1>3, <1>4

(* Counters of executions never go down.                                   *)
LEMMA CountersGrow ==
    ASSUME TypeOK, Next, NEW m \in Messages
    PROVE  started[m] <= started'[m] /\ handled[m] <= handled'[m]
<1>1. started[m] \in Nat /\ handled[m] \in Nat
  BY DEF TypeOK
<1>2. CASE Deliver
  BY <1>1, <1>2 DEF Deliver, TypeOK
<1>3. ASSUME NEW e \in Epochs, HandlerSucceeds(e)
      PROVE  started[m] <= started'[m] /\ handled[m] <= handled'[m]
  BY <1>1, <1>3 DEF HandlerSucceeds, TypeOK
<1>4. CASE started' = started /\ handled' = handled
  BY <1>1, <1>4
<1> QED
  BY <1>2, <1>3, <1>4
  DEF Next, Publish, StartConsuming, HandlerFails, Ack, Nack, ConnectionLost,
      Recover, ReplaceConnection, ProcessStops

LEMMA NextAckedIsHandled ==
    ASSUME TypeOK, TypeOK', AckedIsHandled, Next
    PROVE  AckedIsHandled'
<1> SUFFICES ASSUME NEW e \in Epochs, IsIn(e, "acking")'
             PROVE  handled'[execution'[e].copy.id] > 0
  BY DEF AckedIsHandled
<1>1. /\ execution'[e] # None /\ execution'[e].phase = "acking"
      /\ execution'[e].copy.id \in Messages
  BY DEF IsIn, TypeOK, Execution, Copy
<1>2. CASE HandlerSucceeds(e)
  BY <1>1, <1>2, GoToValue DEF HandlerSucceeds, IsIn, TypeOK
<1>3. CASE ~HandlerSucceeds(e)
  <2>1. IsIn(e, "acking")
    <3>1. ~Deliver \/ e # epoch
      BY <1>1 DEF Deliver, TypeOK
    <3>2. ASSUME NEW f \in Epochs,
                 HandlerSucceeds(f) \/ HandlerFails(f) \/ Ack(f) \/ Nack(f)
          PROVE  IsIn(e, "acking")
      <4>1. f # e => execution'[e] = execution[e]
        BY <3>2, CallbackStep DEF TypeOK
      <4>2. f = e => execution'[e] = None \/ execution'[e].phase = "nacking"
        BY <1>3, <3>2, CallbackStep DEF TypeOK
      <4> QED BY <1>1, <4>1, <4>2 DEF IsIn
    <3>3. CASE execution' = execution \/ Deliver
      BY <1>1, <3>1, <3>3 DEF Deliver, IsIn, TypeOK
    <3> QED
      BY <1>1, <3>2, <3>3
      DEF Next, Publish, StartConsuming, ConnectionLost, Recover,
          ReplaceConnection, ProcessStops
  <2>2. execution'[e].copy = execution[e].copy
    BY <1>1, ExecutionStep DEF Deliver
  <2>3. handled[execution[e].copy.id] > 0
    BY <2>1 DEF AckedIsHandled
  <2>4. handled[execution[e].copy.id] \in Nat /\ handled'[execution[e].copy.id] \in Nat
    BY <1>1, <2>2 DEF TypeOK
  <2> QED BY <1>1, <2>2, <2>3, <2>4, CountersGrow
<1> QED BY <1>2, <1>3

(* What is in the queue after a step was there, was held, has just been    *)
(* published, or is the next retry of what an execution worked on.         *)
LEMMA ReadyStep ==
    ASSUME TypeOK, Next, NEW i \in 1 .. Len(ready')
    PROVE  \/ \E j \in 1 .. Len(ready) : ready'[i] = ready[j]
           \/ held # None /\ ready'[i] = held
           \/ \E m \in Messages : Publish(m) /\ ready'[i] = NewCopy(m)
           \/ \E e \in Epochs :
                 /\ execution[e] # None
                 /\ ready'[i] = [execution[e].copy EXCEPT !.retry = @ + 1]
                 /\ ShouldRetry(ready'[i].retry)
<1>1. ready \in Seq(Copy) /\ held \in Copy \cup {None}
  BY DEF TypeOK
<1>2. ASSUME NEW m \in Messages, Publish(m)
      PROVE  \/ \E j \in 1 .. Len(ready) : ready'[i] = ready[j]
             \/ ready'[i] = NewCopy(m)
  <2>1. NewCopy(m) \in Copy
    BY DEF NewCopy, Copy
  <2>2. ready' = Append(ready, NewCopy(m))
    BY <1>2 DEF Publish
  <2> QED BY <1>1, <2>1, <2>2
<1>3. CASE Deliver
  BY <1>1, <1>3 DEF Deliver
<1>4. ASSUME NEW e \in Epochs, Nack(e), ready' # ready
      PROVE  \/ \E j \in 1 .. Len(ready) : ready'[i] = ready[j]
             \/ /\ execution[e] # None
                /\ ready'[i] = [execution[e].copy EXCEPT !.retry = @ + 1]
                /\ ShouldRetry(ready'[i].retry)
  <2> DEFINE copy == [execution[e].copy EXCEPT !.retry = @ + 1]
  <2>1. /\ ready' = Append(ready, copy) /\ execution[e] # None
        /\ ShouldRetry(copy.retry)
    BY <1>4 DEF Nack, IsIn
  <2>2. copy \in Copy
    BY <2>1, ExecutionType DEF Copy
  <2> HIDE DEF copy
  <2>3. \/ \E j \in 1 .. Len(ready) : ready'[i] = ready[j]
        \/ ready'[i] = copy
    BY <1>1, <2>1, <2>2
  <2> QED BY <2>1, <2>3 DEF copy
<1>5. CASE Requeue
  <2>1. CASE held = None
    BY <1>5, <2>1 DEF Requeue
  <2>2. CASE held # None
    <3>1. /\ ready' = <<held>> \o ready /\ held \in Copy
          /\ Len(ready') = Len(ready) + 1
      BY <1>1, <1>5, <2>2 DEF Requeue
    <3>2. i = 1 => ready'[i] = held
      BY <1>1, <3>1
    <3>3. i > 1 => i - 1 \in 1 .. Len(ready) /\ ready'[i] = ready[i - 1]
      BY <1>1, <3>1
    <3> QED BY <1>1, <2>2, <3>1, <3>2, <3>3
  <2> QED BY <2>1, <2>2
<1>6. CASE ready' = ready
  BY <1>6
<1> QED
  BY <1>2, <1>3, <1>4, <1>5, <1>6
  DEF Next, StartConsuming, HandlerSucceeds, HandlerFails, Ack,
      ConnectionLost, Recover, ReplaceConnection, ProcessStops

(* Conversely, what is in the queue is there or held after a step.         *)
LEMMA ReadyStays ==
    ASSUME TypeOK, Next, NEW m, NEW j \in 1 .. Len(ready), ready[j].id = m
    PROVE  InQueue(m)'
<1>1. ready \in Seq(Copy) /\ held \in Copy \cup {None} /\ ready[j] \in Copy
  BY DEF TypeOK
<1>2. CASE Deliver
  <2>1. CASE j = 1
    <3>1. held' = ready[j] /\ held' # None
      BY <1>1, <1>2, <2>1, NoneAssumption DEF Deliver, HeldOnDelivery
    <3> QED BY <3>1 DEF InQueue
  <2>2. CASE j > 1
    <3>1. j - 1 \in 1 .. Len(ready') /\ ready'[j - 1] = ready[j]
      BY <1>1, <1>2, <2>2 DEF Deliver
    <3> QED BY <3>1 DEF InQueue
  <2> QED BY <2>1, <2>2
<1>3. ASSUME NEW copy \in Copy, ready' = Append(ready, copy)
      PROVE  InQueue(m)'
  <2>1. j \in 1 .. Len(ready') /\ ready'[j] = ready[j]
    BY <1>1, <1>3
  <2> QED BY <2>1 DEF InQueue
<1>4. CASE Requeue
  <2>1. \E i \in 1 .. Len(ready') : ready'[i] = ready[j]
    <3>1. CASE held = None
      BY <1>4, <3>1 DEF Requeue
    <3>2. CASE held # None
      <4>1. ready' = <<held>> \o ready /\ Len(<<held>>) = 1
        BY <1>4, <3>2 DEF Requeue
      <4>2. j + 1 \in 1 .. Len(ready') /\ ready'[j + 1] = ready[j]
        BY <1>1, <4>1
      <4> QED BY <4>2
    <3> QED BY <3>1, <3>2
  <2> QED BY <2>1 DEF InQueue
<1>5. CASE ready' = ready
  BY <1>5 DEF InQueue
<1>6. ASSUME NEW n \in Messages, Publish(n)
      PROVE  InQueue(m)'
  <2>1. NewCopy(n) \in Copy
    BY DEF NewCopy, Copy
  <2> QED BY <1>3, <1>6, <2>1 DEF Publish
<1>7. ASSUME NEW e \in Epochs, Nack(e), ready' # ready
      PROVE  InQueue(m)'
  <2> DEFINE copy == [execution[e].copy EXCEPT !.retry = @ + 1]
  <2>1. ready' = Append(ready, copy) /\ execution[e] # None
    BY <1>7 DEF Nack, IsIn
  <2>2. copy \in Copy
    <3>1. execution[e].copy \in Copy
      BY <2>1, ExecutionType
    <3> QED BY <3>1 DEF Copy
  <2> QED BY <1>3, <2>1, <2>2
<1> QED
  BY <1>2, <1>4, <1>5, <1>6, <1>7
  DEF Next, StartConsuming, HandlerSucceeds, HandlerFails, Ack,
      ConnectionLost, Recover, ReplaceConnection, ProcessStops

LEMMA NextRetriesWereStarted ==
    ASSUME TypeOK, TypeOK', HoldsWhatRuns, RetriesWereStarted, Next
    PROVE  RetriesWereStarted'
<1>1. ASSUME NEW c \in Copy, c.retry <= started[c.id]
      PROVE  c.retry <= started'[c.id]
  <2>1. c.id \in Messages /\ c.retry \in Nat
    BY DEF Copy
  <2>2. started[c.id] \in Nat /\ started'[c.id] \in Nat
    BY <2>1 DEF TypeOK
  <2> QED BY <1>1, <2>1, <2>2, CountersGrow
<1>2. ASSUME NEW e \in Epochs, execution[e] # None
      PROVE  /\ execution[e].copy \in Copy
             /\ execution[e].copy.retry + 1 <= started[execution[e].copy.id]
             /\ execution[e].copy.retry < started'[execution[e].copy.id]
  <2>1. execution[e].copy \in Copy
    BY <1>2, ExecutionType
  <2>2. /\ execution[e].copy.id \in Messages
        /\ execution[e].copy.retry \in Nat
        /\ started[execution[e].copy.id] \in Nat
        /\ started'[execution[e].copy.id] \in Nat
    BY <2>1 DEF Copy, TypeOK
  <2>3. execution[e].copy.retry < started[execution[e].copy.id]
    BY <1>2 DEF RetriesWereStarted
  <2> QED BY <2>1, <2>2, <2>3, CountersGrow
<1>3. ASSUME NEW i \in 1 .. Len(ready')
      PROVE  ready'[i].retry <= started'[ready'[i].id]
  <2>1. ready'[i] \in Copy
    BY DEF TypeOK
  <2>2. CASE \/ \E j \in 1 .. Len(ready) : ready'[i] = ready[j]
             \/ held # None /\ ready'[i] = held
    BY <1>1, <2>1, <2>2 DEF RetriesWereStarted
  <2>3. ASSUME NEW m \in Messages, ready'[i] = NewCopy(m)
        PROVE  ready'[i].retry <= started'[ready'[i].id]
    <3>1. ready'[i].id \in Messages /\ ready'[i].retry = 0
      BY <2>1, <2>3 DEF Copy, NewCopy
    <3>2. started' \in [Messages -> Nat]
      BY DEF TypeOK
    <3> QED BY <3>1, <3>2
  <2>4. ASSUME NEW e \in Epochs, execution[e] # None,
               ready'[i] = [execution[e].copy EXCEPT !.retry = @ + 1]
        PROVE  ready'[i].retry <= started'[ready'[i].id]
    <3>1. /\ ready'[i].id = execution[e].copy.id
          /\ ready'[i].retry = execution[e].copy.retry + 1
      BY <1>2, <2>4 DEF Copy
    <3> QED BY <1>1, <1>2, <2>1, <2>4, <3>1
  <2> QED BY <2>2, <2>3, <2>4, ReadyStep
<1>4. CASE Deliver
  <2> DEFINE c == Head(ready)
  <2>1. /\ c \in Copy /\ c = ready[1] /\ 1 \in 1 .. Len(ready)
    BY <1>4 DEF Deliver, TypeOK
  <2>2. c.retry <= started[c.id] /\ c.retry \in Nat /\ c.id \in Messages
    BY <2>1 DEF RetriesWereStarted, Copy
  <2>3. started[c.id] \in Nat /\ started'[c.id] = started[c.id] + 1
    BY <1>4, <2>2 DEF Deliver, TypeOK
  <2>4. held' = c
    BY <1>4 DEF Deliver, HeldOnDelivery
  <2>5. c.retry < started'[c.id]
    BY <2>2, <2>3
  <2>6. ASSUME NEW e \in Epochs, execution'[e] # None
        PROVE  execution'[e].copy.retry < started'[execution'[e].copy.id]
    <3>1. CASE e = epoch
      BY <1>4, <2>5, <2>6, <3>1 DEF Deliver, TypeOK
    <3>2. CASE e # epoch
      <4>1. execution'[e] = execution[e]
        BY <1>4, <3>2 DEF Deliver, TypeOK
      <4> QED BY <1>2, <2>6, <4>1
    <3> QED BY <3>1, <3>2
  <2>7. held'.retry <= started'[held'.id]
    <3> HIDE DEF c
    <3> QED BY <2>2, <2>3, <2>4
  <2> QED BY <1>3, <2>6, <2>7 DEF RetriesWereStarted
<1>5. CASE ~Deliver
  <2>1. ASSUME held' # None
        PROVE  held'.retry <= started'[held'.id]
    <3>1. held' = held
      <4>1. CASE held = None
        BY <1>5, <2>1, <4>1
        DEF Next, Publish, StartConsuming, HandlerSucceeds, HandlerFails, Ack,
            Nack, Settle, ReturnAfterRepublish, ConnectionLost, Requeue,
            Recover, ReplaceConnection, ProcessStops
      <4>2. CASE held # None
        BY <2>1, <4>2, HeldStep
      <4> QED BY <4>1, <4>2
    <3> QED BY <1>1, <2>1, <3>1 DEF RetriesWereStarted, TypeOK
  <2>2. ASSUME NEW e \in Epochs, execution'[e] # None
        PROVE  execution'[e].copy.retry < started'[execution'[e].copy.id]
    <3>1. execution[e] # None /\ execution'[e].copy = execution[e].copy
      BY <1>5, <2>2, ExecutionStep
    <3> QED BY <1>2, <3>1
  <2> QED BY <1>3, <2>1, <2>2 DEF RetriesWereStarted
<1> QED BY <1>4, <1>5

LEMMA NextDroppedOnlyWhenExhausted ==
    ASSUME TypeOK, TypeOK', HoldsWhatRuns, RetriesWereStarted,
           DroppedOnlyWhenExhausted, Next
    PROVE  DroppedOnlyWhenExhausted'
<1> SUFFICES ASSUME NEW m \in dropped'
             PROVE  started'[m] > MaxRetryCount
  BY DEF DroppedOnlyWhenExhausted
<1>1. m \in Messages /\ started[m] \in Nat /\ started'[m] \in Nat
  BY DEF TypeOK
<1>2. CASE m \in dropped
  BY <1>1, <1>2, CountersGrow, MaxRetryAssumption DEF DroppedOnlyWhenExhausted
<1>3. CASE m \notin dropped
  <2>1. PICK e \in Epochs : Nack(e) /\ dropped' # dropped
    BY <1>3
    DEF Next, Publish, StartConsuming, Deliver, HandlerSucceeds, HandlerFails,
        Ack, ConnectionLost, Recover, ReplaceConnection, ProcessStops
  <2>2. execution[e] # None /\ execution[e].copy \in Copy
    BY <2>1, ExecutionType DEF Nack, IsIn
  <2>3. /\ m = execution[e].copy.id
        /\ ~(execution[e].copy.retry + 1 <= MaxRetryCount)
    BY <1>3, <2>1, <2>2 DEF Nack, ShouldRetry, Copy
  <2>4. execution[e].copy.retry < started[m] /\ execution[e].copy.retry \in Nat
    BY <2>2, <2>3 DEF RetriesWereStarted, Copy
  <2> QED BY <1>1, <2>3, <2>4, CountersGrow, MaxRetryAssumption
<1> QED BY <1>2, <1>3

(* The copy for a retry is only published while its count is allowed.      *)
LEMMA NextRetriesAreLimited ==
    ASSUME TypeOK, HoldsWhatRuns, RetriesAreLimited, Next
    PROVE  RetriesAreLimited'
<1>1. ASSUME NEW i \in 1 .. Len(ready')
      PROVE  ready'[i].retry <= MaxRetryCount
  <2>1. ASSUME NEW m \in Messages, ready'[i] = NewCopy(m)
        PROVE  ready'[i].retry <= MaxRetryCount
    BY <2>1, MaxRetryAssumption DEF NewCopy
  <2>2. ShouldRetry(ready'[i].retry) => ready'[i].retry <= MaxRetryCount
    BY DEF ShouldRetry
  <2> QED BY <2>1, <2>2, ReadyStep DEF RetriesAreLimited
<1>2. ASSUME held' # None
      PROVE  held'.retry <= MaxRetryCount
  <2>1. CASE Deliver
    <3>1. held' = ready[1] /\ 1 \in 1 .. Len(ready)
      BY <2>1 DEF Deliver, HeldOnDelivery, TypeOK
    <3> QED BY <3>1 DEF RetriesAreLimited
  <2>2. CASE ~Deliver
    <3>1. CASE held = None
      BY <1>2, <2>2, <3>1
      DEF Next, Publish, StartConsuming, HandlerSucceeds, HandlerFails, Ack,
          Nack, Settle, ReturnAfterRepublish, ConnectionLost, Requeue,
          Recover, ReplaceConnection, ProcessStops
    <3>2. CASE held # None
      <4>1. held' = held
        BY <1>2, <3>2, HeldStep
      <4> QED BY <3>2, <4>1 DEF RetriesAreLimited
    <3> QED BY <3>1, <3>2
  <2> QED BY <2>1, <2>2
<1> QED BY <1>1, <1>2 DEF RetriesAreLimited

LEMMA NextNoLoss ==
    ASSUME TypeOK, TypeOK', HoldsWhatRuns, AckedIsHandled, NoLoss, Next
    PROVE  NoLoss'
<1> SUFFICES ASSUME NEW m \in Published'
             PROVE  handled'[m] > 0 \/ m \in dropped' \/ InQueue(m)'
  BY DEF NoLoss
<1>1. m \in Messages
  <2>1. PICK i \in 1 .. Len(published') : m = published'[i]
    BY DEF Published
  <2>2. published' \in Seq(Messages)
    BY DEF TypeOK
  <2> QED BY <2>1, <2>2
<1>2. handled[m] \in Nat /\ handled'[m] \in Nat /\ handled[m] <= handled'[m]
  BY <1>1, CountersGrow DEF TypeOK
<1>3. dropped \subseteq dropped'
  <2>1. ASSUME NEW e \in Epochs, Nack(e)
        PROVE  dropped \subseteq dropped'
    BY <2>1 DEF Nack
  <2> QED BY <2>1
      DEF Next, Publish, StartConsuming, Deliver, HandlerSucceeds,
          HandlerFails, Ack, ConnectionLost, Recover, ReplaceConnection,
          ProcessStops
<1>4. CASE m \notin Published
  <2>1. PICK n \in Messages : Publish(n)
    BY <1>4
    DEF Next, Published, StartConsuming, Deliver, HandlerSucceeds,
        HandlerFails, Ack, Nack, ConnectionLost, Recover, ReplaceConnection,
        ProcessStops
  <2>2. m = n
    <3>1. PICK i \in 1 .. Len(published') : m = published'[i]
      BY DEF Published
    <3>2. published' = Append(published, n) /\ published \in Seq(Messages)
      BY <2>1 DEF Publish, TypeOK
    <3>3. i \notin 1 .. Len(published)
      BY <1>4, <3>1, <3>2 DEF Published
    <3> QED BY <3>1, <3>2, <3>3
  <2>3. NewCopy(n) \in Copy /\ NewCopy(n).id = n
    BY DEF NewCopy, Copy
  <2>4. Len(ready') \in 1 .. Len(ready') /\ ready'[Len(ready')] = NewCopy(n)
    BY <2>1, <2>3 DEF Publish, TypeOK
  <2> QED BY <2>2, <2>3, <2>4 DEF InQueue
<1>5. CASE m \in Published /\ (handled[m] > 0 \/ m \in dropped)
  BY <1>2, <1>3, <1>5
<1>6. ASSUME NEW j \in 1 .. Len(ready), ready[j].id = m
      PROVE  InQueue(m)'
  BY <1>6, ReadyStays
<1>7. ASSUME held # None, held.id = m
      PROVE  handled'[m] > 0 \/ m \in dropped' \/ InQueue(m)'
  <2>1. CASE held' = held
    BY <1>7, <2>1 DEF InQueue
  <2>2. CASE Requeue
    <3>1. 1 \in 1 .. Len(ready') /\ ready'[1] = held
      BY <1>7, <2>2 DEF Requeue, TypeOK
    <3> QED BY <1>7, <3>1 DEF InQueue
  <2>3. CASE Ack(epoch) /\ held' # held
    <3>1. IsIn(epoch, "acking") /\ epoch \in Epochs
      BY <2>3 DEF Ack, TypeOK
    <3>2. held = execution[epoch].copy
      BY <3>1 DEF IsIn, HoldsWhatRuns
    <3>3. handled[m] > 0
      BY <1>7, <3>1, <3>2 DEF AckedIsHandled
    <3> QED BY <1>2, <3>3
  <2>4. CASE dropped' = dropped \cup {held.id}
    BY <1>7, <2>4
  <2> QED BY <1>7, <2>1, <2>2, <2>3, <2>4, HeldStep
<1> QED BY <1>4, <1>5, <1>6, <1>7 DEF NoLoss, InQueue

-----------------------------------------------------------------------------
LEMMA InitIInv == Init => IInv
<1> SUFFICES ASSUME Init PROVE IInv
  OBVIOUS
<1>1. TypeOK
  BY BoundsAssumption DEF Init, TypeOK, Links, Epochs
<1>2. HoldsWhatRuns /\ AckedIsHandled /\ RetriesWereStarted
  BY BoundsAssumption
  DEF Init, HoldsWhatRuns, AckedIsHandled, RetriesWereStarted, IsIn, Epochs
<1>3. NoLoss /\ DroppedOnlyWhenExhausted /\ RetriesAreLimited
  BY DEF Init, NoLoss, Published, DroppedOnlyWhenExhausted, RetriesAreLimited
<1> QED BY <1>1, <1>2, <1>3 DEF IInv

LEMMA NextIInv == IInv /\ [Next]_vars => IInv'
<1> SUFFICES ASSUME IInv, [Next]_vars PROVE IInv'
  OBVIOUS
<1>1. CASE Next
  BY <1>1, NextType, NextHoldsWhatRuns, NextAckedIsHandled,
     NextRetriesWereStarted, NextNoLoss, NextDroppedOnlyWhenExhausted,
     NextRetriesAreLimited
  DEF IInv
<1>2. CASE UNCHANGED vars
  BY <1>2
  DEF vars, IInv, TypeOK, HoldsWhatRuns, AckedIsHandled, IsIn,
      RetriesWereStarted, NoLoss, Published, InQueue, DroppedOnlyWhenExhausted,
      RetriesAreLimited
<1> QED BY <1>1, <1>2

(* The inductive invariant holds in every state.                           *)
THEOREM Invariance == Spec => []IInv
BY InitIInv, NextIInv, PTL DEF Spec

(* Every variable keeps its type.                                          *)
THEOREM TypeCorrect == Spec => []TypeOK
BY Invariance, PTL DEF IInv

(* At least once, up to exhausted retries: no published message leaves the *)
(* broker unhandled unless the broker was told to discard it.              *)
THEOREM NothingIsLost == Spec => []NoLoss
BY Invariance, PTL DEF IInv

(* A message is discarded only after one execution more than the retries,  *)
(* and no copy of it is retried more often than that.                      *)
THEOREM RetriesAreExhausted == Spec => []RetriesAreExact
<1>1. IInv => RetriesAreExact
  BY DEF IInv, RetriesAreExact
<1> QED BY <1>1, Invariance, PTL
-----------------------------------------------------------------------------
(* A consumer whose channel is gone has nothing on the next one yet.       *)
ClosedIsIdle ==
    link # "open" => held = None /\ execution[epoch] = None

(* A callback of the present channel that is about to arrange a retry had  *)
(* a handler that failed: only on a channel that is gone does a callback   *)
(* get there from BasicAck.                                                *)
FailuresAreCounted == IsIn(epoch, "nacking") => failures > 0

WInv ==
    /\ ClosedIsIdle
    /\ FailuresAreCounted
    /\ WedgedOnlyByRetry

(* A new channel begins with nothing held and nothing executed on it.      *)
LEMMA NewEpochIsIdle ==
    ASSUME TypeOK, Next, epoch' # epoch
    PROVE  held' = None /\ execution'[epoch'] = None
<1>1. CASE ConnectionLost
  <2>1. held' = None /\ execution' = execution
    BY <1>1 DEF ConnectionLost, Requeue
  <2>2. epoch' \in Epochs /\ epoch' > epoch
    BY <1>1, RequeueType DEF ConnectionLost
  <2> QED BY <2>1, <2>2 DEF TypeOK
<1>2. CASE ProcessStops
  <2>1. held' = None /\ execution' = [e \in Epochs |-> None]
    BY <1>2 DEF ProcessStops, Requeue
  <2>2. epoch' \in Epochs
    BY <1>2, RequeueType DEF ProcessStops
  <2> QED BY <2>1, <2>2
<1> QED
  BY <1>1, <1>2
  DEF Next, Publish, StartConsuming, Deliver, HandlerSucceeds, HandlerFails,
      Ack, Nack, Recover, ReplaceConnection

(* A callback of another channel leaves the execution of this one alone,   *)
(* one of this channel works on the message that is held.                  *)
LEMMA OtherCallback ==
    ASSUME TypeOK, NEW f \in Epochs, f # epoch,
           HandlerSucceeds(f) \/ HandlerFails(f) \/ Ack(f) \/ Nack(f)
    PROVE  execution'[epoch] = execution[epoch]
BY CallbackStep DEF TypeOK

LEMMA NextClosedIsIdle ==
    ASSUME TypeOK, ClosedIsIdle, Next
    PROVE  ClosedIsIdle'
<1> SUFFICES ASSUME link' # "open"
             PROVE  held' = None /\ execution'[epoch'] = None
  BY DEF ClosedIsIdle
<1>1. CASE epoch' # epoch
  BY <1>1, NewEpochIsIdle
<1>2. ASSUME epoch' = epoch, link # "open",
             NEW f \in Epochs,
             HandlerSucceeds(f) \/ HandlerFails(f) \/ Ack(f) \/ Nack(f)
      PROVE  held' = None /\ execution'[epoch'] = None
  <2>1. held = None /\ execution[epoch] = None /\ execution[f] # None
    BY <1>2, CallbackStep DEF ClosedIsIdle
  <2>2. held' = held
    BY <1>2 DEF HandlerSucceeds, HandlerFails, Ack, Nack
  <2> QED BY <1>2, <2>1, <2>2, OtherCallback
<1>3. ASSUME epoch' = epoch, link # "open",
             UNCHANGED <<held, execution>>
      PROVE  held' = None /\ execution'[epoch'] = None
  BY <1>3 DEF ClosedIsIdle
<1>4. epoch' = epoch => link # "open"
  <2> SUFFICES ASSUME epoch' = epoch, link = "open" PROVE FALSE
    OBVIOUS
  <2>1. ~ConnectionLost /\ ~ProcessStops
    BY DEF ConnectionLost, ProcessStops, Requeue, TypeOK, Epochs
  <2> QED BY <2>1
      DEF Next, Publish, StartConsuming, Deliver, HandlerSucceeds,
          HandlerFails, Ack, Nack, Recover, ReplaceConnection
<1>5. ASSUME epoch' = epoch, link # "open"
      PROVE  ~Deliver /\ ~ConnectionLost /\ ~ProcessStops
  BY <1>5 DEF Deliver, ConnectionLost, ProcessStops, Requeue, TypeOK, Epochs
<1>6. CASE (\E m \in Messages : Publish(m)) \/ StartConsuming \/ Recover
             \/ ReplaceConnection
  <2>1. UNCHANGED <<held, execution>> \/ link' = "open"
    BY <1>6 DEF Publish, StartConsuming, Recover, ReplaceConnection
  <2> QED BY <1>1, <1>3, <1>4, <2>1
<1> QED BY <1>1, <1>2, <1>4, <1>5, <1>6 DEF Next

LEMMA NextFailuresAreCounted ==
    ASSUME TypeOK, ClosedIsIdle, FailuresAreCounted, Next
    PROVE  FailuresAreCounted'
<1> SUFFICES ASSUME execution'[epoch'] # None,
                    execution'[epoch'].phase = "nacking"
             PROVE  failures' > 0
  BY DEF FailuresAreCounted, IsIn
<1>1. epoch' = epoch /\ epoch \in Epochs
  BY NewEpochIsIdle DEF TypeOK
<1>2. ASSUME NEW f \in Epochs,
             HandlerSucceeds(f) \/ HandlerFails(f) \/ Ack(f) \/ Nack(f)
      PROVE  failures' > 0
  <2>1. CASE f # epoch
    <3>1. IsIn(epoch, "nacking")
      BY <1>1, <1>2, <2>1, OtherCallback DEF IsIn
    <3>2. failures' = failures \/ failures' = failures + 1
      BY <1>2 DEF HandlerSucceeds, HandlerFails, Ack, Nack
    <3> QED BY <3>1, <3>2 DEF FailuresAreCounted, TypeOK
  <2>2. CASE f = epoch
    <3>1. CASE HandlerFails(f)
      BY <3>1 DEF HandlerFails, TypeOK
    <3>2. CASE HandlerSucceeds(f)
      <4>1. execution[f] # None
        BY <3>2 DEF HandlerSucceeds, IsIn
      <4>2. execution' = [execution EXCEPT ![f] =
                            [copy |-> execution[f].copy, phase |-> "acking"]]
        BY <3>2, <4>1, GoToValue DEF HandlerSucceeds
      <4> QED BY <1>1, <2>2, <4>2 DEF TypeOK
    <3>3. CASE Ack(f)
      <4>1. link = "open"
        BY <1>2, <2>2, CallbackStep DEF ClosedIsIdle
      <4> QED BY <1>1, <2>2, <3>3, <4>1 DEF Ack, ReturnAfterAck, Finish, TypeOK
    <3>4. CASE Nack(f)
      BY <1>1, <2>2, <3>4 DEF Nack, Finish, TypeOK
    <3> QED BY <1>2, <3>1, <3>2, <3>3, <3>4
  <2> QED BY <2>1, <2>2
<1>3. ~Deliver
  BY <1>1 DEF Deliver, TypeOK
<1>4. CASE UNCHANGED <<execution, failures>>
  BY <1>1, <1>4 DEF FailuresAreCounted, IsIn
<1> QED
  BY <1>1, <1>2, <1>3, <1>4
  DEF Next, Publish, StartConsuming, ConnectionLost, Recover,
      ReplaceConnection, ProcessStops

(* While nothing is delivered and no channel is lost, what is in the queue *)
(* stays in its place.                                                     *)
LEMMA PlacesStay ==
    ASSUME TypeOK, Next, ~Deliver, epoch' = epoch, NEW i \in 1 .. Len(ready)
    PROVE  i \in 1 .. Len(ready') /\ ready'[i] = ready[i]
<1>1. ready \in Seq(Copy)
  BY DEF TypeOK
<1>2. ASSUME NEW copy \in Copy, ready' = Append(ready, copy)
      PROVE  i \in 1 .. Len(ready') /\ ready'[i] = ready[i]
  BY <1>1, <1>2
<1>3. ASSUME NEW m \in Messages, Publish(m)
      PROVE  i \in 1 .. Len(ready') /\ ready'[i] = ready[i]
  <2>1. NewCopy(m) \in Copy
    BY DEF NewCopy, Copy
  <2> QED BY <1>2, <1>3, <2>1 DEF Publish
<1>4. ASSUME NEW e \in Epochs, Nack(e), ready' # ready
      PROVE  i \in 1 .. Len(ready') /\ ready'[i] = ready[i]
  <2> DEFINE copy == [execution[e].copy EXCEPT !.retry = @ + 1]
  <2>1. ready' = Append(ready, copy) /\ execution[e] # None
    BY <1>4 DEF Nack, IsIn
  <2>2. execution[e].copy \in Copy
    BY <2>1, ExecutionType
  <2>3. copy \in Copy
    BY <2>2 DEF Copy
  <2> QED BY <1>2, <2>1, <2>3
<1>5. CASE ready' = ready
  BY <1>5
<1>6. ~ConnectionLost /\ ~ProcessStops
  BY DEF ConnectionLost, ProcessStops, Requeue, TypeOK, Epochs
<1> QED
  BY <1>3, <1>4, <1>5, <1>6
  DEF Next, StartConsuming, HandlerSucceeds, HandlerFails, Ack, Recover,
      ReplaceConnection

LEMMA NextWedgedOnlyByRetry ==
    ASSUME IInv, WInv, Next
    PROVE  WedgedOnlyByRetry'
<1> DEFINE Retried(copy, queue) ==
      \E i \in 1 .. Len(queue) :
          queue[i] = [id |-> copy.id, retry |-> copy.retry + 1]
<1> SUFFICES ASSUME link' = "open", held' # None, execution'[epoch'] = None
             PROVE  /\ failures' > 0
                    /\ held'.retry < MaxRetryCount
                    /\ Retried(held', ready')
  BY DEF WedgedOnlyByRetry
<1> USE DEF IInv, WInv
<1>1. TypeOK /\ epoch' = epoch /\ epoch \in Epochs
  BY NewEpochIsIdle DEF TypeOK
<1>2. ~Deliver
  <2> SUFFICES ASSUME Deliver PROVE FALSE
    OBVIOUS
  <2>1. Head(ready) \in Copy
    BY <1>1 DEF Deliver, TypeOK
  <2>2. execution'[epoch] = [copy |-> Head(ready), phase |-> "handling"]
    BY <1>1 DEF Deliver, TypeOK
  <2>3. execution'[epoch] \in Execution
    BY <2>1, <2>2 DEF Execution
  <2> QED BY <1>1, <2>3, NoneAssumption
<1>3. held' = held /\ held \in Copy
  <2>1. held # None => held' = held
    BY <1>1, HeldStep
  <2>2. held # None
    BY <1>2
    DEF Next, Publish, StartConsuming, HandlerSucceeds, HandlerFails, Ack,
        Nack, Settle, ReturnAfterRepublish, ConnectionLost, Recover,
        ReplaceConnection, ProcessStops, Requeue
  <2> QED BY <1>1, <2>1, <2>2 DEF TypeOK
<1>4. link = "open"
  BY <1>3, NoneAssumption DEF ClosedIsIdle
<1>5. CASE execution[epoch] = None
  <2>1. /\ failures > 0 /\ held.retry < MaxRetryCount
        /\ Retried(held, ready)
    BY <1>3, <1>4, <1>5, NoneAssumption DEF WedgedOnlyByRetry
  <2>2. Retried(held, ready')
    BY <1>1, <1>2, <2>1, PlacesStay
  <2>3. failures' = failures \/ failures' = failures + 1
    BY DEF Next, Publish, StartConsuming, Deliver, HandlerSucceeds,
           HandlerFails, Ack, Nack, ConnectionLost, Recover,
           ReplaceConnection, ProcessStops
  <2>4. failures \in Nat
    BY <1>1 DEF TypeOK
  <2> QED BY <1>3, <2>1, <2>2, <2>3, <2>4
<1>6. CASE execution[epoch] # None
  <2>1. Nack(epoch)
    <3>1. ASSUME NEW f \in Epochs,
                 HandlerSucceeds(f) \/ HandlerFails(f) \/ Ack(f) \/ Nack(f)
          PROVE  f = epoch
      BY <1>1, <1>6, <3>1, OtherCallback
    <3>2. ~HandlerSucceeds(epoch) /\ ~HandlerFails(epoch)
      <4>1. ASSUME NEW phase \in {"handling", "acking", "nacking"},
                   GoTo(epoch, phase)
            PROVE  FALSE
        <5>1. execution'[epoch] \in Execution
          BY <1>1, <1>6, <4>1, GoToValue, ExecutionType DEF TypeOK, Execution
        <5> QED BY <1>1, <5>1, NoneAssumption
      <4> QED BY <4>1 DEF HandlerSucceeds, HandlerFails
    <3>3. ~Ack(epoch)
      BY <1>4 DEF Ack, Settle
    <3>4. ~UNCHANGED execution
      BY <1>1, <1>6
    <3> QED
      BY <1>1, <1>2, <3>1, <3>2, <3>3, <3>4
      DEF Next, Publish, StartConsuming, ConnectionLost, Recover,
          ReplaceConnection, ProcessStops, Requeue, Epochs
  <2>2. held = execution[epoch].copy
    BY <1>6 DEF HoldsWhatRuns
  <2> DEFINE copy == [execution[epoch].copy EXCEPT !.retry = @ + 1]
  <2>3. copy = [id |-> held.id, retry |-> held.retry + 1] /\ copy \in Copy
    BY <1>3, <2>2 DEF Copy
  <2>4. ShouldRetry(copy.retry) /\ ready' = Append(ready, copy)
    BY <1>4, <2>1 DEF Nack, Settle
  <2>5. Retried(held, ready')
    <3> HIDE DEF copy
    <3>1. /\ Len(ready') = Len(ready) + 1 /\ Len(ready) \in Nat
          /\ ready'[Len(ready) + 1] = copy
      BY <1>1, <2>3, <2>4 DEF TypeOK
    <3> QED BY <2>3, <3>1
  <2>6. held.retry < MaxRetryCount
    BY <1>3, <2>3, <2>4, MaxRetryAssumption DEF ShouldRetry, Copy
  <2>7. failures > 0 /\ failures' = failures
    BY <2>1 DEF Nack, FailuresAreCounted
  <2> QED BY <1>3, <2>5, <2>6, <2>7
<1> QED BY <1>5, <1>6

LEMMA InitWInv == Init => WInv
BY BoundsAssumption
DEF Init, WInv, ClosedIsIdle, FailuresAreCounted, IsIn, WedgedOnlyByRetry,
    Epochs

LEMMA NextWInv == IInv /\ WInv /\ [Next]_vars => WInv'
<1> SUFFICES ASSUME IInv, WInv, [Next]_vars PROVE WInv'
  OBVIOUS
<1>1. CASE Next
  BY <1>1, NextClosedIsIdle, NextFailuresAreCounted, NextWedgedOnlyByRetry
  DEF IInv, WInv
<1>2. CASE UNCHANGED vars
  BY <1>2
  DEF vars, WInv, ClosedIsIdle, FailuresAreCounted, IsIn, WedgedOnlyByRetry
<1> QED BY <1>1, <1>2

(* The channel stands still only after a handler has failed with retries   *)
(* left, and then the retry waits in the queue behind the delivery that    *)
(* nobody will settle.                                                     *)
THEOREM OnlyRetriesWedge == Spec => []WedgedOnlyByRetry
<1>1. WInv => WedgedOnlyByRetry
  BY DEF WInv
<1> QED BY <1>1, InitWInv, NextWInv, Invariance, PTL DEF Spec

(* While nothing has failed and the connection was not replaced, a message *)
(* that is not settled has a step to come: the consumer's start, the       *)
(* recovery of its connection, a callback, or a delivery.  This is the     *)
(* part of SettledUnlessFailing that needs no fairness.                    *)
SettlingGoesOn ==
    \A m \in Published :
        \/ handled[m] > 0 \/ m \in dropped
        \/ failures > 0 \/ link = "orphaned"
        \/ link \in {"closed", "recovering"}
        \/ execution[epoch] # None
        \/ held = None /\ ready # <<>>

THEOREM SettlingNeverStalls == Spec => []SettlingGoesOn
<1>1. TypeOK /\ NoLoss /\ WInv => SettlingGoesOn
  <2> SUFFICES ASSUME TypeOK, NoLoss, WInv, NEW m \in Published,
                      ~(handled[m] > 0), m \notin dropped,
                      ~(failures > 0), link = "open",
                      execution[epoch] = None
               PROVE  held = None /\ ready # <<>>
    BY DEF SettlingGoesOn, TypeOK, Links
  <2>1. held = None
    BY DEF WInv, WedgedOnlyByRetry
  <2>2. PICK i \in 1 .. Len(ready) : ready[i].id = m
    BY <2>1 DEF NoLoss, InQueue
  <2> QED BY <2>1, <2>2
<1> QED
  BY <1>1, InitWInv, NextWInv, Invariance, TypeCorrect, NothingIsLost, PTL
  DEF Spec

-----------------------------------------------------------------------------
(* The queue keeps the promise of AtLeastOnce.  What the step from the one *)
(* to the other needs to know of the queue is here.                        *)
Settled(m) == handled[m] > 0 \/ m \in dropped

EarlierSettled(m) ==
    \A j \in 1 .. Len(published) :
        published[j] = m => \A i \in 1 .. j - 1 : Settled(published[i])

(* What is in the queue, is worked on or is settled has been published.    *)
AllPublished ==
    /\ \A k \in 1 .. Len(ready) : ready[k].id \in Published
    /\ held # None => held.id \in Published
    /\ \A e \in Epochs :
          execution[e] # None => execution[e].copy.id \in Published
    /\ \A m \in Messages : Settled(m) => m \in Published

(* A copy of m is held, or waits at a place before the k-th.               *)
IsAhead(m, k) ==
    \/ held # None /\ held.id = m
    \/ \E l \in 1 .. k - 1 : ready[l].id = m

(* Before a copy of a message there is one of every message published      *)
(* earlier that is not settled, wherever a retry or a loss has put it.     *)
QueueInOrder ==
    /\ \A k \in 1 .. Len(ready), j \in 1 .. Len(published) :
          ready[k].id = published[j] =>
              \A i \in 1 .. j - 1 :
                  Settled(published[i]) \/ IsAhead(published[i], k)
    /\ held # None => EarlierSettled(held.id)
    /\ \A e \in Epochs :
          execution[e] # None => EarlierSettled(execution[e].copy.id)

(* Until a channel is lost there is one copy of every message that is not  *)
(* settled and none of the others; or the copy that is held was answered   *)
(* with a retry and not settled, and nothing is delivered any more.        *)
CopiesAreFresh ==
    \A k \in 1 .. Len(ready) :
        /\ ~Settled(ready[k].id)
        /\ held # None => ready[k].id # held.id
        /\ \A l \in 1 .. k - 1 : ready[l].id # ready[k].id

IsWedged == held # None /\ execution[0] = None

OneCopyUntilLoss ==
    epoch = 0 =>
        /\ link # "open" => held = None /\ execution[0] = None
        /\ CopiesAreFresh \/ IsWedged

(* What is published stays in its place.                                   *)
LEMMA PublishedStep ==
    ASSUME TypeOK, Next
    PROVE  /\ Len(published) <= Len(published')
           /\ \A j \in 1 .. Len(published) : published'[j] = published[j]
           /\ \A m \in Published : m \in Published'
           /\ \/ published' = published
              \/ \E m \in Messages :
                    Publish(m) /\ Len(published') = Len(published) + 1
                               /\ published'[Len(published')] = m
<1>1. published \in Seq(Messages)
  BY DEF TypeOK
<1>2. ASSUME NEW m \in Messages, Publish(m)
      PROVE  /\ Len(published') = Len(published) + 1
             /\ \A j \in 1 .. Len(published) : published'[j] = published[j]
             /\ published'[Len(published')] = m
  BY <1>1, <1>2 DEF Publish
<1>3. \/ published' = published
      \/ \E m \in Messages : Publish(m)
  BY DEF Next, StartConsuming, Deliver, HandlerSucceeds, HandlerFails, Ack,
         Nack, ConnectionLost, Recover, ReplaceConnection, ProcessStops
<1>4. /\ Len(published) <= Len(published')
      /\ \A j \in 1 .. Len(published) : published'[j] = published[j]
  BY <1>1, <1>2, <1>3
<1>5. \A m \in Published : m \in Published'
  <2>1. Len(published) \in Nat /\ Len(published') \in Nat
    BY <1>1, <1>2, <1>3
  <2> QED BY <1>4, <2>1 DEF Published
<1> QED BY <1>2, <1>3, <1>4, <1>5

LEMMA SettledStays ==
    ASSUME TypeOK, TypeOK', Next, NEW m \in Messages, Settled(m)
    PROVE  Settled(m)'
<1>1. handled[m] \in Nat /\ handled'[m] \in Nat /\ handled[m] <= handled'[m]
  BY CountersGrow DEF TypeOK
<1>2. dropped \subseteq dropped'
  <2>1. ASSUME NEW e \in Epochs, Nack(e)
        PROVE  dropped \subseteq dropped'
    BY <2>1 DEF Nack
  <2> QED BY <2>1
      DEF Next, Publish, StartConsuming, Deliver, HandlerSucceeds,
          HandlerFails, Ack, ConnectionLost, Recover, ReplaceConnection,
          ProcessStops
<1> QED BY <1>1, <1>2 DEF Settled

(* Only an execution settles a message: the one it works on.               *)
LEMMA SettledStep ==
    ASSUME TypeOK, Next, NEW m \in Messages, Settled(m)', ~Settled(m)
    PROVE  \E e \in Epochs :
              /\ HandlerSucceeds(e) \/ Nack(e)
              /\ execution[e] # None
              /\ execution[e].copy.id = m
<1>1. ASSUME NEW e \in Epochs, HandlerSucceeds(e)
      PROVE  execution[e] # None /\ execution[e].copy.id = m
  BY <1>1 DEF HandlerSucceeds, IsIn, Settled, TypeOK
<1>2. ASSUME NEW e \in Epochs, Nack(e)
      PROVE  execution[e] # None /\ execution[e].copy.id = m
  <2>1. execution[e] # None /\ execution[e].copy \in Copy
    BY <1>2, ExecutionType DEF Nack, IsIn
  <2>2. dropped' # dropped
    BY <1>2 DEF Nack, Settled
  <2>3. dropped' = dropped \cup {[execution[e].copy EXCEPT !.retry = @ + 1].id}
    BY <1>2, <2>2 DEF Nack
  <2>4. [execution[e].copy EXCEPT !.retry = @ + 1].id = execution[e].copy.id
    BY <2>1 DEF Copy
  <2>5. m \in dropped'
    BY <1>2 DEF Nack, Settled
  <2> QED BY <2>1, <2>3, <2>4, <2>5 DEF Settled
<1> QED
  BY <1>1, <1>2
  DEF Next, Settled, Publish, StartConsuming, Deliver, HandlerFails, Ack,
      ConnectionLost, Recover, ReplaceConnection, ProcessStops

LEMMA NextAllPublished ==
    ASSUME TypeOK, TypeOK', HoldsWhatRuns, AllPublished, Next
    PROVE  AllPublished'
<1>1. ASSUME NEW m \in Published
      PROVE  m \in Published'
  BY PublishedStep
<1>2. ASSUME NEW k \in 1 .. Len(ready')
      PROVE  ready'[k].id \in Published'
  <2>1. ASSUME NEW m \in Messages, Publish(m), ready'[k] = NewCopy(m)
        PROVE  ready'[k].id \in Published'
    BY <2>1 DEF Publish, NewCopy, Published, TypeOK
  <2>2. ASSUME NEW e \in Epochs, execution[e] # None,
               ready'[k] = [execution[e].copy EXCEPT !.retry = @ + 1]
        PROVE  ready'[k].id \in Published'
    <3>1. ready'[k].id = execution[e].copy.id
      BY <2>2, ExecutionType DEF Copy
    <3> QED BY <1>1, <2>2, <3>1 DEF AllPublished
  <2> QED BY <1>1, <2>1, <2>2, ReadyStep DEF AllPublished
<1>3. ASSUME held' # None
      PROVE  held'.id \in Published'
  <2>1. CASE Deliver
    <3>1. held' = ready[1] /\ 1 \in 1 .. Len(ready)
      BY <2>1 DEF Deliver, HeldOnDelivery, TypeOK
    <3> QED BY <1>1, <3>1 DEF AllPublished
  <2>2. CASE ~Deliver
    <3>1. held # None /\ held' = held
      <4>1. held # None
        BY <1>3, <2>2
        DEF Next, Publish, StartConsuming, HandlerSucceeds, HandlerFails, Ack,
            Nack, Settle, ReturnAfterRepublish, ConnectionLost, Requeue,
            Recover, ReplaceConnection, ProcessStops
      <4> QED BY <1>3, <4>1, HeldStep
    <3> QED BY <1>1, <3>1 DEF AllPublished
  <2> QED BY <2>1, <2>2
<1>4. ASSUME NEW e \in Epochs, execution'[e] # None
      PROVE  execution'[e].copy.id \in Published'
  <2>1. CASE Deliver /\ e = epoch
    <3>1. execution'[e].copy = ready[1] /\ 1 \in 1 .. Len(ready)
      BY <2>1 DEF Deliver, TypeOK
    <3> QED BY <1>1, <3>1 DEF AllPublished
  <2>2. CASE execution[e] # None /\ execution'[e].copy = execution[e].copy
    BY <1>1, <2>2 DEF AllPublished
  <2> QED BY <1>4, <2>1, <2>2, ExecutionStep
<1>5. ASSUME NEW m \in Messages, Settled(m)'
      PROVE  m \in Published'
  BY <1>1, <1>5, SettledStep DEF AllPublished
<1> QED BY <1>2, <1>3, <1>4, <1>5 DEF AllPublished

LEMMA EarlierStays ==
    ASSUME TypeOK, TypeOK', Next, NEW m \in Published, EarlierSettled(m)
    PROVE  EarlierSettled(m)'
<1> SUFFICES ASSUME NEW j \in 1 .. Len(published'), published'[j] = m,
                    NEW i \in 1 .. j - 1
             PROVE  Settled(published[i])'
  BY DEF EarlierSettled
<1>1. published \in Seq(Messages) /\ Len(published) \in Nat
  BY DEF TypeOK
<1>2. j <= Len(published)
  <2>1. ASSUME NEW n \in Messages, Publish(n),
               published'[Len(published')] = n
        PROVE  j # Len(published')
    BY <2>1 DEF Publish
  <2> QED BY <1>1, <2>1, PublishedStep
<1>3. /\ j \in 1 .. Len(published) /\ i \in 1 .. Len(published)
      /\ published[j] = m /\ published'[i] = published[i]
      /\ published[i] \in Messages
  BY <1>1, <1>2, PublishedStep
<1>4. Settled(published[i])
  BY <1>3 DEF EarlierSettled
<1> QED BY <1>3, <1>4, SettledStays DEF Settled

(* What is held is put back, or settled and its message with it.           *)
LEMMA HeldSettled ==
    ASSUME TypeOK, TypeOK', HoldsWhatRuns, AckedIsHandled, Next,
           held # None, held' # held
    PROVE  /\ held' = None
           /\ \/ Requeue
              \/ /\ handled'[held.id] > 0 \/ held.id \in dropped'
                 /\ ready' = ready
<1>1. CASE Ack(epoch)
  <2>1. IsIn(epoch, "acking") /\ epoch \in Epochs
    BY <1>1 DEF Ack, TypeOK
  <2>2. held = execution[epoch].copy
    BY <2>1 DEF IsIn, HoldsWhatRuns
  <2>3. handled[held.id] > 0
    BY <2>1, <2>2 DEF AckedIsHandled
  <2> QED BY <1>1, <2>3, HeldStep DEF Ack
<1>2. CASE Nack(epoch) /\ dropped' = dropped \cup {held.id}
  <2>1. held' = None
    BY HeldStep
  <2>2. ready' = ready
    BY <1>2, <2>1 DEF Nack, ReturnAfterRepublish
  <2> QED BY <1>2, <2>1, <2>2
<1> QED BY <1>1, <1>2, HeldStep

(* What is in the queue keeps its place, moves up by one with a delivery,  *)
(* or moves back by one when what was held is put back before it.          *)
LEMMA PlaceStep ==
    ASSUME TypeOK, Next
    PROVE  \/ Deliver
           \/ Requeue
           \/ ready' = ready
           \/ \E m \in Messages : Publish(m) /\ ready' = Append(ready, NewCopy(m))
           \/ \E e \in Epochs :
                 /\ Nack(e)
                 /\ execution[e] # None
                 /\ held' = held
                 /\ ready' = Append(ready,
                               [execution[e].copy EXCEPT !.retry = @ + 1])
<1>1. ASSUME NEW e \in Epochs, Nack(e), ready' # ready
      PROVE  /\ execution[e] # None
             /\ held' = held
             /\ ready' = Append(ready,
                           [execution[e].copy EXCEPT !.retry = @ + 1])
  BY <1>1 DEF Nack, IsIn, ReturnAfterRepublish
<1> QED
  BY <1>1
  DEF Next, Publish, StartConsuming, HandlerSucceeds, HandlerFails, Ack,
      ConnectionLost, Recover, ReplaceConnection, ProcessStops

(* A message that was ahead of the k-th copy is ahead of it after a step   *)
(* that leaves the copy where it is, unless the message is settled.        *)
LEMMA AheadStays ==
    ASSUME TypeOK, TypeOK', HoldsWhatRuns, AckedIsHandled, Next, ~Requeue,
           NEW k \in 1 .. Len(ready) + 1, NEW m \in Messages,
           \A l \in 1 .. k - 1 : l \in 1 .. Len(ready') /\ ready'[l] = ready[l],
           IsAhead(m, k)
    PROVE  Settled(m)' \/ IsAhead(m, k)'
<1>1. CASE held # None /\ held.id = m
  <2>1. CASE held' = held
    BY <1>1, <2>1 DEF IsAhead
  <2>2. CASE held' # held
    BY <1>1, <2>2, HeldSettled DEF Settled
  <2> QED BY <2>1, <2>2
<1>2. CASE \E l \in 1 .. k - 1 : ready[l].id = m
  BY <1>2 DEF IsAhead
<1> QED BY <1>1, <1>2 DEF IsAhead

LEMMA NextQueueInOrder ==
    ASSUME TypeOK, TypeOK', HoldsWhatRuns, AckedIsHandled, NoLoss,
           AllPublished, AllPublished', QueueInOrder, Next
    PROVE  QueueInOrder'
<1>1. /\ published \in Seq(Messages) /\ Len(published) \in Nat
      /\ ready \in Seq(Copy) /\ Len(ready) \in Nat
      /\ epoch \in Epochs
  BY DEF TypeOK
(* The message at the head of the queue is the next one.                   *)
<1>2. ASSUME Deliver
      PROVE  /\ 1 \in 1 .. Len(ready) /\ Head(ready) = ready[1]
             /\ ready[1].id \in Published
             /\ EarlierSettled(ready[1].id)
  <2>1. /\ 1 \in 1 .. Len(ready) /\ Head(ready) = ready[1] /\ held = None
    BY <1>1, <1>2 DEF Deliver
  <2>2. \A m : ~IsAhead(m, 1)
    BY <2>1 DEF IsAhead
  <2>3. ready[1].id \in Published
    BY <2>1 DEF AllPublished
  <2> QED BY <2>1, <2>2, <2>3 DEF QueueInOrder, EarlierSettled
<1>3. ASSUME NEW e \in Epochs, execution'[e] # None
      PROVE  EarlierSettled(execution[e].copy.id)'
  <2>1. PICK m : m = execution'[e].copy.id
    OBVIOUS
  <2>2. m \in Published /\ EarlierSettled(m)
    <3>1. CASE Deliver /\ e = epoch
      <4>1. m = ready[1].id
        BY <1>2, <2>1, <3>1 DEF Deliver, TypeOK
      <4> QED BY <1>2, <3>1, <4>1
    <3>2. CASE execution[e] # None /\ execution'[e].copy = execution[e].copy
      BY <2>1, <3>2 DEF AllPublished, QueueInOrder
    <3> QED BY <1>3, <3>1, <3>2, ExecutionStep
  <2>3. EarlierSettled(m)'
    BY <2>2, EarlierStays
  <2> QED BY <2>1, <2>3 DEF EarlierSettled
<1>4. ASSUME held' # None
      PROVE  EarlierSettled(held.id)'
  <2>1. PICK m : m = held'.id
    OBVIOUS
  <2>2. m \in Published /\ EarlierSettled(m)
    <3>1. CASE Deliver
      BY <1>2, <2>1, <3>1 DEF Deliver, HeldOnDelivery
    <3>2. CASE ~Deliver
      <4>1. held # None
        BY <1>4, <3>2
        DEF Next, Publish, StartConsuming, HandlerSucceeds, HandlerFails, Ack,
            Nack, Settle, ReturnAfterRepublish, ConnectionLost, Requeue,
            Recover, ReplaceConnection, ProcessStops
      <4>2. held' = held
        BY <1>4, <4>1, HeldStep
      <4> QED BY <2>1, <4>1, <4>2 DEF AllPublished, QueueInOrder
    <3> QED BY <3>1, <3>2
  <2>3. EarlierSettled(m)'
    BY <2>2, EarlierStays
  <2> QED BY <2>1, <2>3 DEF EarlierSettled
(* A copy that waits: it is for the message published at the place j, and  *)
(* m was published earlier, at the place i.                                *)
<1>5. ASSUME NEW k \in 1 .. Len(ready'), NEW j \in 1 .. Len(published'),
             ready'[k].id = published'[j], NEW i \in 1 .. j - 1,
             NEW m \in Messages, m = published'[i]
      PROVE  Settled(m)' \/ IsAhead(m, k)'
  <2>1. i \in 1 .. Len(published) /\ published[i] = m
    BY <1>1, <1>5, PublishedStep
  <2>2. Settled(m) => Settled(m)'
    BY SettledStays
  <2>3. ASSUME NEW x \in Published, ready'[k].id = x
        PROVE  j \in 1 .. Len(published) /\ published[j] = x
    <3>1. ASSUME NEW n \in Messages, Publish(n),
                 published'[Len(published')] = n
          PROVE  j # Len(published')
      <4>1. n # x
        BY <3>1 DEF Publish
      <4> QED BY <1>5, <2>3, <3>1, <4>1
    <3>2. j \in 1 .. Len(published)
      <4>1. CASE published' = published
        BY <4>1
      <4>2. ASSUME NEW n \in Messages, Publish(n),
                   Len(published') = Len(published) + 1,
                   published'[Len(published')] = n
            PROVE  j \in 1 .. Len(published)
        <5>1. j # Len(published')
          BY <3>1, <4>2
        <5> QED BY <1>1, <4>2, <5>1
      <4> QED BY <4>1, <4>2, PublishedStep
    <3>3. published'[j] = published[j]
      BY <3>2, PublishedStep
    <3> QED BY <1>5, <2>3, <3>2, <3>3
  (* A copy of a message that all earlier ones are settled for.            *)
  <2>4. ASSUME NEW x \in Published, EarlierSettled(x), ready'[k].id = x
        PROVE  Settled(m)'
    <3>1. Settled(m)
      BY <1>5, <2>1, <2>3, <2>4 DEF EarlierSettled
    <3> QED BY <2>2, <3>1
  (* A copy that was at the place l.                                       *)
  <2>5. ASSUME NEW l \in 1 .. Len(ready), ready'[k] = ready[l]
        PROVE  Settled(m)' \/ IsAhead(m, l)
    <3>1. ready[l].id \in Published
      BY DEF AllPublished
    <3>2. Settled(m) \/ IsAhead(m, l)
      BY <1>5, <2>1, <2>3, <2>5, <3>1 DEF QueueInOrder
    <3> QED BY <2>2, <3>2
  <2>6. CASE Deliver
    <3>1. /\ ready' = Tail(ready) /\ held = None
          /\ held' = ready[1] /\ ready[1] \in Copy
      BY <1>1, <1>2, <2>6 DEF Deliver, HeldOnDelivery
    <3>2. /\ k + 1 \in 1 .. Len(ready) /\ ready'[k] = ready[k + 1]
          /\ \A l \in 2 .. k : l - 1 \in 1 .. k - 1 /\ ready'[l - 1] = ready[l]
      BY <1>1, <3>1
    <3>3. ASSUME IsAhead(m, k + 1)
          PROVE  IsAhead(m, k)'
      <4>1. PICK l \in 1 .. k : ready[l].id = m
        BY <3>1, <3>3 DEF IsAhead
      <4>2. CASE l = 1
        <5>1. held' # None /\ held'.id = m
          BY <3>1, <4>1, <4>2, NoneAssumption
        <5> QED BY <5>1 DEF IsAhead
      <4>3. CASE l > 1
        <5>1. l \in 2 .. k
          BY <4>3
        <5>2. l - 1 \in 1 .. k - 1 /\ ready'[l - 1].id = m
          BY <3>2, <4>1, <5>1
        <5> QED BY <5>2 DEF IsAhead
      <4> QED BY <4>1, <4>2, <4>3
    <3> QED BY <2>5, <3>2, <3>3
  <2>7. CASE Requeue
    <3>1. CASE held = None
      <4>1. ready' = ready /\ held' = held
        BY <2>7, <3>1 DEF Requeue
      <4> QED BY <2>5, <4>1 DEF IsAhead
    <3>2. CASE held # None
      <4>1. ready' = <<held>> \o ready /\ held \in Copy
        BY <2>7, <3>2 DEF Requeue, TypeOK
      <4>2. /\ Len(ready') = Len(ready) + 1 /\ ready'[1] = held
            /\ \A l \in 1 .. Len(ready) : ready'[l + 1] = ready[l]
        BY <1>1, <4>1
      <4>3. CASE k = 1
        BY <2>4, <3>2, <4>2, <4>3 DEF AllPublished, QueueInOrder
      <4>4. CASE k > 1
        <5>1. k - 1 \in 1 .. Len(ready) /\ ready'[k] = ready[k - 1]
          BY <1>1, <4>2, <4>4
        <5>2. ASSUME IsAhead(m, k - 1)
              PROVE  IsAhead(m, k)'
          <6>1. CASE held.id = m
            BY <4>2, <4>4, <6>1 DEF IsAhead
          <6>2. ASSUME NEW l \in 1 .. k - 2, ready[l].id = m
                PROVE  IsAhead(m, k)'
            <7>1. l + 1 \in 1 .. k - 1 /\ ready'[l + 1].id = m
              BY <1>1, <4>2, <5>1, <6>2
            <7> QED BY <7>1 DEF IsAhead
          <6> QED BY <5>2, <6>1, <6>2 DEF IsAhead
        <5> QED BY <2>5, <5>1, <5>2
      <4> QED BY <4>3, <4>4
    <3> QED BY <3>1, <3>2
  <2>8. ASSUME k \in 1 .. Len(ready), ~Requeue,
               \A l \in 1 .. Len(ready) :
                   l \in 1 .. Len(ready') /\ ready'[l] = ready[l]
        PROVE  Settled(m)' \/ IsAhead(m, k)'
    <3>1. Settled(m)' \/ IsAhead(m, k)
      BY <2>5, <2>8
    <3>2. k \in 1 .. Len(ready) + 1
      BY <1>1, <2>8
    <3>3. \A l \in 1 .. k - 1 : l \in 1 .. Len(ready)
      BY <1>1, <2>8
    <3> QED BY <2>8, <3>1, <3>2, <3>3, AheadStays
  <2>9. ASSUME NEW c \in Copy, ready' = Append(ready, c), ~Requeue,
               k = Len(ready) + 1 => Settled(m)' \/ IsAhead(m, k)'
        PROVE  Settled(m)' \/ IsAhead(m, k)'
    <3>1. /\ Len(ready') = Len(ready) + 1
          /\ \A l \in 1 .. Len(ready) :
                l \in 1 .. Len(ready') /\ ready'[l] = ready[l]
      BY <1>1, <2>9
    <3> QED BY <1>1, <2>8, <2>9, <3>1
  <2>10. ASSUME NEW n \in Messages, Publish(n),
                ready' = Append(ready, NewCopy(n))
         PROVE  Settled(m)' \/ IsAhead(m, k)'
    <3>1. NewCopy(n) \in Copy
      BY DEF NewCopy, Copy
    <3>2. ~Requeue
      BY <1>1, <2>10 DEF Requeue, Publish, Epochs
    <3>3. ASSUME k = Len(ready) + 1
          PROVE  Settled(m)' \/ IsAhead(m, k)'
      <4>1. m \in Published
        BY <2>1 DEF Published
      <4>2. Settled(m) \/ IsAhead(m, k)
        BY <1>1, <3>3, <4>1 DEF NoLoss, Settled, InQueue, IsAhead
      <4>3. \A l \in 1 .. k - 1 :
               l \in 1 .. Len(ready') /\ ready'[l] = ready[l]
        BY <1>1, <2>10, <3>1, <3>3
      <4>4. k \in 1 .. Len(ready) + 1
        BY <1>1, <3>3
      <4> QED BY <2>2, <3>2, <4>2, <4>3, <4>4, AheadStays
    <3> QED BY <2>9, <2>10, <3>1, <3>2, <3>3
  <2>11. ASSUME NEW e \in Epochs, Nack(e), execution[e] # None,
                ready' = Append(ready,
                           [execution[e].copy EXCEPT !.retry = @ + 1])
         PROVE  Settled(m)' \/ IsAhead(m, k)'
    <3> DEFINE c == [execution[e].copy EXCEPT !.retry = @ + 1]
    <3>1. c \in Copy /\ c.id = execution[e].copy.id
      BY <2>11, ExecutionType DEF Copy
    <3>2. ~Requeue
      BY <1>1, <2>11 DEF Requeue, Nack, Epochs
    <3>3. ASSUME k = Len(ready) + 1
          PROVE  Settled(m)'
      <4>1. ready'[k].id = execution[e].copy.id
        <5> HIDE DEF c
        <5> QED BY <1>1, <2>11, <3>1, <3>3 DEF c
      <4>2. /\ execution[e].copy.id \in Published
            /\ EarlierSettled(execution[e].copy.id)
        BY <2>11 DEF AllPublished, QueueInOrder
      <4> QED BY <2>4, <4>1, <4>2
    <3> QED BY <2>9, <2>11, <3>1, <3>2, <3>3
  <2>12. CASE ready' = ready /\ ~Requeue
    BY <1>1, <2>8, <2>12
  <2> QED BY <2>6, <2>7, <2>10, <2>11, <2>12, PlaceStep
<1>6. ASSUME NEW j \in 1 .. Len(published'), NEW i \in 1 .. j - 1
      PROVE  published'[i] \in Messages
  BY DEF TypeOK
<1> QED BY <1>3, <1>4, <1>5, <1>6 DEF QueueInOrder, Settled, IsAhead

LEMMA NextOneCopyUntilLoss ==
    ASSUME TypeOK, HoldsWhatRuns, AllPublished, OneCopyUntilLoss, Next
    PROVE  OneCopyUntilLoss'
<1> SUFFICES ASSUME epoch' = 0
             PROVE  /\ link' # "open" => held' = None /\ execution'[0] = None
                    /\ CopiesAreFresh' \/ IsWedged'
  BY DEF OneCopyUntilLoss
<1>1. epoch = 0 /\ 0 \in Epochs /\ ~ConnectionLost /\ ~ProcessStops
  <2>1. epoch \in Nat /\ 0 \in Epochs
    BY BoundsAssumption DEF TypeOK, Epochs
  <2>2. ~Requeue
    BY <2>1 DEF Requeue
  <2>3. epoch' = epoch \/ ConnectionLost \/ ProcessStops
    BY DEF Next, Publish, StartConsuming, Deliver, HandlerSucceeds,
           HandlerFails, Ack, Nack, Recover, ReplaceConnection
  <2> QED BY <2>1, <2>2, <2>3 DEF ConnectionLost, ProcessStops
<1>2. /\ link # "open" => held = None /\ execution[0] = None
      /\ CopiesAreFresh \/ IsWedged
  BY <1>1 DEF OneCopyUntilLoss
<1>3. /\ ready \in Seq(Copy) /\ Len(ready) \in Nat
      /\ handled \in [Messages -> Nat]
  BY DEF TypeOK
<1>4. ASSUME NEW m \in Messages, Publish(m)
      PROVE  /\ link' # "open" => held' = None /\ execution'[0] = None
             /\ CopiesAreFresh' \/ IsWedged'
  <2>1. NewCopy(m) \in Copy /\ NewCopy(m).id = m
    BY DEF NewCopy, Copy
  <2>2. /\ Len(ready') = Len(ready) + 1
        /\ \A k \in 1 .. Len(ready) : ready'[k] = ready[k]
        /\ ready'[Len(ready) + 1] = NewCopy(m)
    BY <1>3, <1>4, <2>1 DEF Publish
  <2>3. /\ ~Settled(m)
        /\ \A k \in 1 .. Len(ready) : ready[k].id # m
        /\ held # None => held.id # m
    BY <1>4 DEF Publish, AllPublished
  <2>4. CopiesAreFresh => CopiesAreFresh'
    <3> SUFFICES ASSUME CopiesAreFresh, NEW k \in 1 .. Len(ready')
                 PROVE  /\ ~Settled(ready[k].id)'
                        /\ held' # None => ready'[k].id # held'.id
                        /\ \A l \in 1 .. k - 1 : ready'[l].id # ready'[k].id
      BY DEF CopiesAreFresh
    <3>1. handled' = handled /\ dropped' = dropped /\ held' = held
      BY <1>4 DEF Publish
    <3>2. CASE k = Len(ready) + 1
      BY <1>3, <2>1, <2>2, <2>3, <3>1, <3>2 DEF Settled
    <3>3. CASE k # Len(ready) + 1
      <4>1. k \in 1 .. Len(ready) /\ \A l \in 1 .. k - 1 : l \in 1 .. Len(ready)
        BY <1>3, <2>2, <3>3
      <4> QED BY <2>2, <3>1, <4>1 DEF CopiesAreFresh, Settled
    <3> QED BY <3>2, <3>3
  <2> QED BY <1>2, <1>4, <2>4 DEF Publish, IsWedged
<1>5. ASSUME Deliver
      PROVE  /\ link' = "open"
             /\ CopiesAreFresh'
  <2>1. /\ held = None /\ held' = ready[1] /\ 1 \in 1 .. Len(ready)
        /\ Len(ready') = Len(ready) - 1
        /\ \A k \in 1 .. Len(ready') : ready'[k] = ready[k + 1]
    BY <1>3, <1>5 DEF Deliver, HeldOnDelivery
  <2>2. CopiesAreFresh
    BY <1>2, <2>1 DEF IsWedged
  <2>3. ASSUME NEW k \in 1 .. Len(ready')
        PROVE  /\ ~Settled(ready[k].id)'
               /\ ready'[k].id # held'.id
               /\ \A l \in 1 .. k - 1 : ready'[l].id # ready'[k].id
    <3>1. /\ k + 1 \in 1 .. Len(ready) /\ 1 \in 1 .. k
          /\ \A l \in 1 .. k - 1 : /\ l \in 1 .. Len(ready')
                                   /\ l + 1 \in 1 .. (k + 1) - 1
      BY <1>3, <2>1
    <3>2. handled' = handled /\ dropped' = dropped
      BY <1>5 DEF Deliver
    <3>3. ~Settled(ready[k].id)'
      BY <2>1, <2>2, <3>1, <3>2 DEF CopiesAreFresh, Settled
    <3>4. ready'[k].id # held'.id
      <4>1. 1 \in 1 .. (k + 1) - 1
        BY <3>1
      <4> QED BY <2>1, <2>2, <3>1, <4>1 DEF CopiesAreFresh
    <3>5. \A l \in 1 .. k - 1 : ready'[l].id # ready'[k].id
      BY <2>1, <2>2, <3>1 DEF CopiesAreFresh
    <3> QED BY <3>3, <3>4, <3>5
  <2> QED BY <1>5, <2>3 DEF Deliver, CopiesAreFresh
<1>6. ASSUME NEW e \in Epochs,
             HandlerSucceeds(e) \/ HandlerFails(e) \/ Ack(e) \/ Nack(e)
      PROVE  /\ link' = "open"
             /\ CopiesAreFresh' \/ IsWedged'
  <2>1. execution[e] # None
    BY <1>6, CallbackStep
  <2>2. e = 0
    BY <1>1, <2>1, ExecutionType DEF Epochs
  <2>3. /\ link = "open" /\ link' = "open"
        /\ CopiesAreFresh
        /\ held = execution[0].copy /\ held # None /\ held \in Copy
    <3>1. held = execution[0].copy /\ held \in Copy
      BY <1>1, <2>1, <2>2, ExecutionType DEF HoldsWhatRuns
    <3>2. link' = link
      BY <1>6 DEF HandlerSucceeds, HandlerFails, Ack, Nack
    <3> QED BY <1>2, <2>1, <2>2, <3>1, <3>2, NoneAssumption DEF IsWedged
  <2>4. ASSUME ready' = ready, held' \in {held, None},
               \A m \in Messages : Settled(m)' => Settled(m) \/ m = held.id
        PROVE  CopiesAreFresh'
    <3>1. ASSUME NEW k \in 1 .. Len(ready)
          PROVE  ~Settled(ready[k].id)'
      <4>1. PICK m \in Messages : m = ready[k].id
        <5>1. ready[k] \in Copy
          BY <1>3
        <5> QED BY <5>1 DEF Copy
      <4>2. ~Settled(m)'
        BY <2>3, <2>4, <4>1 DEF CopiesAreFresh
      <4> QED BY <2>4, <4>1, <4>2 DEF Settled
    <3> QED BY <2>3, <2>4, <3>1 DEF CopiesAreFresh
  <2>5. ASSUME NEW m \in Messages, Settled(m)', ~Settled(m)
        PROVE  m = held.id
    <3>1. PICK f \in Epochs : execution[f] # None /\ execution[f].copy.id = m
      BY <2>5, SettledStep
    <3>2. f = 0
      BY <1>1, <3>1, ExecutionType DEF Epochs
    <3> QED BY <2>3, <3>1, <3>2
  <2>6. CASE HandlerSucceeds(e) \/ HandlerFails(e)
    <3>1. ready' = ready /\ held' = held
      BY <2>6 DEF HandlerSucceeds, HandlerFails
    <3> QED BY <2>3, <2>4, <2>5, <3>1
  <2>7. CASE Ack(e)
    <3>1. ready' = ready /\ held' \in {held, None}
      BY <2>7 DEF Ack, Settle
    <3> QED BY <2>3, <2>4, <2>5, <3>1
  <2>8. CASE Nack(e)
    <3>1. CASE ready' = ready
      <4>1. held' \in {held, None}
        BY <2>8 DEF Nack, Settle, ReturnAfterRepublish
      <4> QED BY <2>3, <2>4, <2>5, <3>1, <4>1
    <3>2. CASE ready' # ready
      <4>1. held' = held
        BY <2>8, <3>2 DEF Nack, ReturnAfterRepublish
      <4>2. execution'[0] = None
        BY <2>2, <2>8 DEF Nack, Finish, TypeOK
      <4> QED BY <2>3, <4>1, <4>2 DEF IsWedged
    <3> QED BY <3>1, <3>2
  <2> QED BY <1>6, <2>6, <2>7, <2>8
<1>7. CASE StartConsuming \/ Recover \/ ReplaceConnection
  <2>1. /\ ready' = ready /\ held' = held /\ execution' = execution
        /\ handled' = handled /\ dropped' = dropped
        /\ link' = "open" \/ link # "open"
    BY <1>7 DEF StartConsuming, Recover, ReplaceConnection
  <2> QED BY <1>2, <2>1 DEF CopiesAreFresh, IsWedged, Settled
<1> QED BY <1>1, <1>4, <1>5, <1>6, <1>7 DEF Next

-----------------------------------------------------------------------------
QInv ==
    /\ IInv
    /\ AllPublished
    /\ QueueInOrder
    /\ OneCopyUntilLoss

LEMMA InitQInv == Init => QInv
<1> SUFFICES ASSUME Init PROVE QInv
  OBVIOUS
<1>1. ASSUME NEW m \in Messages
      PROVE  ~Settled(m)
  <2>1. handled[m] = 0 /\ dropped = {}
    BY DEF Init
  <2> QED BY <2>1 DEF Settled
<1>2. AllPublished /\ QueueInOrder
  BY <1>1 DEF Init, AllPublished, QueueInOrder
<1>3. OneCopyUntilLoss
  <2>1. 0 \in Epochs
    BY BoundsAssumption DEF Epochs
  <2> QED BY <2>1 DEF Init, OneCopyUntilLoss, CopiesAreFresh
<1> QED BY <1>2, <1>3, InitIInv DEF QInv

LEMMA NextQInv == QInv /\ [Next]_vars => QInv'
<1> SUFFICES ASSUME QInv, [Next]_vars PROVE QInv'
  OBVIOUS
<1>1. IInv'
  BY NextIInv DEF QInv
<1>2. CASE Next
  <2>1. AllPublished'
    BY <1>1, <1>2, NextAllPublished DEF QInv, IInv
  <2>2. QueueInOrder'
    BY <1>1, <1>2, <2>1, NextQueueInOrder DEF QInv, IInv
  <2>3. OneCopyUntilLoss'
    BY <1>2, NextOneCopyUntilLoss DEF QInv, IInv
  <2> QED BY <1>1, <2>1, <2>2, <2>3 DEF QInv
<1>3. CASE UNCHANGED vars
  <2>1. AllPublished'
    BY <1>3 DEF QInv, vars, AllPublished, Published, Settled
  <2>2. QueueInOrder'
    BY <1>3 DEF QInv, vars, QueueInOrder, EarlierSettled, IsAhead, Settled
  <2>3. OneCopyUntilLoss'
    BY <1>3
    DEF QInv, vars, OneCopyUntilLoss, CopiesAreFresh, IsWedged, Settled
  <2> QED BY <1>1, <2>1, <2>2, <2>3 DEF QInv
<1> QED BY <1>2, <1>3

-----------------------------------------------------------------------------
(* The refinement: each step of the queue is one of the promise's, or      *)
(* changes nothing the promise speaks of.                                  *)
Running(e) == IsIn(e, "handling") \/ IsIn(e, "nacking")

RunningIn ==
    [e \in Epochs |-> IF Running(e) THEN execution[e].copy.id ELSE None]

Handled == {m \in Messages : handled[m] > 0}

Kept ==
    \/ Promise!Next
    \/ UNCHANGED <<published, Handled, dropped, RunningIn, epoch > 0>>

LEMMA RunningType ==
    ASSUME TypeOK, NEW e \in Epochs
    PROVE  /\ Running(e) => RunningIn[e] = execution[e].copy.id
           /\ ~Running(e) => RunningIn[e] = None
           /\ RunningIn[e] # None <=> Running(e)
           /\ RunningIn[e] # None =>
                 /\ execution[e] # None
                 /\ RunningIn[e] = execution[e].copy.id
                 /\ RunningIn[e] \in Messages
<1>1. Running(e) => execution[e] # None
  BY DEF Running, IsIn
<1>2. execution[e] # None => execution[e].copy.id \in Messages
  BY ExecutionType DEF Copy
<1> QED BY <1>1, <1>2, NoneAssumption DEF RunningIn

(* The message an execution works on may be begun.                         *)
LEMMA NextToBegin ==
    ASSUME NEW m \in Published, EarlierSettled(m), TypeOK
    PROVE  Promise!IsNext(m)
<1>1. PICK i \in 1 .. Len(published) : published[i] = m
  BY DEF Published
<1>2. ASSUME NEW j \in 1 .. i - 1
      PROVE  published[j] \in Handled \cup dropped
  <2>1. published[j] \in Messages
    BY <1>1 DEF TypeOK
  <2>2. Settled(published[j])
    BY <1>1 DEF EarlierSettled
  <2> QED BY <2>1, <2>2 DEF Settled, Handled
<1> QED BY <1>1, <1>2 DEF Promise!IsNext, Handled

LEMMA PublishKept ==
    ASSUME QInv, NEW m \in Messages, Publish(m)
    PROVE  Kept
<1>1. UNCHANGED <<Handled, dropped, RunningIn, epoch > 0>>
  BY DEF Publish, Handled, RunningIn, Running, IsIn
<1>2. m \notin Promise!Sent /\ published' = Append(published, m)
  BY DEF Publish, Published, Promise!Sent
<1>3. Promise!Send(m)
  BY <1>1, <1>2 DEF Promise!Send, Handled, RunningIn, Running
<1> QED BY <1>3 DEF Kept, Promise!Next

LEMMA DeliverKept ==
    ASSUME QInv, Deliver
    PROVE  Kept
<1>a. PICK m, s : m = ready[1].id /\ s = epoch
  OBVIOUS
<1>1. TypeOK /\ epoch \in Epochs
  BY DEF QInv, IInv, TypeOK
<1>2. /\ 1 \in 1 .. Len(ready) /\ Head(ready) = ready[1] /\ held = None
      /\ m \in Published /\ m \in Messages
  <2>1. /\ 1 \in 1 .. Len(ready) /\ Head(ready) = ready[1] /\ held = None
        /\ ready[1] \in Copy
    BY <1>1 DEF Deliver, TypeOK
  <2> QED BY <1>a, <2>1 DEF QInv, AllPublished, Copy
<1>3. EarlierSettled(m)
  <2>1. \A x : ~IsAhead(x, 1)
    BY <1>2 DEF IsAhead
  <2> QED BY <1>a, <1>2, <2>1 DEF QInv, QueueInOrder, EarlierSettled
<1>4. RunningIn[epoch] = None
  BY <1>1, RunningType DEF Deliver, Running, IsIn
<1>5. RunningIn' = [RunningIn EXCEPT ![epoch] = m]
  <2>1. execution' = [execution EXCEPT ![epoch] =
                        [copy |-> ready[1], phase |-> "handling"]]
    BY <1>2 DEF Deliver
  <2>2. ASSUME NEW e \in Epochs
        PROVE  RunningIn'[e] = [RunningIn EXCEPT ![epoch] = m][e]
    <3>1. CASE e = epoch
      <4>1. execution'[e] = [copy |-> ready[1], phase |-> "handling"]
        BY <1>1, <2>1, <3>1 DEF TypeOK
      <4>2. execution'[e] \in Execution
        BY <1>1, <1>2, <4>1 DEF TypeOK, Execution
      <4>3. execution'[e] # None
        BY <4>2, NoneAssumption
      <4> QED BY <1>a, <3>1, <4>1, <4>3 DEF RunningIn, Running, IsIn
    <3>2. CASE e # epoch
      <4>1. execution'[e] = execution[e]
        BY <1>1, <2>1, <3>2 DEF TypeOK
      <4> QED BY <3>2, <4>1 DEF RunningIn, Running, IsIn
    <3> QED BY <3>1, <3>2
  <2> QED BY <2>2 DEF RunningIn
<1>6. epoch > 0 \/ /\ m \notin Handled \cup dropped
                   /\ \A e \in Epochs : RunningIn[e] = None
  <2>1. CASE epoch > 0
    BY <2>1
  <2>2. CASE epoch = 0
    <3>1. CopiesAreFresh
      BY <1>2, <2>2 DEF QInv, OneCopyUntilLoss, IsWedged
    <3>2. ~Settled(m)
      BY <1>a, <1>2, <3>1 DEF CopiesAreFresh
    <3>3. ASSUME NEW e \in Epochs
          PROVE  execution[e] = None
      BY <1>1, <2>2 DEF Deliver, TypeOK, Epochs
    <3> QED BY <1>1, <3>2, <3>3, RunningType DEF Settled, Handled, Running, IsIn
  <2> QED BY <1>1, <2>1, <2>2 DEF Epochs
<1>7. UNCHANGED <<published, Handled, dropped, epoch > 0>>
  BY DEF Deliver, Handled
<1>8. Promise!IsNext(m)
  BY <1>1, <1>2, <1>3, NextToBegin
<1>9. Promise!Begin(s, m)
  BY <1>a, <1>4, <1>5, <1>6, <1>7, <1>8
  DEF Promise!Begin, RunningIn, Running, Handled
<1> QED BY <1>a, <1>1, <1>2, <1>9 DEF Kept, Promise!Next

(* A callback changes what its own slot shows, and nothing of the others.  *)
LEMMA CallbackRuns ==
    ASSUME TypeOK, NEW f \in Epochs,
           HandlerSucceeds(f) \/ HandlerFails(f) \/ Ack(f) \/ Nack(f)
    PROVE  RunningIn' = [RunningIn EXCEPT ![f] =
                           IF Running(f)' THEN execution[f].copy.id ELSE None]
<1>1. ASSUME NEW e \in Epochs, e # f
      PROVE  RunningIn'[e] = RunningIn[e]
  <2>1. execution'[e] = execution[e]
    BY <1>1, CallbackStep DEF TypeOK
  <2> QED BY <2>1 DEF RunningIn, Running, IsIn
<1>2. RunningIn'[f] = IF Running(f)' THEN execution[f].copy.id ELSE None
  <2>1. execution'[f] = None \/ execution'[f].copy = execution[f].copy
    <3> DEFINE In(phase) == [copy |-> execution[f].copy, phase |-> phase]
    <3>1. execution'[f] \in {None, In("acking"), In("nacking")}
      BY CallbackStep DEF TypeOK
    <3> QED BY <3>1
  <2> QED BY <2>1 DEF RunningIn, Running, IsIn
<1> QED BY <1>1, <1>2 DEF RunningIn

LEMMA HandlerKept ==
    ASSUME QInv, NEW e \in Epochs, HandlerSucceeds(e) \/ HandlerFails(e)
    PROVE  Kept
<1>1. TypeOK /\ execution[e] # None /\ Running(e)
  BY DEF QInv, IInv, HandlerSucceeds, HandlerFails, Running, IsIn
<1>2. RunningIn[e] = execution[e].copy.id /\ RunningIn[e] # None
  BY <1>1, RunningType
<1>3. UNCHANGED <<published, dropped, epoch > 0>>
  BY DEF HandlerSucceeds, HandlerFails
<1>4. CASE HandlerSucceeds(e)
  <2>1. execution'[e] = [copy |-> execution[e].copy, phase |-> "acking"]
    BY <1>1, <1>4, GoToValue DEF HandlerSucceeds, TypeOK
  <2>2. RunningIn' = [RunningIn EXCEPT ![e] = None]
    BY <1>1, <1>4, <2>1, CallbackRuns DEF Running, IsIn
  <2>3. Handled' = Handled \cup {RunningIn[e]}
    <3>1. /\ execution[e].copy.id \in Messages
          /\ handled \in [Messages -> Nat]
      BY <1>1, ExecutionType DEF TypeOK, Copy
    <3>2. handled' = [handled EXCEPT ![execution[e].copy.id] = @ + 1]
      BY <1>4 DEF HandlerSucceeds
    <3> QED BY <1>2, <3>1, <3>2 DEF Handled
  <2>4. Promise!Handle(e)
    BY <1>2, <1>3, <2>2, <2>3 DEF Promise!Handle, RunningIn, Running, Handled
  <2> QED BY <2>4 DEF Kept, Promise!Next
<1>5. CASE HandlerFails(e)
  <2>1. /\ execution'[e] # None /\ execution'[e].phase = "nacking"
        /\ execution'[e].copy = execution[e].copy
    <3>1. execution'[e] = [copy |-> execution[e].copy, phase |-> "nacking"]
      BY <1>1, <1>5, GoToValue DEF HandlerFails, TypeOK
    <3>2. execution'[e] \in Execution
      BY <1>1, <3>1, ExecutionType DEF Execution
    <3> QED BY <3>1, <3>2, NoneAssumption
  <2>2. RunningIn' = [RunningIn EXCEPT ![e] = RunningIn[e]]
    BY <1>1, <1>2, <1>5, <2>1, CallbackRuns DEF Running, IsIn
  <2>3. RunningIn' = RunningIn
    BY <2>2 DEF RunningIn
  <2>4. Handled' = Handled
    BY <1>5 DEF HandlerFails, Handled
  <2> QED BY <1>3, <2>3, <2>4 DEF Kept
<1> QED BY <1>4, <1>5

(* An acknowledgement that fails for want of a channel makes a handler     *)
(* that has succeeded count as failed: to the promise, one begins again.   *)
LEMMA AckKept ==
    ASSUME QInv, NEW e \in Epochs, Ack(e)
    PROVE  Kept
<1>1. TypeOK /\ execution[e] # None /\ ~Running(e)
  BY DEF QInv, IInv, Ack, Running, IsIn
<1>2. RunningIn[e] = None
  BY <1>1, RunningType
<1>3. UNCHANGED <<published, Handled, dropped, epoch > 0>>
  BY DEF Ack, Handled
<1>4. CASE Finish(e)
  <2>1. execution'[e] = None
    BY <1>1, <1>4 DEF Finish, TypeOK
  <2>2. RunningIn' = [RunningIn EXCEPT ![e] = RunningIn[e]]
    BY <1>1, <1>2, <2>1, CallbackRuns DEF Running, IsIn
  <2>3. RunningIn' = RunningIn
    BY <2>2 DEF RunningIn
  <2> QED BY <1>3, <2>3 DEF Kept
<1>5. CASE link # "open" /\ GoTo(e, "nacking")
  <2>1. PICK m : m = execution[e].copy.id
    OBVIOUS
  <2>2. m \in Published /\ EarlierSettled(m) /\ m \in Messages
    <3>1. execution[e].copy \in Copy
      BY <1>1, ExecutionType
    <3> QED BY <1>1, <2>1, <3>1 DEF QInv, AllPublished, QueueInOrder, Copy
  <2>3. epoch > 0
    <3>1. epoch \in Epochs /\ e <= epoch
      BY <1>1, ExecutionType DEF TypeOK
    <3>2. epoch # 0
      <4>1. ASSUME epoch = 0
            PROVE  FALSE
        <5>1. e = 0
          BY <3>1, <4>1 DEF Epochs
        <5> QED BY <1>1, <1>5, <4>1, <5>1 DEF QInv, OneCopyUntilLoss
      <4> QED BY <4>1
    <3> QED BY <3>1, <3>2 DEF Epochs
  <2>4. /\ execution'[e] # None /\ execution'[e].phase = "nacking"
        /\ execution'[e].copy = execution[e].copy
    <3>1. execution'[e] = [copy |-> execution[e].copy, phase |-> "nacking"]
      BY <1>1, <1>5, GoToValue DEF TypeOK
    <3>2. execution'[e] \in Execution
      BY <1>1, <3>1, ExecutionType DEF Execution
    <3> QED BY <3>1, <3>2, NoneAssumption
  <2>5. RunningIn' = [RunningIn EXCEPT ![e] = m]
    BY <1>1, <2>1, <2>4, CallbackRuns DEF Running, IsIn
  <2>6. Promise!IsNext(m)
    BY <1>1, <2>2, NextToBegin
  <2>7. Promise!Begin(e, m)
    BY <1>2, <1>3, <2>3, <2>5, <2>6
    DEF Promise!Begin, RunningIn, Running, Handled
  <2> QED BY <2>2, <2>7 DEF Kept, Promise!Next
<1> QED BY <1>4, <1>5 DEF Ack, ReturnAfterAck

LEMMA NackKept ==
    ASSUME QInv, NEW e \in Epochs, Nack(e)
    PROVE  Kept
<1>1. TypeOK /\ execution[e] # None /\ Running(e)
  BY DEF QInv, IInv, Nack, Running, IsIn
<1>2. RunningIn[e] = execution[e].copy.id /\ RunningIn[e] # None
  BY <1>1, RunningType
<1>3. UNCHANGED <<published, Handled, epoch > 0>>
  BY DEF Nack, Handled
<1>4. RunningIn' = [RunningIn EXCEPT ![e] = None]
  <2>1. execution'[e] = None
    BY <1>1 DEF Nack, Finish, TypeOK
  <2> QED BY <1>1, <2>1, CallbackRuns DEF Running, IsIn
<1>5. dropped' \in {dropped, dropped \cup {RunningIn[e]}}
  <2>1. [execution[e].copy EXCEPT !.retry = @ + 1].id = execution[e].copy.id
    BY <1>1, ExecutionType DEF Copy
  <2> QED BY <1>2, <2>1 DEF Nack
<1>6. CASE dropped' = dropped
  <2>1. Promise!Fail(e)
    BY <1>2, <1>3, <1>4, <1>6 DEF Promise!Fail, RunningIn, Running, Handled
  <2> QED BY <2>1 DEF Kept, Promise!Next
<1>7. CASE dropped' = dropped \cup {RunningIn[e]}
  <2>1. Promise!GiveUp(e)
    BY <1>2, <1>3, <1>4, <1>7 DEF Promise!GiveUp, RunningIn, Running, Handled
  <2> QED BY <2>1 DEF Kept, Promise!Next
<1> QED BY <1>5, <1>6, <1>7

LEMMA LossKept ==
    ASSUME QInv, ConnectionLost \/ ProcessStops
    PROVE  Kept
<1>1. epoch' > 0
  <2>1. epoch \in Nat /\ epoch' = epoch + 1
    BY DEF QInv, IInv, TypeOK, Epochs, ConnectionLost, ProcessStops, Requeue
  <2> QED BY <2>1
<1>2. UNCHANGED <<published, Handled, dropped>>
  BY DEF ConnectionLost, ProcessStops, Handled
<1>3. CASE ConnectionLost
  <2>1. RunningIn' = RunningIn
    BY <1>3 DEF ConnectionLost, RunningIn, Running, IsIn
  <2>2. Promise!Disturb
    BY <1>1, <1>2, <2>1 DEF Promise!Disturb, RunningIn, Running, Handled
  <2> QED BY <2>2 DEF Kept, Promise!Next
<1>4. CASE ProcessStops
  <2>1. RunningIn' = [e \in Epochs |-> None]
    BY <1>4 DEF ProcessStops, RunningIn, Running, IsIn
  <2>2. Promise!Disturb
    BY <1>1, <1>2, <2>1 DEF Promise!Disturb, RunningIn, Running, Handled
  <2> QED BY <2>2 DEF Kept, Promise!Next
<1> QED BY <1>3, <1>4

LEMMA NextKept == QInv /\ [Next]_vars => Kept
<1> SUFFICES ASSUME QInv, [Next]_vars PROVE Kept
  OBVIOUS
<1>1. CASE StartConsuming \/ Recover \/ ReplaceConnection \/ UNCHANGED vars
  BY <1>1
  DEF StartConsuming, Recover, ReplaceConnection, vars, Kept, Handled,
      RunningIn, Running, IsIn
<1> QED
  BY <1>1, PublishKept, DeliverKept, HandlerKept, AckKept, NackKept, LossKept
  DEF Next

(* The queue keeps the promise of AtLeastOnce, whatever is retried, lost   *)
(* or delivered again.                                                     *)
THEOREM PromiseIsKept == Spec => KeepsPromise
<1>1. Init => Promise!Init
  <2> SUFFICES ASSUME Init PROVE Promise!Init
    OBVIOUS
  <2>1. Handled = {}
    BY DEF Init, Handled
  <2>2. RunningIn = [e \in Epochs |-> None]
    BY DEF Init, RunningIn, Running, IsIn
  <2>3. published = <<>> /\ dropped = {} /\ ~(epoch > 0)
    BY DEF Init
  <2> QED BY <2>1, <2>2, <2>3 DEF Promise!Init, Handled, RunningIn, Running
<1>2. QInv /\ [Next]_vars => [Promise!Next]_(Promise!vars)
  BY NextKept DEF Kept, Promise!vars, Handled, RunningIn, Running
<1> QED
  BY <1>1, <1>2, InitQInv, NextQInv, PTL DEF Spec, KeepsPromise, Promise!Spec
=============================================================================
