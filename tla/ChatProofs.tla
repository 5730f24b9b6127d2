----------------------------- MODULE ChatProofs -----------------------------
(***************************************************************************)
(* Theorems about Chat, for any posts of any kind, any number of           *)
(* executions that overlap and whatever goes wrong.                        *)
(***************************************************************************)
EXTENDS Chat, TLAPS

(* The state of one of the queues, as a value.                             *)
cQueue == [sent |-> cSent, done |-> cDone, discarded |-> cDiscarded,
           running |-> cRunning, disturbed |-> cDisturbed]
rQueue == [sent |-> rSent, done |-> rDone, discarded |-> rDiscarded,
           running |-> rRunning, disturbed |-> rDisturbed]

Settled(q) == q.done \cup q.discarded

(* Everything sent before m is settled.                                    *)
InTurn(q, m) ==
    \E i \in 1 .. Len(q.sent) :
        /\ q.sent[i] = m
        /\ \A j \in 1 .. i - 1 : q.sent[j] \in Settled(q)

QueueType(q, Items) ==
    /\ q.sent \in Seq(Items)
    /\ q.done \subseteq Items
    /\ q.discarded \subseteq Items
    /\ q.running \in [Slots -> Items \cup {None}]
    /\ q.disturbed \in BOOLEAN

(* Nothing is sent twice; what is settled or runs is in turn; and until    *)
(* something is lost, one execution runs at a time, and of a message that  *)
(* is not settled.                                                         *)
QueueOK(q) ==
    /\ \A i, j \in 1 .. Len(q.sent) : q.sent[i] = q.sent[j] => i = j
    /\ \A m \in Settled(q) : InTurn(q, m)
    /\ \A s \in Slots : q.running[s] # None => InTurn(q, q.running[s])
    /\ ~q.disturbed =>
          \A s \in Slots :
              q.running[s] # None =>
                  /\ q.running[s] \notin Settled(q)
                  /\ \A t \in Slots : q.running[t] # None => t = s

-----------------------------------------------------------------------------
(* What the steps of AtLeastOnce do to a queue, as a value.                *)
LEMMA InTurnStays ==
    ASSUME NEW Items, NEW q, NEW q2, QueueType(q, Items),
           \/ q2.sent = q.sent
           \/ \E x \in Items : q2.sent = Append(q.sent, x),
           Settled(q) \subseteq Settled(q2),
           NEW m, InTurn(q, m)
    PROVE  InTurn(q2, m)
<1>1. PICK i \in 1 .. Len(q.sent) :
         q.sent[i] = m /\ \A j \in 1 .. i - 1 : q.sent[j] \in Settled(q)
  BY DEF InTurn
<1>2. q.sent \in Seq(Items) /\ Len(q.sent) \in Nat
  BY DEF QueueType
<1>3. /\ i \in 1 .. Len(q2.sent)
      /\ \A j \in 1 .. Len(q.sent) : q2.sent[j] = q.sent[j]
  <2>1. CASE q2.sent = q.sent
    BY <2>1
  <2>2. ASSUME NEW x \in Items, q2.sent = Append(q.sent, x)
        PROVE  /\ i \in 1 .. Len(q2.sent)
               /\ \A j \in 1 .. Len(q.sent) : q2.sent[j] = q.sent[j]
    BY <1>2, <2>2
  <2> QED BY <2>1, <2>2
<1>4. \A j \in 1 .. i - 1 : j \in 1 .. Len(q.sent)
  BY <1>2
<1>5. q2.sent[i] = m /\ \A j \in 1 .. i - 1 : q2.sent[j] \in Settled(q2)
  BY <1>1, <1>3, <1>4
<1> QED BY <1>3, <1>5 DEF InTurn

LEMMA SendOK ==
    ASSUME NEW Items, NEW q, NEW q2, QueueType(q, Items), QueueOK(q),
           NEW m \in Items, \A i \in 1 .. Len(q.sent) : q.sent[i] # m,
           q2.sent = Append(q.sent, m),
           q2.done = q.done, q2.discarded = q.discarded,
           q2.running = q.running, q2.disturbed = q.disturbed
    PROVE  QueueOK(q2)
<1>1. Settled(q2) = Settled(q)
  BY DEF Settled
<1>2. ASSUME NEW x, InTurn(q, x)
      PROVE  InTurn(q2, x)
  BY <1>1, <1>2, InTurnStays
<1>3. \A i, j \in 1 .. Len(q2.sent) : q2.sent[i] = q2.sent[j] => i = j
  <2>1. /\ Len(q.sent) \in Nat
        /\ Len(q2.sent) = Len(q.sent) + 1
        /\ \A i \in 1 .. Len(q.sent) : q2.sent[i] = q.sent[i]
        /\ q2.sent[Len(q.sent) + 1] = m
    BY DEF QueueType
  <2>2. \A i \in 1 .. Len(q2.sent) : i \in 1 .. Len(q.sent) \/ i = Len(q.sent) + 1
    BY <2>1
  <2> QED BY <2>1, <2>2 DEF QueueOK
<1> QED BY <1>1, <1>2, <1>3 DEF QueueOK

LEMMA BeginOK ==
    ASSUME NEW Items, NEW q, NEW q2, QueueType(q, Items), QueueOK(q),
           NEW s \in Slots, NEW m \in Items, InTurn(q, m),
           \/ q.disturbed
           \/ m \notin Settled(q) /\ \A t \in Slots : q.running[t] = None,
           q2.running = [q.running EXCEPT ![s] = m],
           q2.sent = q.sent, q2.done = q.done,
           q2.discarded = q.discarded, q2.disturbed = q.disturbed
    PROVE  QueueOK(q2)
<1>1. Settled(q2) = Settled(q) /\ \A x : InTurn(q2, x) <=> InTurn(q, x)
  BY DEF Settled, InTurn
<1>2. \A t \in Slots : q2.running[t] = IF t = s THEN m ELSE q.running[t]
  BY DEF QueueType
<1> QED BY <1>1, <1>2 DEF QueueOK

LEMMA EndOK ==
    ASSUME NEW Items, NEW q, NEW q2, QueueType(q, Items), QueueOK(q),
           NEW s \in Slots, q.running[s] # None,
           q2.running = [q.running EXCEPT ![s] = None],
           q2.sent = q.sent,
           q2.done \in {q.done, q.done \cup {q.running[s]}},
           q2.discarded \in {q.discarded, q.discarded \cup {q.running[s]}},
           q2.disturbed = q.disturbed
    PROVE  QueueOK(q2)
<1>1. /\ Settled(q) \subseteq Settled(q2)
      /\ Settled(q2) \subseteq Settled(q) \cup {q.running[s]}
  BY DEF Settled
<1>2. ASSUME NEW x, InTurn(q, x)
      PROVE  InTurn(q2, x)
  BY <1>1, <1>2, InTurnStays
<1>3. \A t \in Slots : q2.running[t] = IF t = s THEN None ELSE q.running[t]
  BY DEF QueueType
<1>4. \A x \in Settled(q2) : InTurn(q2, x)
  BY <1>1, <1>2 DEF QueueOK
<1>5. ~q2.disturbed =>
         \A t \in Slots :
             q2.running[t] # None =>
                 /\ q2.running[t] \notin Settled(q2)
                 /\ \A u \in Slots : q2.running[u] # None => u = t
  BY <1>1, <1>3 DEF QueueOK
<1> QED BY <1>2, <1>3, <1>4, <1>5 DEF QueueOK

LEMMA DisturbOK ==
    ASSUME NEW Items, NEW q, NEW q2, QueueType(q, Items), QueueOK(q),
           q2.disturbed = TRUE,
           q2.running \in {q.running, [s \in Slots |-> None]},
           q2.sent = q.sent, q2.done = q.done, q2.discarded = q.discarded
    PROVE  QueueOK(q2)
<1>1. Settled(q2) = Settled(q) /\ \A x : InTurn(q2, x) <=> InTurn(q, x)
  BY DEF Settled, InTurn
<1> QED BY <1>1 DEF QueueOK

(* What is settled was sent before what runs, until something is lost.     *)
LEMMA SettledFirst ==
    ASSUME NEW Items, NEW q, QueueType(q, Items), QueueOK(q), ~q.disturbed,
           NEW s \in Slots, q.running[s] # None,
           NEW m \in Settled(q)
    PROVE  \E l \in 1 .. Len(q.sent) : \E k \in 1 .. l - 1 :
              q.sent[k] = m /\ q.sent[l] = q.running[s]
<1>1. InTurn(q, m) /\ InTurn(q, q.running[s]) /\ q.running[s] \notin Settled(q)
  BY DEF QueueOK
<1>2. PICK k \in 1 .. Len(q.sent) :
         q.sent[k] = m /\ \A j \in 1 .. k - 1 : q.sent[j] \in Settled(q)
  BY <1>1 DEF InTurn
<1>3. PICK l \in 1 .. Len(q.sent) :
         /\ q.sent[l] = q.running[s]
         /\ \A j \in 1 .. l - 1 : q.sent[j] \in Settled(q)
  BY <1>1 DEF InTurn
<1>4. Len(q.sent) \in Nat
  BY DEF QueueType
<1>5. k # l
  BY <1>1, <1>2, <1>3
<1>6. ~(l < k)
  <2>1. l < k => l \in 1 .. k - 1
    BY <1>4
  <2> QED BY <1>1, <1>2, <1>3, <2>1
<1>7. k \in 1 .. l - 1
  BY <1>4, <1>5, <1>6
<1> QED BY <1>2, <1>3, <1>7

-----------------------------------------------------------------------------
(* Chat uses both queues as AtLeastOnce has them.                          *)
LEMMA CommandSteps ==
    ASSUME Next
    PROVE  C!Next \/ UNCHANGED commandQueue
<1>1. ASSUME NEW p \in Posts, PublishPost(p)
      PROVE  C!Next \/ UNCHANGED commandQueue
  BY <1>1 DEF PublishPost, Commands, C!Next
<1>2. ASSUME NEW s \in Slots, BotNext(s)
      PROVE  C!Next \/ UNCHANGED commandQueue
  <2>1. ASSUME NEW p \in Commands, BeginCommand(s, p)
        PROVE  C!Next
    BY <2>1 DEF BeginCommand, C!Next
  <2>2. BotReturns(s) \/ BotThrows(s) => C!Next
    BY DEF BotReturns, BotThrows, C!Next
  <2> QED BY <1>2, <2>1, <2>2 DEF BotNext, BotReplies
<1>3. ASSUME NEW s \in Slots, WebNext(s)
      PROVE  UNCHANGED commandQueue
  BY <1>3 DEF WebNext, BeginReply, StoreReply, ShowReply, FailReply, ReplyFails
<1>4. CASE ConnectionLost \/ BotStops \/ WebStops
  BY <1>4 DEF ConnectionLost, BotStops, WebStops, C!Next
<1> QED
  BY <1>1, <1>2, <1>3, <1>4
  DEF Next, PostNext, StorePost, ShowPost, RefusePost, BroadcastFails

LEMMA ReplySteps ==
    ASSUME Next, cRunning \in [Slots -> Commands \cup {None}]
    PROVE  R!Next \/ UNCHANGED replyQueue
<1>1. ASSUME NEW p \in Posts, PostNext(p)
      PROVE  UNCHANGED replyQueue
  BY <1>1
  DEF PostNext, StorePost, PublishPost, ShowPost, RefusePost, BroadcastFails
<1>2. ASSUME NEW s \in Slots, BotNext(s)
      PROVE  R!Next \/ UNCHANGED replyQueue
  <2>1. ASSUME BotReplies(s)
        PROVE  R!Next \/ UNCHANGED replyQueue
    <3>1. ASSUME NEW n \in 1 .. MaxReplies, R!Send(<<cRunning[s], n>>)
          PROVE  R!Next
      <4>1. PICK r : r = <<cRunning[s], n>>
        OBVIOUS
      <4>2. r \in Replies
        BY <2>1, <4>1 DEF BotReplies, Replies
      <4>3. R!Send(r)
        BY <3>1, <4>1 DEF R!Send
      <4> QED BY <4>2, <4>3 DEF R!Next
    <3> QED BY <2>1, <3>1 DEF BotReplies
  <2> QED
    BY <1>2, <2>1 DEF BotNext, BeginCommand, BotReturns, BotThrows
<1>3. ASSUME NEW s \in Slots, WebNext(s)
      PROVE  R!Next \/ UNCHANGED replyQueue
  <2>1. ASSUME NEW r \in Replies, BeginReply(s, r)
        PROVE  R!Next
    BY <2>1 DEF BeginReply, R!Next
  <2>2. ShowReply(s) \/ FailReply(s) => R!Next
    BY DEF ShowReply, FailReply, ReplyFails, R!Next
  <2> QED BY <1>3, <2>1, <2>2 DEF WebNext, StoreReply
<1>4. CASE ConnectionLost \/ BotStops \/ WebStops
  BY <1>4 DEF ConnectionLost, BotStops, WebStops, R!Next
<1> QED BY <1>1, <1>2, <1>3, <1>4 DEF Next

(* The types of the queues, and their order, after a step of each.         *)
LEMMA CommandQueueOK ==
    ASSUME QueueType(cQueue, Commands), C!Next \/ UNCHANGED commandQueue
    PROVE  /\ QueueType(cQueue, Commands)'
           /\ QueueOK(cQueue) => QueueOK(cQueue)'
<1>1. PICK q, q2 : q = cQueue /\ q2 = cQueue'
  OBVIOUS
<1>2. /\ q.sent = cSent /\ q2.sent = cSent'
      /\ q.done = cDone /\ q2.done = cDone'
      /\ q.discarded = cDiscarded /\ q2.discarded = cDiscarded'
      /\ q.running = cRunning /\ q2.running = cRunning'
      /\ q.disturbed = cDisturbed /\ q2.disturbed = cDisturbed'
  BY <1>1 DEF cQueue
<1>3. QueueType(q, Commands)
  BY <1>1
<1>4. ASSUME NEW m \in Commands, C!Send(m)
      PROVE  QueueType(q2, Commands) /\ (QueueOK(q) => QueueOK(q2))
  <2>1. \A i \in 1 .. Len(q.sent) : q.sent[i] # m
    BY <1>2, <1>4 DEF C!Send, C!Sent
  <2>2. q2.sent = Append(q.sent, m) /\ q2.done = q.done
        /\ q2.discarded = q.discarded /\ q2.running = q.running
        /\ q2.disturbed = q.disturbed
    BY <1>2, <1>4 DEF C!Send
  <2>3. QueueType(q2, Commands)
    BY <1>3, <2>2 DEF QueueType
  <2> QED BY <1>3, <2>1, <2>2, <2>3, SendOK
<1>5. ASSUME NEW s \in Slots, NEW m \in Commands, C!Begin(s, m)
      PROVE  QueueType(q2, Commands) /\ (QueueOK(q) => QueueOK(q2))
  <2>1. /\ q2.running = [q.running EXCEPT ![s] = m]
        /\ q2.sent = q.sent /\ q2.done = q.done
        /\ q2.discarded = q.discarded /\ q2.disturbed = q.disturbed
        /\ InTurn(q, m)
        /\ \/ q.disturbed
           \/ m \notin Settled(q) /\ \A t \in Slots : q.running[t] = None
    BY <1>2, <1>5 DEF C!Begin, C!IsNext, InTurn, Settled
  <2>2. QueueType(q2, Commands)
    BY <1>3, <2>1 DEF QueueType
  <2> QED BY <1>3, <2>1, <2>2, BeginOK
<1>6. ASSUME NEW s \in Slots, C!Handle(s) \/ C!Fail(s) \/ C!GiveUp(s)
      PROVE  QueueType(q2, Commands) /\ (QueueOK(q) => QueueOK(q2))
  <2>1. /\ q.running[s] # None
        /\ q2.running = [q.running EXCEPT ![s] = None]
        /\ q2.sent = q.sent
        /\ q2.done \in {q.done, q.done \cup {q.running[s]}}
        /\ q2.discarded \in {q.discarded, q.discarded \cup {q.running[s]}}
        /\ q2.disturbed = q.disturbed
    BY <1>2, <1>6 DEF C!Handle, C!Fail, C!GiveUp
  <2>2. q.running[s] \in Commands
    BY <1>3, <2>1 DEF QueueType
  <2>3. QueueType(q2, Commands)
    BY <1>3, <2>1, <2>2 DEF QueueType
  <2> QED BY <1>3, <2>1, <2>3, EndOK
<1>7. ASSUME C!Disturb
      PROVE  QueueType(q2, Commands) /\ (QueueOK(q) => QueueOK(q2))
  <2>1. /\ q2.disturbed = TRUE
        /\ q2.running \in {q.running, [s \in Slots |-> None]}
        /\ q2.sent = q.sent /\ q2.done = q.done /\ q2.discarded = q.discarded
    BY <1>2, <1>7 DEF C!Disturb
  <2>2. QueueType(q2, Commands)
    BY <1>3, <2>1 DEF QueueType
  <2> QED BY <1>3, <2>1, <2>2, DisturbOK
<1>8. ASSUME UNCHANGED commandQueue
      PROVE  QueueType(q2, Commands) /\ (QueueOK(q) => QueueOK(q2))
  <2>1. q2 = q
    BY <1>1, <1>8 DEF cQueue, commandQueue
  <2> QED BY <1>3, <2>1
<1>9. QueueType(q2, Commands) /\ (QueueOK(q) => QueueOK(q2))
  BY <1>4, <1>5, <1>6, <1>7, <1>8 DEF C!Next
<1>10. QueueType(cQueue, Commands)'
  BY <1>1, <1>2, <1>9 DEF QueueType, cQueue
<1>11. QueueOK(q2) => QueueOK(cQueue)'
  BY <1>2 DEF QueueOK, InTurn, Settled, cQueue
<1> QED BY <1>1, <1>9, <1>10, <1>11

LEMMA ReplyQueueOK ==
    ASSUME QueueType(rQueue, Replies), R!Next \/ UNCHANGED replyQueue
    PROVE  /\ QueueType(rQueue, Replies)'
           /\ QueueOK(rQueue) => QueueOK(rQueue)'
<1>1. PICK q, q2 : q = rQueue /\ q2 = rQueue'
  OBVIOUS
<1>2. /\ q.sent = rSent /\ q2.sent = rSent'
      /\ q.done = rDone /\ q2.done = rDone'
      /\ q.discarded = rDiscarded /\ q2.discarded = rDiscarded'
      /\ q.running = rRunning /\ q2.running = rRunning'
      /\ q.disturbed = rDisturbed /\ q2.disturbed = rDisturbed'
  BY <1>1 DEF rQueue
<1>3. QueueType(q, Replies)
  BY <1>1
<1>4. ASSUME NEW r \in Replies, R!Send(r)
      PROVE  QueueType(q2, Replies) /\ (QueueOK(q) => QueueOK(q2))
  <2>1. \A i \in 1 .. Len(q.sent) : q.sent[i] # r
    BY <1>2, <1>4 DEF R!Send, R!Sent
  <2>2. q2.sent = Append(q.sent, r) /\ q2.done = q.done
        /\ q2.discarded = q.discarded /\ q2.running = q.running
        /\ q2.disturbed = q.disturbed
    BY <1>2, <1>4 DEF R!Send
  <2>3. QueueType(q2, Replies)
    BY <1>3, <2>2 DEF QueueType
  <2> QED BY <1>3, <2>1, <2>2, <2>3, SendOK
<1>5. ASSUME NEW s \in Slots, NEW r \in Replies, R!Begin(s, r)
      PROVE  QueueType(q2, Replies) /\ (QueueOK(q) => QueueOK(q2))
  <2>1. /\ q2.running = [q.running EXCEPT ![s] = r]
        /\ q2.sent = q.sent /\ q2.done = q.done
        /\ q2.discarded = q.discarded /\ q2.disturbed = q.disturbed
        /\ InTurn(q, r)
        /\ \/ q.disturbed
           \/ r \notin Settled(q) /\ \A t \in Slots : q.running[t] = None
    BY <1>2, <1>5 DEF R!Begin, R!IsNext, InTurn, Settled
  <2>2. QueueType(q2, Replies)
    BY <1>3, <2>1 DEF QueueType
  <2> QED BY <1>3, <2>1, <2>2, BeginOK
<1>6. ASSUME NEW s \in Slots, R!Handle(s) \/ R!Fail(s) \/ R!GiveUp(s)
      PROVE  QueueType(q2, Replies) /\ (QueueOK(q) => QueueOK(q2))
  <2>1. /\ q.running[s] # None
        /\ q2.running = [q.running EXCEPT ![s] = None]
        /\ q2.sent = q.sent
        /\ q2.done \in {q.done, q.done \cup {q.running[s]}}
        /\ q2.discarded \in {q.discarded, q.discarded \cup {q.running[s]}}
        /\ q2.disturbed = q.disturbed
    BY <1>2, <1>6 DEF R!Handle, R!Fail, R!GiveUp
  <2>2. q.running[s] \in Replies
    BY <1>3, <2>1 DEF QueueType
  <2>3. QueueType(q2, Replies)
    BY <1>3, <2>1, <2>2 DEF QueueType
  <2> QED BY <1>3, <2>1, <2>3, EndOK
<1>7. ASSUME R!Disturb
      PROVE  QueueType(q2, Replies) /\ (QueueOK(q) => QueueOK(q2))
  <2>1. /\ q2.disturbed = TRUE
        /\ q2.running \in {q.running, [s \in Slots |-> None]}
        /\ q2.sent = q.sent /\ q2.done = q.done /\ q2.discarded = q.discarded
    BY <1>2, <1>7 DEF R!Disturb
  <2>2. QueueType(q2, Replies)
    BY <1>3, <2>1 DEF QueueType
  <2> QED BY <1>3, <2>1, <2>2, DisturbOK
<1>8. ASSUME UNCHANGED replyQueue
      PROVE  QueueType(q2, Replies) /\ (QueueOK(q) => QueueOK(q2))
  <2>1. q2 = q
    BY <1>1, <1>8 DEF rQueue, replyQueue
  <2> QED BY <1>3, <2>1
<1>9. QueueType(q2, Replies) /\ (QueueOK(q) => QueueOK(q2))
  BY <1>4, <1>5, <1>6, <1>7, <1>8 DEF R!Next
<1>10. QueueType(rQueue, Replies)'
  BY <1>1, <1>2, <1>9 DEF QueueType, rQueue
<1>11. QueueOK(q2) => QueueOK(rQueue)'
  BY <1>2 DEF QueueOK, InTurn, Settled, rQueue
<1> QED BY <1>1, <1>9, <1>10, <1>11

-----------------------------------------------------------------------------
(* Types.                                                                  *)
LEMMA QueuesTyped ==
    TypeOK <=>
        /\ request \in [Posts -> SUBSET {"store", "publish", "show", "error"}]
        /\ log \in Seq(Message)
        /\ shown \in Seq(Message)
        /\ bot \in [Slots -> BOOLEAN]
        /\ web \in [Slots -> BOOLEAN]
        /\ QueueType(cQueue, Commands)
        /\ QueueType(rQueue, Replies)
        /\ \A s \in Slots : /\ bot[s] => cRunning[s] # None
                            /\ web[s] => rRunning[s] # None
BY DEF TypeOK, QueueType, cQueue, rQueue

LEMMA AppendMessage ==
    ASSUME NEW seq \in Seq(Message), NEW by \in {"user", "bot"},
           NEW p \in Posts
    PROVE  Append(seq, [by |-> by, of |-> p]) \in Seq(Message)
<1>1. [by |-> by, of |-> p] \in Message
  BY DEF Message
<1> QED BY <1>1

LEMMA NextType ==
    ASSUME TypeOK, Next
    PROVE  TypeOK'
<1>1. /\ request \in [Posts -> SUBSET {"store", "publish", "show", "error"}]
      /\ log \in Seq(Message) /\ shown \in Seq(Message)
      /\ bot \in [Slots -> BOOLEAN] /\ web \in [Slots -> BOOLEAN]
      /\ cRunning \in [Slots -> Commands \cup {None}]
      /\ rRunning \in [Slots -> Replies \cup {None}]
      /\ \A s \in Slots : /\ bot[s] => cRunning[s] # None
                          /\ web[s] => rRunning[s] # None
  BY DEF TypeOK
<1>2. QueueType(cQueue, Commands)' /\ QueueType(rQueue, Replies)'
  BY <1>1, QueuesTyped, CommandSteps, ReplySteps, CommandQueueOK, ReplyQueueOK
<1>3. request' \in [Posts -> SUBSET {"store", "publish", "show", "error"}]
  <2>1. ASSUME NEW p \in Posts, PostNext(p)
        PROVE  request' \in [Posts -> SUBSET {"store", "publish", "show", "error"}]
    <3>1. PICK step \in {"store", "publish", "show", "error"} :
             request' = [request EXCEPT ![p] = @ \cup {step}]
      BY <2>1 DEF PostNext, StorePost, PublishPost, ShowPost, RefusePost,
                  BroadcastFails, Takes
    <3> QED BY <1>1, <3>1
  <2>2. CASE WebStops
    BY <1>1, <2>2 DEF WebStops
  <2>3. CASE request' = request
    BY <1>1, <2>3
  <2> QED
    BY <2>1, <2>2, <2>3
    DEF Next, BotNext, WebNext, BeginCommand, BotReplies, BotReturns, BotThrows,
        BeginReply, StoreReply, ShowReply, FailReply, ReplyFails, ConnectionLost, BotStops
<1>4. ASSUME NEW s \in Slots, rRunning[s] # None
      PROVE  rRunning[s] \in Replies /\ rRunning[s][1] \in Posts
  BY <1>1, <1>4 DEF Replies, Commands
<1>5. log' \in Seq(Message)
  <2>1. ASSUME NEW p \in Posts, PostNext(p)
        PROVE  log' \in Seq(Message)
    BY <1>1, <2>1, AppendMessage
    DEF PostNext, StorePost, PublishPost, ShowPost, RefusePost,
        BroadcastFails, Store
  <2>2. ASSUME NEW s \in Slots, WebNext(s)
        PROVE  log' \in Seq(Message)
    <3>1. CASE StoreReply(s)
      BY <1>1, <1>4, <3>1, AppendMessage DEF StoreReply, Store
    <3> QED
      BY <1>1, <2>2, <3>1
      DEF WebNext, BeginReply, ShowReply, FailReply, ReplyFails
  <2>3. CASE log' = log
    BY <1>1, <2>3
  <2> QED
    BY <2>1, <2>2, <2>3
    DEF Next, BotNext, BeginCommand, BotReplies, BotReturns, BotThrows,
        ConnectionLost, BotStops, WebStops
<1>6. shown' \in Seq(Message)
  <2>1. ASSUME NEW p \in Posts, PostNext(p)
        PROVE  shown' \in Seq(Message)
    BY <1>1, <2>1, AppendMessage
    DEF PostNext, StorePost, PublishPost, ShowPost, RefusePost,
        BroadcastFails, Show
  <2>2. ASSUME NEW s \in Slots, WebNext(s)
        PROVE  shown' \in Seq(Message)
    <3>1. CASE ShowReply(s)
      BY <1>1, <1>4, <3>1, AppendMessage DEF ShowReply, Show
    <3> QED
      BY <1>1, <2>2, <3>1
      DEF WebNext, BeginReply, StoreReply, FailReply, ReplyFails
  <2>3. CASE shown' = shown
    BY <1>1, <2>3
  <2> QED
    BY <2>1, <2>2, <2>3
    DEF Next, BotNext, BeginCommand, BotReplies, BotReturns, BotThrows,
        ConnectionLost, BotStops, WebStops
<1>7. /\ bot' \in [Slots -> BOOLEAN]
      /\ \A s \in Slots : bot'[s] => cRunning'[s] # None
  <2>1. ASSUME NEW s \in Slots, BotNext(s)
        PROVE  /\ bot' \in [Slots -> BOOLEAN]
               /\ \A t \in Slots : bot'[t] => cRunning'[t] # None
    <3>1. ASSUME NEW p \in Commands, BeginCommand(s, p)
          PROVE  /\ bot' = bot /\ p # None
                 /\ cRunning' = [cRunning EXCEPT ![s] = p]
      BY <3>1, NoneAssumption DEF BeginCommand, C!Begin, Commands
    <3>2. CASE BotReplies(s)
      BY <1>1, <3>2 DEF BotReplies, commandQueue
    <3>3. CASE BotReturns(s) \/ BotThrows(s)
      <4>1. /\ bot' = [bot EXCEPT ![s] = FALSE]
            /\ cRunning' = [cRunning EXCEPT ![s] = None]
        BY <3>3 DEF BotReturns, BotThrows, Ended, C!Handle, C!Fail, C!GiveUp
      <4> QED BY <1>1, <4>1
    <3> QED BY <1>1, <2>1, <3>1, <3>2, <3>3 DEF BotNext
  <2>2. CASE BotStops
    BY <2>2 DEF BotStops, AllEnded
  <2>3. CASE bot' = bot /\ cRunning' = cRunning
    BY <1>1, <2>3
  <2>4. ASSUME NEW p \in Posts, PostNext(p)
        PROVE  bot' = bot /\ cRunning' = cRunning
    BY <2>4 DEF PostNext, StorePost, PublishPost, ShowPost, RefusePost,
                BroadcastFails, commandQueue, C!Send
  <2>5. ASSUME NEW s \in Slots, WebNext(s)
        PROVE  bot' = bot /\ cRunning' = cRunning
    BY <2>5 DEF WebNext, BeginReply, StoreReply, ShowReply, FailReply, ReplyFails,
                commandQueue
  <2>6. ConnectionLost \/ WebStops => bot' = bot /\ cRunning' = cRunning
    BY DEF ConnectionLost, WebStops, commandQueue
  <2> QED BY <2>1, <2>2, <2>3, <2>4, <2>5, <2>6 DEF Next
<1>8. /\ web' \in [Slots -> BOOLEAN]
      /\ \A s \in Slots : web'[s] => rRunning'[s] # None
  <2>1. ASSUME NEW s \in Slots, WebNext(s)
        PROVE  /\ web' \in [Slots -> BOOLEAN]
               /\ \A t \in Slots : web'[t] => rRunning'[t] # None
    <3>1. ASSUME NEW r \in Replies, BeginReply(s, r)
          PROVE  /\ web' = web /\ r # None
                 /\ rRunning' = [rRunning EXCEPT ![s] = r]
      BY <3>1, NoneAssumption DEF BeginReply, R!Begin
    <3>2. CASE StoreReply(s)
      BY <1>1, <3>2 DEF StoreReply, replyQueue
    <3>3. CASE ShowReply(s) \/ FailReply(s)
      <4>1. /\ web' = [web EXCEPT ![s] = FALSE]
            /\ rRunning' = [rRunning EXCEPT ![s] = None]
        BY <3>3 DEF ShowReply, FailReply, ReplyFails, Ended, R!Handle, R!Fail, R!GiveUp
      <4> QED BY <1>1, <4>1
    <3> QED BY <1>1, <2>1, <3>1, <3>2, <3>3 DEF WebNext
  <2>2. CASE WebStops
    BY <2>2 DEF WebStops, AllEnded
  <2>3. CASE web' = web /\ rRunning' = rRunning
    BY <1>1, <2>3
  <2>4. ASSUME NEW p \in Posts, PostNext(p)
        PROVE  web' = web /\ rRunning' = rRunning
    BY <2>4 DEF PostNext, StorePost, PublishPost, ShowPost, RefusePost,
                BroadcastFails, replyQueue
  <2>5. ASSUME NEW s \in Slots, BotNext(s)
        PROVE  web' = web /\ rRunning' = rRunning
    BY <2>5 DEF BotNext, BeginCommand, BotReplies, BotReturns, BotThrows,
                replyQueue, R!Send
  <2>6. ConnectionLost \/ BotStops => web' = web /\ rRunning' = rRunning
    BY DEF ConnectionLost, BotStops, replyQueue
  <2> QED BY <2>1, <2>2, <2>3, <2>4, <2>5, <2>6 DEF Next
<1> QED
  BY <1>2, <1>3, <1>5, <1>6, <1>7, <1>8 DEF TypeOK, QueueType, cQueue, rQueue

-----------------------------------------------------------------------------
(* A post is in the table of messages before it is a command, and it is    *)
(* shown by a request that remembers it.                                   *)
RequestsOK ==
    /\ \A p \in Posts :
          "store" \in request[p] =>
              \E i \in 1 .. Len(log) : log[i] = [by |-> "user", of |-> p]
    /\ \A k \in 1 .. Len(cSent) : "store" \in request[cSent[k]]
    /\ \A i \in 1 .. Len(shown) :
          shown[i].by = "user" => "show" \in request[shown[i].of]

(* A reply is to a command that was published.                             *)
RepliesHaveCommands ==
    \A k \in 1 .. Len(rSent) : rSent[k][1] \in C!Sent

(* Until the bot loses something, a command has one reply at most, which   *)
(* its execution has published, and the replies are in the order of their  *)
(* commands.                                                               *)
OneReplyEach ==
    ~cDisturbed =>
        \A k \in 1 .. Len(rSent) :
            /\ rSent[k][2] = 1
            /\ \/ rSent[k][1] \in cDone
               \/ \E s \in Slots : cRunning[s] = rSent[k][1] /\ bot[s]

RepliesFollow ==
    ~cDisturbed =>
        \A b \in 1 .. Len(rSent) : \A a \in 1 .. b - 1 :
            \E l \in 1 .. Len(cSent) : \E k \in 1 .. l - 1 :
                cSent[k] = rSent[a][1] /\ cSent[l] = rSent[b][1]

(* Until anything is lost, a reply that is shown has been handled, and     *)
(* replies are shown in the order they were published in.                  *)
ShownIsHandled ==
    ~cDisturbed /\ ~rDisturbed =>
        \A i \in 1 .. Len(shown) :
            shown[i].by = "bot" => <<shown[i].of, 1>> \in rDone

ShownFollow ==
    ~cDisturbed /\ ~rDisturbed =>
        \A j \in 1 .. Len(shown) : \A i \in 1 .. j - 1 :
            shown[i].by = "bot" /\ shown[j].by = "bot" =>
                \E b \in 1 .. Len(rSent) : \E a \in 1 .. b - 1 :
                    /\ rSent[a] = <<shown[i].of, 1>>
                    /\ rSent[b] = <<shown[j].of, 1>>

(* What each action does to the sequences, and what never goes back.       *)
LEMMA Appended ==
    ASSUME NEW S, NEW seq \in Seq(S), NEW x \in S, NEW longer,
           longer = Append(seq, x)
    PROVE  /\ Len(seq) \in Nat /\ Len(longer) = Len(seq) + 1
           /\ \A i \in 1 .. Len(seq) :
                 i \in 1 .. Len(longer) /\ longer[i] = seq[i]
           /\ longer[Len(seq) + 1] = x
           /\ \A i \in 1 .. Len(longer) :
                 i \in 1 .. Len(seq) \/ i = Len(seq) + 1
OBVIOUS

LEMMA SameLast ==
    ASSUME NEW S, NEW seq \in Seq(S), NEW x \in S, NEW y \in S,
           Append(seq, x) = Append(seq, y)
    PROVE  x = y
<1>1. Append(seq, x)[Len(seq) + 1] = x /\ Append(seq, y)[Len(seq) + 1] = y
  OBVIOUS
<1> QED BY <1>1

LEMMA LogStep ==
    ASSUME TypeOK, Next
    PROVE  \/ log' = log
           \/ \E p \in Posts :
                 StorePost(p) /\ log' = Append(log, [by |-> "user", of |-> p])
           \/ \E s \in Slots :
                 /\ StoreReply(s)
                 /\ rRunning[s] # None
                 /\ rRunning[s] \in Replies
                 /\ log' = Append(log, [by |-> "bot", of |-> rRunning[s][1]])
<1>1. ASSUME NEW p \in Posts, PostNext(p), log' # log
      PROVE  StorePost(p) /\ log' = Append(log, [by |-> "user", of |-> p])
  BY <1>1 DEF PostNext, StorePost, PublishPost, ShowPost, RefusePost,
              BroadcastFails, Store
<1>2. ASSUME NEW s \in Slots, WebNext(s), log' # log
      PROVE  /\ StoreReply(s) /\ rRunning[s] # None /\ rRunning[s] \in Replies
             /\ log' = Append(log, [by |-> "bot", of |-> rRunning[s][1]])
  BY <1>2 DEF WebNext, BeginReply, StoreReply, ShowReply, FailReply, ReplyFails,
              Store, TypeOK
<1>3. ASSUME NEW s \in Slots, BotNext(s)
      PROVE  log' = log
  BY <1>3 DEF BotNext, BeginCommand, BotReplies, BotReturns, BotThrows
<1> QED BY <1>1, <1>2, <1>3 DEF Next, ConnectionLost, BotStops, WebStops

LEMMA ShownStep ==
    ASSUME TypeOK, Next
    PROVE  \/ shown' = shown
           \/ \E p \in Posts :
                 ShowPost(p) /\ shown' = Append(shown, [by |-> "user", of |-> p])
           \/ \E s \in Slots :
                 /\ ShowReply(s)
                 /\ rRunning[s] # None
                 /\ rRunning[s] \in Replies
                 /\ shown' = Append(shown, [by |-> "bot", of |-> rRunning[s][1]])
<1>1. ASSUME NEW p \in Posts, PostNext(p), shown' # shown
      PROVE  ShowPost(p) /\ shown' = Append(shown, [by |-> "user", of |-> p])
  BY <1>1 DEF PostNext, StorePost, PublishPost, ShowPost, RefusePost,
              BroadcastFails, Show
<1>2. ASSUME NEW s \in Slots, WebNext(s), shown' # shown
      PROVE  /\ ShowReply(s) /\ rRunning[s] # None /\ rRunning[s] \in Replies
             /\ shown' = Append(shown, [by |-> "bot", of |-> rRunning[s][1]])
  BY <1>2 DEF WebNext, BeginReply, StoreReply, ShowReply, FailReply, ReplyFails,
              Show, TypeOK
<1>3. ASSUME NEW s \in Slots, BotNext(s)
      PROVE  shown' = shown
  BY <1>3 DEF BotNext, BeginCommand, BotReplies, BotReturns, BotThrows
<1> QED BY <1>1, <1>2, <1>3 DEF Next, ConnectionLost, BotStops, WebStops

LEMMA CommandSentStep ==
    ASSUME Next
    PROVE  \/ cSent' = cSent
           \/ \E p \in Commands :
                 PublishPost(p) /\ cSent' = Append(cSent, p)
<1>1. ASSUME NEW p \in Posts, PostNext(p), cSent' # cSent
      PROVE  p \in Commands /\ PublishPost(p) /\ cSent' = Append(cSent, p)
  BY <1>1 DEF PostNext, StorePost, PublishPost, ShowPost, RefusePost,
              BroadcastFails, commandQueue, C!Send, Commands
<1>2. ASSUME NEW s \in Slots, BotNext(s) \/ WebNext(s)
      PROVE  cSent' = cSent
  BY <1>2 DEF BotNext, BeginCommand, BotReplies, BotReturns, BotThrows, WebNext,
              BeginReply, StoreReply, ShowReply, FailReply, ReplyFails, commandQueue,
              C!Begin, C!Handle, C!Fail, C!GiveUp
<1>3. ConnectionLost \/ BotStops \/ WebStops => cSent' = cSent
  BY DEF ConnectionLost, BotStops, WebStops, commandQueue, C!Disturb
<1> QED BY <1>1, <1>2, <1>3 DEF Next

LEMMA ReplySentStep ==
    ASSUME TypeOK, Next
    PROVE  \/ rSent' = rSent
           \/ \E s \in Slots, n \in 1 .. MaxReplies :
                 /\ BotReplies(s)
                 /\ cRunning[s] # None
                 /\ <<cRunning[s], n>> \in Replies
                 /\ RepliesTo(cRunning[s]) = 1 .. n - 1
                 /\ rSent' = Append(rSent, <<cRunning[s], n>>)
<1>1. ASSUME NEW p \in Posts, PostNext(p)
      PROVE  rSent' = rSent
  BY <1>1 DEF PostNext, StorePost, PublishPost, ShowPost, RefusePost,
              BroadcastFails, replyQueue
<1>2. ASSUME NEW s \in Slots, BotReplies(s), rSent' # rSent
      PROVE  \E n \in 1 .. MaxReplies :
                 /\ cRunning[s] # None
                 /\ <<cRunning[s], n>> \in Replies
                 /\ RepliesTo(cRunning[s]) = 1 .. n - 1
                 /\ rSent' = Append(rSent, <<cRunning[s], n>>)
  BY <1>2 DEF BotReplies, replyQueue, R!Send, Replies, TypeOK
<1>3. ASSUME NEW s \in Slots, BotNext(s), ~BotReplies(s)
      PROVE  rSent' = rSent
  BY <1>3 DEF BotNext, BeginCommand, BotReturns, BotThrows, replyQueue
<1>4. ASSUME NEW s \in Slots, WebNext(s)
      PROVE  rSent' = rSent
  BY <1>4 DEF WebNext, BeginReply, StoreReply, ShowReply, FailReply, ReplyFails,
              replyQueue,
              R!Begin, R!Handle, R!Fail, R!GiveUp
<1>5. ConnectionLost \/ BotStops \/ WebStops => rSent' = rSent
  BY DEF ConnectionLost, BotStops, WebStops, replyQueue, R!Disturb
<1> QED BY <1>1, <1>2, <1>3, <1>4, <1>5 DEF Next

(* What is done stays done, what was disturbed stays so.                   *)
LEMMA QueuesGrow ==
    ASSUME TypeOK, Next
    PROVE  /\ cDone \subseteq cDone' /\ rDone \subseteq rDone'
           /\ ~cDisturbed' => ~cDisturbed
           /\ ~rDisturbed' => ~rDisturbed
           /\ \A k \in 1 .. Len(cSent) :
                 k \in 1 .. Len(cSent') /\ cSent'[k] = cSent[k]
           /\ \A k \in 1 .. Len(rSent) :
                 k \in 1 .. Len(rSent') /\ rSent'[k] = rSent[k]
<1>1. /\ cSent \in Seq(Commands) /\ rSent \in Seq(Replies)
      /\ cRunning \in [Slots -> Commands \cup {None}]
  BY DEF TypeOK
<1>2. cDone \subseteq cDone' /\ (~cDisturbed' => ~cDisturbed)
  <2>1. cDone \subseteq cDone'
    BY CommandSteps DEF C!Next, C!Send, C!Begin, C!Handle, C!Fail, C!GiveUp, C!Disturb,
                commandQueue
  <2>2. cDisturbed' = cDisturbed \/ cDisturbed' = TRUE
    BY CommandSteps, Zenon
    DEF C!Next, C!Send, C!Begin, C!Handle, C!Fail, C!GiveUp, C!Disturb,
        commandQueue
  <2> QED BY <2>1, <2>2
<1>3. rDone \subseteq rDone' /\ (~rDisturbed' => ~rDisturbed)
  <2>1. rDone \subseteq rDone'
    BY <1>1, ReplySteps
    DEF R!Next, R!Send, R!Begin, R!Handle, R!Fail, R!GiveUp, R!Disturb,
        replyQueue
  <2>2. rDisturbed' = rDisturbed \/ rDisturbed' = TRUE
    BY <1>1, ReplySteps, Zenon
    DEF R!Next, R!Send, R!Begin, R!Handle, R!Fail, R!GiveUp, R!Disturb,
        replyQueue
  <2> QED BY <2>1, <2>2
<1>4. \A k \in 1 .. Len(cSent) : k \in 1 .. Len(cSent') /\ cSent'[k] = cSent[k]
  <2>1. ASSUME NEW p \in Commands, cSent' = Append(cSent, p)
        PROVE  \A k \in 1 .. Len(cSent) :
                  k \in 1 .. Len(cSent') /\ cSent'[k] = cSent[k]
    BY <1>1, <2>1, Appended
  <2> QED BY <2>1, CommandSentStep
<1>5. \A k \in 1 .. Len(rSent) : k \in 1 .. Len(rSent') /\ rSent'[k] = rSent[k]
  <2>1. ASSUME NEW r \in Replies, rSent' = Append(rSent, r)
        PROVE  \A k \in 1 .. Len(rSent) :
                  k \in 1 .. Len(rSent') /\ rSent'[k] = rSent[k]
    BY <1>1, <2>1, Appended
  <2> QED BY <2>1, ReplySentStep
<1> QED BY <1>2, <1>3, <1>4, <1>5

LEMMA RequestStep ==
    ASSUME TypeOK, Next, NEW p \in Posts
    PROVE  /\ request[p] \subseteq request'[p]
           /\ "store" \in request'[p] => "store" \in request[p] \/ StorePost(p)
<1>1. request \in [Posts -> SUBSET {"store", "publish", "show", "error"}]
  BY DEF TypeOK
<1>2. ASSUME NEW o \in Posts, PostNext(o)
      PROVE  /\ request[p] \subseteq request'[p]
             /\ "store" \in request'[p] => "store" \in request[p] \/ StorePost(p)
  BY <1>1, <1>2
  DEF PostNext, StorePost, PublishPost, ShowPost, RefusePost, BroadcastFails,
      Takes
<1>3. CASE WebStops
  BY <1>1, <1>3 DEF WebStops
<1>4. ASSUME NEW s \in Slots, BotNext(s) \/ WebNext(s)
      PROVE  request' = request
  BY <1>4 DEF BotNext, BeginCommand, BotReplies, BotReturns, BotThrows, WebNext,
              BeginReply, StoreReply, ShowReply, FailReply, ReplyFails
<1> QED BY <1>2, <1>3, <1>4 DEF Next, ConnectionLost, BotStops

-----------------------------------------------------------------------------
(* One lemma for each conjunct of the invariant.                           *)
LEMMA NextRequestsOK ==
    ASSUME TypeOK, RequestsOK, Next
    PROVE  RequestsOK'
<1>1. /\ log \in Seq(Message) /\ shown \in Seq(Message)
      /\ cSent \in Seq(Commands)
      /\ request \in [Posts -> SUBSET {"store", "publish", "show", "error"}]
  BY DEF TypeOK
<1>2. \A k \in 1 .. Len(log) : k \in 1 .. Len(log') /\ log'[k] = log[k]
  <2>1. ASSUME NEW by \in {"user", "bot"}, NEW p \in Posts,
               log' = Append(log, [by |-> by, of |-> p])
        PROVE  \A k \in 1 .. Len(log) : k \in 1 .. Len(log') /\ log'[k] = log[k]
    <3>1. [by |-> by, of |-> p] \in Message
      BY DEF Message
    <3> QED BY <1>1, <2>1, <3>1, Appended
  <2>2. \A r \in Replies : r[1] \in Posts
    BY DEF Replies, Commands
  <2> QED BY <2>1, <2>2, LogStep
<1>3. ASSUME NEW p \in Posts, "store" \in request'[p]
      PROVE  \E i \in 1 .. Len(log') : log'[i] = [by |-> "user", of |-> p]
  <2>1. CASE "store" \in request[p]
    BY <1>2, <2>1 DEF RequestsOK
  <2>2. CASE StorePost(p)
    <3>1. log' = Append(log, [by |-> "user", of |-> p])
      BY <2>2 DEF StorePost, Store
    <3>2. [by |-> "user", of |-> p] \in Message
      BY DEF Message
    <3>3. /\ Len(log') = Len(log) + 1 /\ Len(log) \in Nat
          /\ log'[Len(log) + 1] = [by |-> "user", of |-> p]
      BY <1>1, <3>1, <3>2, Appended
    <3>4. Len(log) + 1 \in 1 .. Len(log')
      BY <3>3
    <3> QED BY <3>3, <3>4
  <2> QED BY <1>3, <2>1, <2>2, RequestStep
<1>4. ASSUME NEW k \in 1 .. Len(cSent')
      PROVE  "store" \in request'[cSent'[k]]
  <2>1. ASSUME k \in 1 .. Len(cSent), cSent'[k] = cSent[k]
        PROVE  "store" \in request'[cSent'[k]]
    <3>1. cSent[k] \in Posts /\ "store" \in request[cSent[k]]
      BY <1>1, <2>1 DEF RequestsOK, Commands
    <3> QED BY <2>1, <3>1, RequestStep
  <2>2. ASSUME NEW p \in Commands, PublishPost(p), cSent' = Append(cSent, p)
        PROVE  "store" \in request'[cSent'[k]]
    <3>1. p \in Posts /\ "store" \in request[p]
      BY <2>2 DEF Commands, PublishPost, Before
    <3>2. "store" \in request'[p]
      BY <3>1, RequestStep
    <3>3. \/ k \in 1 .. Len(cSent) /\ cSent'[k] = cSent[k]
          \/ cSent'[k] = p
      BY <1>1, <2>2, Appended
    <3> QED BY <2>1, <3>2, <3>3
  <2> QED BY <2>1, <2>2, CommandSentStep
<1>5. ASSUME NEW i \in 1 .. Len(shown'), shown'[i].by = "user"
      PROVE  "show" \in request'[shown'[i].of]
  <2>1. ASSUME i \in 1 .. Len(shown), shown'[i] = shown[i]
        PROVE  "show" \in request'[shown'[i].of]
    <3>1. shown[i].of \in Posts /\ "show" \in request[shown[i].of]
      <4>1. shown[i] \in Message
        BY <1>1, <2>1
      <4> QED BY <1>5, <2>1, <4>1 DEF RequestsOK, Message
    <3> QED BY <2>1, <3>1, RequestStep
  <2>2. ASSUME NEW p \in Posts, ShowPost(p),
               shown' = Append(shown, [by |-> "user", of |-> p])
        PROVE  "show" \in request'[shown'[i].of]
    <3>1. "show" \in request'[p]
      BY <1>1, <2>2 DEF ShowPost, Takes
    <3>2. [by |-> "user", of |-> p] \in Message
      BY DEF Message
    <3>3. \/ i \in 1 .. Len(shown) /\ shown'[i] = shown[i]
          \/ shown'[i] = [by |-> "user", of |-> p]
      BY <1>1, <2>2, <3>2, Appended
    <3> QED BY <2>1, <3>1, <3>3
  <2>3. ASSUME NEW r \in Replies,
               shown' = Append(shown, [by |-> "bot", of |-> r[1]])
        PROVE  "show" \in request'[shown'[i].of]
    <3>1. [by |-> "bot", of |-> r[1]] \in Message
      BY DEF Message, Replies, Commands
    <3>2. \/ i \in 1 .. Len(shown) /\ shown'[i] = shown[i]
          \/ shown'[i] = [by |-> "bot", of |-> r[1]]
      BY <1>1, <2>3, <3>1, Appended
    <3> QED BY <1>5, <2>1, <3>2
  <2> QED BY <2>1, <2>2, <2>3, ShownStep
<1> QED BY <1>3, <1>4, <1>5 DEF RequestsOK

(* What runs on the queue of commands has been sent.                       *)
LEMMA RunsSent ==
    ASSUME QueueOK(cQueue), NEW s \in Slots, cRunning[s] # None
    PROVE  cRunning[s] \in C!Sent
<1>1. InTurn(cQueue, cRunning[s])
  BY DEF QueueOK, cQueue
<1> QED BY <1>1 DEF InTurn, cQueue, C!Sent

LEMMA RunsSentReply ==
    ASSUME QueueOK(rQueue), NEW s \in Slots, rRunning[s] # None
    PROVE  \E k \in 1 .. Len(rSent) : rSent[k] = rRunning[s]
<1>1. InTurn(rQueue, rRunning[s])
  BY DEF QueueOK, rQueue
<1> QED BY <1>1 DEF InTurn, rQueue

LEMMA NextRepliesHaveCommands ==
    ASSUME TypeOK, QueueOK(cQueue), RepliesHaveCommands, Next
    PROVE  RepliesHaveCommands'
<1> SUFFICES ASSUME NEW k \in 1 .. Len(rSent')
             PROVE  rSent'[k][1] \in C!Sent'
  BY DEF RepliesHaveCommands
<1>1. \A p \in C!Sent : p \in C!Sent'
  BY QueuesGrow DEF C!Sent
<1>2. ASSUME k \in 1 .. Len(rSent), rSent'[k] = rSent[k]
      PROVE  rSent'[k][1] \in C!Sent'
  BY <1>1, <1>2 DEF RepliesHaveCommands
<1>3. ASSUME NEW s \in Slots, NEW n \in 1 .. MaxReplies, cRunning[s] # None,
             <<cRunning[s], n>> \in Replies,
             rSent' = Append(rSent, <<cRunning[s], n>>)
      PROVE  rSent'[k][1] \in C!Sent'
  <2>1. cRunning[s] \in C!Sent'
    BY <1>1, <1>3, RunsSent
  <2>2. \/ k \in 1 .. Len(rSent) /\ rSent'[k] = rSent[k]
        \/ rSent'[k] = <<cRunning[s], n>>
    BY <1>3, Appended DEF TypeOK
  <2> QED BY <1>2, <2>1, <2>2
<1> QED BY <1>2, <1>3, ReplySentStep

LEMMA NextReplyFollowsCommand ==
    ASSUME TypeOK, QueueOK(rQueue), RequestsOK, RepliesHaveCommands,
           ReplyFollowsCommand, Next
    PROVE  ReplyFollowsCommand'
<1> SUFFICES ASSUME NEW i \in 1 .. Len(log'), log'[i].by = "bot"
             PROVE  \E j \in 1 .. i - 1 :
                       log'[j] = [by |-> "user", of |-> log'[i].of]
  BY DEF ReplyFollowsCommand
<1>1. log \in Seq(Message) /\ Len(log) \in Nat
  BY DEF TypeOK
<1>2. ASSUME NEW m \in Message, log' = Append(log, m), i \in 1 .. Len(log)
      PROVE  \E j \in 1 .. i - 1 :
                log'[j] = [by |-> "user", of |-> log'[i].of]
  <2>1. \A j \in 1 .. Len(log) : log'[j] = log[j]
    BY <1>1, <1>2, Appended
  <2>2. \A j \in 1 .. i - 1 : j \in 1 .. Len(log)
    BY <1>1, <1>2
  <2> QED BY <1>2, <2>1, <2>2 DEF ReplyFollowsCommand
<1>3. CASE log' = log
  BY <1>3 DEF ReplyFollowsCommand
<1>4. ASSUME NEW p \in Posts, log' = Append(log, [by |-> "user", of |-> p])
      PROVE  \E j \in 1 .. i - 1 :
                log'[j] = [by |-> "user", of |-> log'[i].of]
  <2>1. [by |-> "user", of |-> p] \in Message
    BY DEF Message
  <2>2. i \in 1 .. Len(log) \/ log'[i] = [by |-> "user", of |-> p]
    BY <1>1, <1>4, <2>1, Appended
  <2> QED BY <1>2, <1>4, <2>1, <2>2
<1>5. ASSUME NEW s \in Slots, rRunning[s] # None, rRunning[s] \in Replies,
             log' = Append(log, [by |-> "bot", of |-> rRunning[s][1]])
      PROVE  \E j \in 1 .. i - 1 :
                log'[j] = [by |-> "user", of |-> log'[i].of]
  <2>1. PICK p \in Posts : p = rRunning[s][1]
    BY <1>5 DEF Replies, Commands
  <2>2. [by |-> "bot", of |-> p] \in Message
    BY DEF Message
  <2>3. /\ \/ i \in 1 .. Len(log)
           \/ /\ i = Len(log) + 1
              /\ log'[i] = [by |-> "bot", of |-> p]
        /\ \A j \in 1 .. Len(log) : log'[j] = log[j]
    <3>1. log' = Append(log, [by |-> "bot", of |-> p])
      BY <1>5, <2>1
    <3> QED BY <1>1, <2>2, <3>1, Appended
  <2>4. p \in C!Sent
    BY <1>5, <2>1, RunsSentReply DEF RepliesHaveCommands
  <2>5. \E j \in 1 .. Len(log) : log[j] = [by |-> "user", of |-> p]
    <3>1. "store" \in request[p]
      BY <2>4 DEF RequestsOK, C!Sent
    <3> QED BY <3>1 DEF RequestsOK
  <2>6. CASE i = Len(log) + 1 /\ log'[i] = [by |-> "bot", of |-> p]
    <3>1. \A j \in 1 .. Len(log) : j \in 1 .. i - 1
      BY <1>1, <2>6
    <3> QED BY <2>3, <2>5, <2>6, <3>1
  <2> QED BY <1>2, <1>5, <2>1, <2>2, <2>3, <2>6
<1> QED BY <1>3, <1>4, <1>5, LogStep

(* The execution that publishes the reply to a command is the only one     *)
(* that runs, its command is not done, and no reply to it was published.   *)
LEMMA FirstReply ==
    ASSUME TypeOK, QueueOK(cQueue), OneReplyEach, ~cDisturbed,
           NEW s \in Slots, cRunning[s] # None, ~bot[s]
    PROVE  /\ cRunning[s] \notin cDone
           /\ \A k \in 1 .. Len(rSent) :
                 rSent[k][1] # cRunning[s] /\ rSent[k][1] \in cDone
<1>1. /\ cRunning[s] \notin cDone
      /\ \A t \in Slots : cRunning[t] # None => t = s
  BY DEF QueueOK, cQueue, Settled
<1>2. ASSUME NEW k \in 1 .. Len(rSent), rSent[k][1] \notin cDone
      PROVE  FALSE
  <2>1. PICK t \in Slots : cRunning[t] = rSent[k][1] /\ bot[t]
    BY <1>2 DEF OneReplyEach
  <2>2. cRunning[t] # None
    BY <2>1 DEF TypeOK
  <2> QED BY <1>1, <2>1, <2>2
<1> QED BY <1>1, <1>2

(* An execution that has published its reply goes on, or its command is    *)
(* done, unless the bot loses something.                                   *)
LEMMA RepliedStays ==
    ASSUME TypeOK, Next, ~cDisturbed', NEW s \in Slots, bot[s]
    PROVE  \/ cRunning'[s] = cRunning[s] /\ bot'[s]
           \/ cRunning[s] \in cDone'
<1>1. /\ cRunning \in [Slots -> Commands \cup {None}]
      /\ bot \in [Slots -> BOOLEAN] /\ cRunning[s] # None
  BY DEF TypeOK
<1>2. ASSUME NEW t \in Slots, BotNext(t)
      PROVE  \/ cRunning'[s] = cRunning[s] /\ bot'[s]
             \/ cRunning[s] \in cDone'
  <2>1. ASSUME NEW p \in Commands, BeginCommand(t, p)
        PROVE  cRunning'[s] = cRunning[s] /\ bot'[s]
    BY <1>1, <2>1 DEF BeginCommand, C!Begin
  <2>2. CASE BotReplies(t)
    <3>1. /\ cRunning' = cRunning
          /\ bot' = [bot EXCEPT ![t] = TRUE]
      BY <2>2 DEF BotReplies, commandQueue
    <3> QED BY <1>1, <3>1
  <2>3. CASE BotReturns(t)
    <3>1. /\ cRunning' = [cRunning EXCEPT ![t] = None]
          /\ bot' = [bot EXCEPT ![t] = FALSE]
          /\ cDone' = cDone \cup {cRunning[t]}
      BY <2>3 DEF BotReturns, C!Handle, Ended
    <3> QED BY <1>1, <3>1
  <2>4. CASE BotThrows(t)
    <3>1. /\ cRunning' = [cRunning EXCEPT ![t] = None]
          /\ bot' = [bot EXCEPT ![t] = FALSE]
          /\ ~bot[t]
      BY <2>4 DEF BotThrows, MayThrow, C!Fail, C!GiveUp, Ended
    <3> QED BY <1>1, <3>1
  <2> QED BY <1>2, <2>1, <2>2, <2>3, <2>4 DEF BotNext
<1>3. ASSUME NEW p \in Posts, PostNext(p)
      PROVE  bot' = bot /\ cRunning' = cRunning
  BY <1>3 DEF PostNext, StorePost, PublishPost, ShowPost, RefusePost,
              BroadcastFails, commandQueue, C!Send
<1>4. ASSUME NEW t \in Slots, WebNext(t)
      PROVE  bot' = bot /\ cRunning' = cRunning
  BY <1>4 DEF WebNext, BeginReply, StoreReply, ShowReply, FailReply, ReplyFails,
              commandQueue
<1>5. ConnectionLost \/ WebStops => bot' = bot /\ cRunning' = cRunning
  BY DEF ConnectionLost, WebStops, commandQueue
<1>6. ~BotStops
  BY DEF BotStops, C!Disturb
<1> QED BY <1>2, <1>3, <1>4, <1>5, <1>6 DEF Next

LEMMA NextOneReplyEach ==
    ASSUME TypeOK, QueueOK(cQueue), OneReplyEach, Next
    PROVE  OneReplyEach'
<1> SUFFICES ASSUME ~cDisturbed', NEW k \in 1 .. Len(rSent')
             PROVE  /\ rSent'[k][2] = 1
                    /\ \/ rSent'[k][1] \in cDone'
                       \/ \E s \in Slots :
                             cRunning'[s] = rSent'[k][1] /\ bot'[s]
  BY DEF OneReplyEach
<1>1. ~cDisturbed /\ rSent \in Seq(Replies) /\ bot \in [Slots -> BOOLEAN]
  BY QueuesGrow DEF TypeOK
<1>2. CASE k \in 1 .. Len(rSent)
  <2>1. rSent'[k] = rSent[k]
    BY <1>2, QueuesGrow
  <2>2. /\ rSent[k][2] = 1
        /\ \/ rSent[k][1] \in cDone
           \/ \E s \in Slots : cRunning[s] = rSent[k][1] /\ bot[s]
    BY <1>1, <1>2 DEF OneReplyEach
  <2> QED BY <2>1, <2>2, QueuesGrow, RepliedStays
<1>3. ASSUME NEW s \in Slots, NEW n \in 1 .. MaxReplies, BotReplies(s),
             cRunning[s] # None, <<cRunning[s], n>> \in Replies,
             RepliesTo(cRunning[s]) = 1 .. n - 1,
             rSent' = Append(rSent, <<cRunning[s], n>>),
             k \notin 1 .. Len(rSent)
      PROVE  /\ rSent'[k][2] = 1
             /\ cRunning'[s] = rSent'[k][1] /\ bot'[s]
  <2>1. rSent'[k] = <<cRunning[s], n>>
    BY <1>1, <1>3, Appended
  <2>2. cRunning'[s] = cRunning[s] /\ bot'[s] /\ ~bot[s]
    BY <1>1, <1>3 DEF BotReplies, commandQueue
  <2>3. n = 1
    <3>1. ASSUME n # 1
          PROVE  FALSE
      <4>1. 1 \in RepliesTo(cRunning[s])
        BY <1>3, <3>1
      <4>2. PICK a \in 1 .. Len(rSent) : rSent[a] = <<cRunning[s], 1>>
        BY <4>1 DEF RepliesTo, R!Sent
      <4> QED BY <1>1, <1>3, <2>2, <4>2, FirstReply
    <3> QED BY <3>1
  <2> QED BY <2>1, <2>2, <2>3
<1> QED BY <1>1, <1>2, <1>3, ReplySentStep

(* What is done was sent before what runs, until something is lost.        *)
LEMMA DoneCommandFirst ==
    ASSUME TypeOK, QueueOK(cQueue), ~cDisturbed,
           NEW s \in Slots, cRunning[s] # None, NEW m \in cDone
    PROVE  \E l \in 1 .. Len(cSent) : \E k \in 1 .. l - 1 :
              cSent[k] = m /\ cSent[l] = cRunning[s]
<1>1. PICK q : q = cQueue
  OBVIOUS
<1>2. /\ q.sent = cSent /\ q.running = cRunning
      /\ q.disturbed = cDisturbed /\ q.done = cDone
  BY <1>1 DEF cQueue
<1>3. QueueType(cQueue, Commands) /\ QueueOK(cQueue)
  BY QueuesTyped
<1>4. QueueType(q, Commands) /\ QueueOK(q)
  BY <1>1, <1>3
<1>5. q.running[s] # None /\ ~q.disturbed /\ m \in Settled(q)
  BY <1>2 DEF Settled
<1>6. \E l \in 1 .. Len(q.sent) : \E k \in 1 .. l - 1 :
         q.sent[k] = m /\ q.sent[l] = q.running[s]
  BY <1>4, <1>5, SettledFirst
<1> QED BY <1>2, <1>6

LEMMA DoneReplyFirst ==
    ASSUME TypeOK, QueueOK(rQueue), ~rDisturbed,
           NEW s \in Slots, rRunning[s] # None, NEW m \in rDone
    PROVE  \E l \in 1 .. Len(rSent) : \E k \in 1 .. l - 1 :
              rSent[k] = m /\ rSent[l] = rRunning[s]
<1>1. PICK q : q = rQueue
  OBVIOUS
<1>2. /\ q.sent = rSent /\ q.running = rRunning
      /\ q.disturbed = rDisturbed /\ q.done = rDone
  BY <1>1 DEF rQueue
<1>3. QueueType(rQueue, Replies) /\ QueueOK(rQueue)
  BY QueuesTyped
<1>4. QueueType(q, Replies) /\ QueueOK(q)
  BY <1>1, <1>3
<1>5. q.running[s] # None /\ ~q.disturbed /\ m \in Settled(q)
  BY <1>2 DEF Settled
<1>6. \E l \in 1 .. Len(q.sent) : \E k \in 1 .. l - 1 :
         q.sent[k] = m /\ q.sent[l] = q.running[s]
  BY <1>4, <1>5, SettledFirst
<1> QED BY <1>2, <1>6

LEMMA NextRepliesFollow ==
    ASSUME TypeOK, QueueOK(cQueue), OneReplyEach, RepliesFollow, Next
    PROVE  RepliesFollow'
<1> SUFFICES ASSUME ~cDisturbed', NEW b \in 1 .. Len(rSent'),
                    NEW a \in 1 .. b - 1
             PROVE  \E l \in 1 .. Len(cSent') : \E k \in 1 .. l - 1 :
                       cSent'[k] = rSent'[a][1] /\ cSent'[l] = rSent'[b][1]
  BY DEF RepliesFollow
<1>1. /\ ~cDisturbed /\ rSent \in Seq(Replies) /\ Len(rSent) \in Nat
      /\ Len(cSent) \in Nat
  BY QueuesGrow DEF TypeOK
<1>2. ASSUME NEW l \in 1 .. Len(cSent), NEW k \in 1 .. l - 1
      PROVE  /\ l \in 1 .. Len(cSent') /\ cSent'[l] = cSent[l]
             /\ cSent'[k] = cSent[k]
  <2>1. k \in 1 .. Len(cSent)
    BY <1>1
  <2> QED BY <2>1, QueuesGrow
<1>3. CASE b \in 1 .. Len(rSent)
  <2>1. a \in 1 .. Len(rSent)
    BY <1>1, <1>3
  <2>2. rSent'[a] = rSent[a] /\ rSent'[b] = rSent[b]
    BY <1>3, <2>1, QueuesGrow
  <2>3. PICK l \in 1 .. Len(cSent) : \E k \in 1 .. l - 1 :
           cSent[k] = rSent[a][1] /\ cSent[l] = rSent[b][1]
    BY <1>1, <1>3 DEF RepliesFollow
  <2> QED BY <1>2, <2>2, <2>3
<1>4. ASSUME NEW s \in Slots, NEW n \in 1 .. MaxReplies, BotReplies(s),
             cRunning[s] # None, <<cRunning[s], n>> \in Replies,
             rSent' = Append(rSent, <<cRunning[s], n>>),
             b \notin 1 .. Len(rSent)
      PROVE  \E l \in 1 .. Len(cSent') : \E k \in 1 .. l - 1 :
                cSent'[k] = rSent'[a][1] /\ cSent'[l] = rSent'[b][1]
  <2>1. b = Len(rSent) + 1 /\ rSent'[b] = <<cRunning[s], n>>
    BY <1>1, <1>4, Appended
  <2>2. a \in 1 .. Len(rSent) /\ rSent'[a] = rSent[a]
    <3>1. a \in 1 .. Len(rSent)
      BY <1>1, <2>1
    <3> QED BY <3>1, QueuesGrow
  <2>3. rSent[a][1] \in cDone
    BY <1>1, <1>4, <2>2, FirstReply DEF BotReplies
  <2>4. PICK l \in 1 .. Len(cSent) : \E k \in 1 .. l - 1 :
           cSent[k] = rSent[a][1] /\ cSent[l] = cRunning[s]
    BY <1>1, <1>4, <2>3, DoneCommandFirst
  <2> QED BY <1>2, <2>1, <2>2, <2>4
<1> QED BY <1>3, <1>4, ReplySentStep

-----------------------------------------------------------------------------
(* What a reply that is shown was: the first to its command, sent, in the  *)
(* slot it ran in, and not handled before.                                 *)
LEMMA RunsFirst ==
    ASSUME TypeOK, QueueOK(rQueue), OneReplyEach, ~cDisturbed, ~rDisturbed,
           NEW s \in Slots, rRunning[s] # None
    PROVE  /\ rRunning[s] = <<rRunning[s][1], 1>>
           /\ rRunning[s] \notin rDone
<1>1. rRunning[s] \notin rDone
  BY DEF QueueOK, rQueue, Settled
<1>2. PICK k \in 1 .. Len(rSent) : rSent[k] = rRunning[s]
  BY RunsSentReply
<1>3. rRunning[s][2] = 1
  BY <1>2 DEF OneReplyEach
<1>4. rRunning[s] \in Replies
  BY DEF TypeOK
<1> QED BY <1>1, <1>3, <1>4 DEF Replies

LEMMA FirstShown ==
    ASSUME TypeOK, QueueOK(rQueue), OneReplyEach, ~cDisturbed, ~rDisturbed,
           NEW s \in Slots, ShowReply(s)
    PROVE  /\ rRunning[s] = <<rRunning[s][1], 1>>
           /\ rRunning[s] \notin rDone
           /\ rDone' = rDone \cup {rRunning[s]}
<1>1. rRunning[s] # None /\ rDone' = rDone \cup {rRunning[s]}
  BY DEF ShowReply, R!Handle
<1> QED BY <1>1, RunsFirst

LEMMA NextShownIsHandled ==
    ASSUME TypeOK, QueueOK(rQueue), OneReplyEach, ShownIsHandled, Next
    PROVE  ShownIsHandled'
<1> SUFFICES ASSUME ~cDisturbed', ~rDisturbed', NEW i \in 1 .. Len(shown'),
                    shown'[i].by = "bot"
             PROVE  <<shown'[i].of, 1>> \in rDone'
  BY DEF ShownIsHandled
<1>1. ~cDisturbed /\ ~rDisturbed /\ shown \in Seq(Message) /\ rDone \subseteq rDone'
  BY QueuesGrow DEF TypeOK
<1>2. ASSUME i \in 1 .. Len(shown), shown'[i] = shown[i]
      PROVE  <<shown'[i].of, 1>> \in rDone'
  BY <1>1, <1>2 DEF ShownIsHandled
<1>3. ASSUME NEW p \in Posts, shown' = Append(shown, [by |-> "user", of |-> p])
      PROVE  <<shown'[i].of, 1>> \in rDone'
  <2>1. [by |-> "user", of |-> p] \in Message
    BY DEF Message
  <2>2. \/ i \in 1 .. Len(shown) /\ shown'[i] = shown[i]
        \/ shown'[i] = [by |-> "user", of |-> p]
    BY <1>1, <1>3, <2>1, Appended
  <2> QED BY <1>2, <2>2
<1>4. ASSUME NEW s \in Slots, ShowReply(s), rRunning[s] \in Replies,
             shown' = Append(shown, [by |-> "bot", of |-> rRunning[s][1]])
      PROVE  <<shown'[i].of, 1>> \in rDone'
  <2>1. PICK p \in Posts : p = rRunning[s][1]
    BY <1>4 DEF Replies, Commands
  <2>2. [by |-> "bot", of |-> p] \in Message
    BY DEF Message
  <2>3. \/ i \in 1 .. Len(shown) /\ shown'[i] = shown[i]
        \/ shown'[i] = [by |-> "bot", of |-> p]
    BY <1>1, <1>4, <2>1, <2>2, Appended
  <2>4. <<p, 1>> \in rDone'
    BY <1>1, <1>4, <2>1, FirstShown
  <2> QED BY <1>2, <2>3, <2>4
<1> QED BY <1>1, <1>2, <1>3, <1>4, ShownStep

LEMMA NextShownFollow ==
    ASSUME TypeOK, QueueOK(rQueue), OneReplyEach, ShownIsHandled, ShownFollow,
           Next
    PROVE  ShownFollow'
<1> SUFFICES ASSUME ~cDisturbed', ~rDisturbed', NEW j \in 1 .. Len(shown'),
                    NEW i \in 1 .. j - 1,
                    shown'[i].by = "bot", shown'[j].by = "bot"
             PROVE  \E b \in 1 .. Len(rSent') : \E a \in 1 .. b - 1 :
                       /\ rSent'[a] = <<shown'[i].of, 1>>
                       /\ rSent'[b] = <<shown'[j].of, 1>>
  BY DEF ShownFollow
<1>1. /\ ~cDisturbed /\ ~rDisturbed /\ shown \in Seq(Message)
      /\ Len(shown) \in Nat /\ Len(rSent) \in Nat
  BY QueuesGrow DEF TypeOK
<1>2. ASSUME NEW b \in 1 .. Len(rSent), NEW a \in 1 .. b - 1
      PROVE  /\ b \in 1 .. Len(rSent') /\ rSent'[b] = rSent[b]
             /\ rSent'[a] = rSent[a]
  <2>1. a \in 1 .. Len(rSent)
    BY <1>1
  <2> QED BY <2>1, QueuesGrow
<1>3. ASSUME j \in 1 .. Len(shown), shown'[j] = shown[j], shown'[i] = shown[i]
      PROVE  \E b \in 1 .. Len(rSent') : \E a \in 1 .. b - 1 :
                /\ rSent'[a] = <<shown'[i].of, 1>>
                /\ rSent'[b] = <<shown'[j].of, 1>>
  <2>1. PICK b \in 1 .. Len(rSent) : \E a \in 1 .. b - 1 :
           rSent[a] = <<shown[i].of, 1>> /\ rSent[b] = <<shown[j].of, 1>>
    BY <1>1, <1>3 DEF ShownFollow
  <2> QED BY <1>2, <1>3, <2>1
<1>4. CASE shown' = shown
  BY <1>3, <1>4
<1>5. ASSUME NEW p \in Posts, shown' = Append(shown, [by |-> "user", of |-> p])
      PROVE  /\ j \in 1 .. Len(shown)
             /\ shown'[j] = shown[j] /\ shown'[i] = shown[i]
  <2>1. [by |-> "user", of |-> p] \in Message
    BY DEF Message
  <2>2. /\ \/ j \in 1 .. Len(shown)
           \/ shown'[j] = [by |-> "user", of |-> p]
        /\ \A k \in 1 .. Len(shown) : shown'[k] = shown[k]
    BY <1>1, <1>5, <2>1, Appended
  <2>3. j \in 1 .. Len(shown)
    BY <2>2
  <2>4. i \in 1 .. Len(shown)
    BY <1>1, <2>3
  <2> QED BY <2>2, <2>3, <2>4
<1>6. ASSUME NEW s \in Slots, ShowReply(s), rRunning[s] # None,
             rRunning[s] \in Replies,
             shown' = Append(shown, [by |-> "bot", of |-> rRunning[s][1]])
      PROVE  \E b \in 1 .. Len(rSent') : \E a \in 1 .. b - 1 :
                /\ rSent'[a] = <<shown'[i].of, 1>>
                /\ rSent'[b] = <<shown'[j].of, 1>>
  <2>1. PICK p \in Posts : p = rRunning[s][1]
    BY <1>6 DEF Replies, Commands
  <2>2. [by |-> "bot", of |-> p] \in Message
    BY DEF Message
  <2>3. /\ \/ j \in 1 .. Len(shown)
           \/ j = Len(shown) + 1 /\ shown'[j] = [by |-> "bot", of |-> p]
        /\ \A k \in 1 .. Len(shown) : shown'[k] = shown[k]
    <3>1. shown' = Append(shown, [by |-> "bot", of |-> p])
      BY <1>6, <2>1
    <3> QED BY <1>1, <2>2, <3>1, Appended
  <2>4. i \in 1 .. Len(shown)
    BY <1>1, <2>3
  <2>5. CASE j \in 1 .. Len(shown)
    BY <1>3, <2>3, <2>4, <2>5
  <2>6. CASE j = Len(shown) + 1 /\ shown'[j] = [by |-> "bot", of |-> p]
    <3>1. rRunning[s] = <<p, 1>>
      BY <1>1, <1>6, <2>1, FirstShown
    <3>2. shown'[i] = shown[i] /\ <<shown[i].of, 1>> \in rDone
      BY <1>1, <2>3, <2>4 DEF ShownIsHandled
    <3>3. PICK b \in 1 .. Len(rSent) : \E a \in 1 .. b - 1 :
             rSent[a] = <<shown[i].of, 1>> /\ rSent[b] = rRunning[s]
      BY <1>1, <1>6, <3>2, DoneReplyFirst
    <3>4. PICK a \in 1 .. b - 1 :
             rSent[a] = <<shown[i].of, 1>> /\ rSent[b] = rRunning[s]
      BY <3>3
    <3>5. /\ b \in 1 .. Len(rSent') /\ rSent'[b] = rSent[b]
          /\ rSent'[a] = rSent[a]
      BY <1>2
    <3>6. rSent'[a] = <<shown'[i].of, 1>> /\ rSent'[b] = <<shown'[j].of, 1>>
      BY <2>6, <3>1, <3>2, <3>4, <3>5
    <3> QED BY <3>5, <3>6
  <2> QED BY <2>3, <2>5, <2>6
<1> QED BY <1>3, <1>4, <1>5, <1>6, ShownStep

LEMMA NextOneReply ==
    ASSUME TypeOK, QueueOK(rQueue), RequestsOK, OneReplyEach, ShownIsHandled,
           Next
    PROVE  OneReplyStep
<1> SUFFICES ASSUME NEW i \in 1 .. Len(shown),
                    log' = Append(log, shown[i]) \/ shown' = Append(shown, shown[i])
             PROVE  shown[i].by = "bot" /\ (cDisturbed \/ rDisturbed)
  BY DEF OneReplyStep
<1>1. PICK m : m = shown[i]
  OBVIOUS
<1>2. m \in Message /\ log \in Seq(Message) /\ shown \in Seq(Message)
  BY <1>1 DEF TypeOK
<1>3. ASSUME NEW p \in Posts, StorePost(p) \/ ShowPost(p),
             m = [by |-> "user", of |-> p]
      PROVE  FALSE
  <2>1. "show" \notin request[p]
    BY <1>3 DEF StorePost, ShowPost, Before
  <2>2. shown[i].by = "user" /\ shown[i].of = p
    BY <1>1, <1>3
  <2> QED BY <2>1, <2>2 DEF RequestsOK
<1>4. ASSUME NEW s \in Slots, StoreReply(s) \/ ShowReply(s),
             m = [by |-> "bot", of |-> rRunning[s][1]],
             ~cDisturbed, ~rDisturbed
      PROVE  FALSE
  <2>1. rRunning[s] = <<rRunning[s][1], 1>> /\ rRunning[s] \notin rDone
    <3>1. rRunning[s] # None
      BY <1>4 DEF StoreReply, ShowReply
    <3> QED BY <1>4, <3>1, RunsFirst
  <2>2. m.by = "bot" /\ m.of = rRunning[s][1]
    BY <1>4
  <2>3. <<m.of, 1>> \in rDone
    BY <1>1, <1>4, <2>2 DEF ShownIsHandled
  <2> QED BY <2>1, <2>2, <2>3
<1>5. CASE log' = Append(log, m)
  <2>1. ASSUME NEW x \in Message, log' = Append(log, x)
        PROVE  x = m
    BY <1>2, <1>5, <2>1, SameLast
  <2>2. log' # log
    BY <1>2, <1>5, Appended
  <2>3. CASE \E p \in Posts :
               StorePost(p) /\ log' = Append(log, [by |-> "user", of |-> p])
    <3>1. PICK p \in Posts :
             StorePost(p) /\ log' = Append(log, [by |-> "user", of |-> p])
      BY <2>3
    <3>2. [by |-> "user", of |-> p] \in Message
      BY DEF Message
    <3> QED BY <1>3, <2>1, <3>1, <3>2
  <2>4. ASSUME NEW s \in Slots, StoreReply(s), rRunning[s] \in Replies,
               log' = Append(log, [by |-> "bot", of |-> rRunning[s][1]])
        PROVE  shown[i].by = "bot" /\ (cDisturbed \/ rDisturbed)
    <3>1. [by |-> "bot", of |-> rRunning[s][1]] \in Message
      BY <2>4 DEF Message, Replies, Commands
    <3>2. m = [by |-> "bot", of |-> rRunning[s][1]]
      BY <2>1, <2>4, <3>1
    <3> QED BY <1>1, <1>4, <2>4, <3>2
  <2> QED BY <2>2, <2>3, <2>4, LogStep
<1>6. CASE shown' = Append(shown, m)
  <2>1. ASSUME NEW x \in Message, shown' = Append(shown, x)
        PROVE  x = m
    BY <1>2, <1>6, <2>1, SameLast
  <2>2. shown' # shown
    BY <1>2, <1>6, Appended
  <2>3. CASE \E p \in Posts :
               ShowPost(p) /\ shown' = Append(shown, [by |-> "user", of |-> p])
    <3>1. PICK p \in Posts :
             ShowPost(p) /\ shown' = Append(shown, [by |-> "user", of |-> p])
      BY <2>3
    <3>2. [by |-> "user", of |-> p] \in Message
      BY DEF Message
    <3> QED BY <1>3, <2>1, <3>1, <3>2
  <2>4. ASSUME NEW s \in Slots, ShowReply(s), rRunning[s] \in Replies,
               shown' = Append(shown, [by |-> "bot", of |-> rRunning[s][1]])
        PROVE  shown[i].by = "bot" /\ (cDisturbed \/ rDisturbed)
    <3>1. [by |-> "bot", of |-> rRunning[s][1]] \in Message
      BY <2>4 DEF Message, Replies, Commands
    <3>2. m = [by |-> "bot", of |-> rRunning[s][1]]
      BY <2>1, <2>4, <3>1
    <3> QED BY <1>1, <1>4, <2>4, <3>2
  <2> QED BY <2>2, <2>3, <2>4, ShownStep
<1> QED BY <1>1, <1>5, <1>6

-----------------------------------------------------------------------------
IInv ==
    /\ TypeOK
    /\ QueueOK(cQueue)
    /\ QueueOK(rQueue)
    /\ RequestsOK
    /\ RepliesHaveCommands
    /\ OneReplyEach
    /\ RepliesFollow
    /\ ShownIsHandled
    /\ ShownFollow
    /\ ReplyFollowsCommand

LEMMA InitIInv == Init => IInv
<1> SUFFICES ASSUME Init PROVE IInv
  OBVIOUS
<1> USE DEF Init, C!Init, R!Init
<1>1. TypeOK
  <2>1. /\ request \in [Posts -> SUBSET {"store", "publish", "show", "error"}]
        /\ log \in Seq(Message) /\ shown \in Seq(Message)
        /\ cSent \in Seq(Commands) /\ rSent \in Seq(Replies)
    OBVIOUS
  <2>2. /\ cRunning \in [Slots -> Commands \cup {None}]
        /\ rRunning \in [Slots -> Replies \cup {None}]
        /\ cDone \cup cDiscarded \subseteq Commands
        /\ rDone \cup rDiscarded \subseteq Replies
    OBVIOUS
  <2>3. /\ bot \in [Slots -> BOOLEAN] /\ web \in [Slots -> BOOLEAN]
        /\ \A s \in Slots : /\ bot[s] => cRunning[s] # None
                            /\ web[s] => rRunning[s] # None
    OBVIOUS
  <2>4. {cDisturbed, rDisturbed} \subseteq BOOLEAN
    OBVIOUS
  <2> QED BY <2>1, <2>2, <2>3, <2>4 DEF TypeOK
<1>2. QueueOK(cQueue) /\ QueueOK(rQueue)
  BY DEF QueueOK, cQueue, rQueue, Settled
<1>3. RequestsOK /\ RepliesHaveCommands /\ OneReplyEach /\ RepliesFollow
  BY DEF RequestsOK, RepliesHaveCommands, OneReplyEach, RepliesFollow
<1>4. ShownIsHandled /\ ShownFollow /\ ReplyFollowsCommand
  BY DEF ShownIsHandled, ShownFollow, ReplyFollowsCommand
<1> QED BY <1>1, <1>2, <1>3, <1>4 DEF IInv

LEMMA NextIInv == IInv /\ [Next]_vars => IInv'
<1> SUFFICES ASSUME IInv, [Next]_vars PROVE IInv'
  OBVIOUS
<1>1. /\ TypeOK /\ QueueOK(cQueue) /\ QueueOK(rQueue) /\ RequestsOK
      /\ RepliesHaveCommands /\ OneReplyEach /\ RepliesFollow
      /\ ShownIsHandled /\ ShownFollow /\ ReplyFollowsCommand
  BY DEF IInv
<1>2. CASE Next
  <2>1. TypeOK'
    BY <1>1, <1>2, NextType
  <2>2. QueueOK(cQueue)' /\ QueueOK(rQueue)'
    <3>1. cRunning \in [Slots -> Commands \cup {None}]
      BY <1>1 DEF TypeOK
    <3>2. QueueType(cQueue, Commands) /\ QueueType(rQueue, Replies)
      BY <1>1, QueuesTyped
    <3>3. C!Next \/ UNCHANGED commandQueue
      BY <1>2, CommandSteps
    <3>4. R!Next \/ UNCHANGED replyQueue
      BY <1>2, <3>1, ReplySteps
    <3>5. QueueOK(cQueue)'
      BY <1>1, <3>2, <3>3, CommandQueueOK
    <3>6. QueueOK(rQueue)'
      BY <1>1, <3>2, <3>4, ReplyQueueOK
    <3> QED BY <3>5, <3>6
  <2>3. RequestsOK'
    BY <1>1, <1>2, NextRequestsOK
  <2>4. RepliesHaveCommands'
    BY <1>1, <1>2, NextRepliesHaveCommands
  <2>5. OneReplyEach'
    BY <1>1, <1>2, NextOneReplyEach
  <2>6. RepliesFollow'
    BY <1>1, <1>2, NextRepliesFollow
  <2>7. ShownIsHandled'
    BY <1>1, <1>2, NextShownIsHandled
  <2>8. ShownFollow'
    BY <1>1, <1>2, NextShownFollow
  <2>9. ReplyFollowsCommand'
    BY <1>1, <1>2, NextReplyFollowsCommand
  <2> QED
    BY <2>1, <2>2, <2>3, <2>4, <2>5, <2>6, <2>7, <2>8, <2>9 DEF IInv
<1>3. CASE UNCHANGED vars
  <2>1. /\ request' = request /\ log' = log /\ shown' = shown
        /\ bot' = bot /\ web' = web
    BY <1>3 DEF vars
  <2>2. /\ cSent' = cSent /\ cDone' = cDone /\ cDiscarded' = cDiscarded
        /\ cRunning' = cRunning /\ cDisturbed' = cDisturbed
    BY <1>3 DEF vars, commandQueue
  <2>3. /\ rSent' = rSent /\ rDone' = rDone /\ rDiscarded' = rDiscarded
        /\ rRunning' = rRunning /\ rDisturbed' = rDisturbed
    BY <1>3 DEF vars, replyQueue
  <2>4. TypeOK'
    BY <1>1, <2>1, <2>2, <2>3 DEF TypeOK
  <2>5. QueueOK(cQueue)' /\ QueueOK(rQueue)'
    <3>1. cQueue' = cQueue /\ rQueue' = rQueue
      BY <2>2, <2>3 DEF cQueue, rQueue
    <3> QED BY <1>1, <3>1 DEF QueueOK, InTurn, Settled
  <2>6. RequestsOK' /\ RepliesHaveCommands'
    BY <1>1, <2>1, <2>2, <2>3 DEF RequestsOK, RepliesHaveCommands, C!Sent
  <2>7. OneReplyEach'
    BY <1>1, <2>1, <2>2, <2>3 DEF OneReplyEach
  <2>8. RepliesFollow'
    <3>1. cDisturbed' = cDisturbed /\ rSent' = rSent /\ cSent' = cSent
      BY <2>2, <2>3
    <3>2. RepliesFollow
      BY <1>1
    <3> SUFFICES ASSUME ~cDisturbed', NEW b \in 1 .. Len(rSent'),
                        NEW a \in 1 .. b - 1
                 PROVE  \E l \in 1 .. Len(cSent') : \E k \in 1 .. l - 1 :
                           /\ cSent'[k] = rSent'[a][1]
                           /\ cSent'[l] = rSent'[b][1]
      BY DEF RepliesFollow
    <3>3. \E l \in 1 .. Len(cSent) : \E k \in 1 .. l - 1 :
             cSent[k] = rSent[a][1] /\ cSent[l] = rSent[b][1]
      BY <3>1, <3>2 DEF RepliesFollow
    <3> QED BY <3>1, <3>3
  <2>9. ShownIsHandled' /\ ShownFollow'
    BY <1>1, <2>1, <2>2, <2>3 DEF ShownIsHandled, ShownFollow
  <2>10. ReplyFollowsCommand'
    BY <1>1, <2>1, <2>2, <2>3 DEF ReplyFollowsCommand
  <2> QED
    BY <2>4, <2>5, <2>6, <2>7, <2>8, <2>9, <2>10 DEF IInv
<1> QED BY <1>2, <1>3

(* The inductive invariant holds in every state.                           *)
THEOREM Invariance == Spec => []IInv
BY InitIInv, NextIInv, PTL DEF Spec

(* Every variable keeps its type.                                          *)
THEOREM TypeCorrect == Spec => []TypeOK
BY Invariance, PTL DEF IInv

(* The composition: Chat uses each of the two queues as AtLeastOnce, the   *)
(* promise RabbitQueue keeps, has it.                                      *)
THEOREM QueuesAreUsedAsPromised == Spec => C!Spec /\ R!Spec
<1>1. Init => C!Init /\ R!Init
  BY DEF Init
<1>2. IInv /\ [Next]_vars => [C!Next]_(C!vars) /\ [R!Next]_(R!vars)
  <2> SUFFICES ASSUME IInv, [Next]_vars
               PROVE  /\ C!Next \/ UNCHANGED commandQueue
                      /\ R!Next \/ UNCHANGED replyQueue
    BY DEF C!vars, R!vars, commandQueue, replyQueue
  <2>1. cRunning \in [Slots -> Commands \cup {None}]
    BY DEF IInv, TypeOK
  <2>2. CASE Next
    BY <2>1, <2>2, CommandSteps, ReplySteps
  <2>3. CASE UNCHANGED vars
    BY <2>3 DEF vars, commandQueue, replyQueue
  <2> QED BY <2>2, <2>3
<1> QED BY <1>1, <1>2, Invariance, PTL DEF Spec, C!Spec, R!Spec

(* In the history a reply of the bot stands after its command.             *)
THEOREM HistoryIsInOrder == Spec => []ReplyFollowsCommand
BY Invariance, PTL DEF IInv

(* Handlers that throw, broadcasts that fail and the retries after them    *)
(* repeat nothing that was shown; only a lost connection or a stop does.   *)
THEOREM RepliesAreShownOnce == Spec => OneReply
<1>1. IInv /\ [Next]_vars => [OneReplyStep]_vars
  BY NextOneReply DEF IInv
<1> QED BY Invariance, <1>1, PTL DEF Spec, OneReply

(* Until something is lost, replies are shown in the order of the commands.*)
THEOREM RepliesKeepOrder == Spec => []RepliesInOrder
<1>1. IInv => RepliesInOrder
  <2> SUFFICES ASSUME IInv, ~cDisturbed, ~rDisturbed,
                      NEW i \in 1 .. Len(shown), NEW j \in 1 .. Len(shown),
                      i < j, shown[i].by = "bot", shown[j].by = "bot"
               PROVE  \E k, l \in 1 .. Len(cSent) :
                         /\ k <= l
                         /\ cSent[k] = shown[i].of
                         /\ cSent[l] = shown[j].of
    BY DEF RepliesInOrder
  <2>1. /\ i \in 1 .. j - 1 /\ Len(cSent) \in Nat
    BY DEF IInv, TypeOK
  <2>2. PICK b \in 1 .. Len(rSent) : \E a \in 1 .. b - 1 :
           rSent[a] = <<shown[i].of, 1>> /\ rSent[b] = <<shown[j].of, 1>>
    BY <2>1 DEF IInv, ShownFollow
  <2>3. PICK a \in 1 .. b - 1 :
           rSent[a] = <<shown[i].of, 1>> /\ rSent[b] = <<shown[j].of, 1>>
    BY <2>2
  <2>4. PICK l \in 1 .. Len(cSent) : \E k \in 1 .. l - 1 :
           cSent[k] = rSent[a][1] /\ cSent[l] = rSent[b][1]
    BY DEF IInv, RepliesFollow
  <2>5. PICK k \in 1 .. l - 1 :
           cSent[k] = rSent[a][1] /\ cSent[l] = rSent[b][1]
    BY <2>4
  <2>6. k \in 1 .. Len(cSent) /\ k <= l
    BY <2>1
  <2>7. rSent[a][1] = shown[i].of /\ rSent[b][1] = shown[j].of
    BY <2>3
  <2> QED BY <2>5, <2>6, <2>7
<1> QED BY <1>1, Invariance, PTL

-----------------------------------------------------------------------------
(* What an execution has done when it is about to return: the bot has      *)
(* published a reply, unless Publish lost it; the web application has      *)
(* stored the reply.                                                       *)
BotHasReplied ==
    "reply" \notin Faults =>
        \A s \in Slots : bot[s] => RepliesTo(cRunning[s]) # {}

InSeq(seq, by, p) == \E j \in 1 .. Len(seq) : seq[j] = [by |-> by, of |-> p]

WebHasStored ==
    \A s \in Slots : web[s] => InSeq(log, "bot", rRunning[s][1])

(* Everything that the browsers were sent is in the table of messages: a   *)
(* page that is loaded later has it too, if it is recent enough.           *)
ShownIsStored ==
    \A i \in 1 .. Len(shown) : \E j \in 1 .. Len(log) : log[j] = shown[i]

SInv ==
    /\ BotHasReplied
    /\ WebHasStored
    /\ HandledIsShown
    /\ ShownIsStored

(* What was published, stored or shown stays so.                           *)
LEMMA RepliesStay ==
    ASSUME TypeOK, Next, NEW p
    PROVE  RepliesTo(p) \subseteq RepliesTo(p)'
<1>1. R!Sent \subseteq R!Sent'
  BY QueuesGrow DEF R!Sent
<1> QED BY <1>1 DEF RepliesTo

LEMMA LogStays ==
    ASSUME TypeOK, Next, NEW j \in 1 .. Len(log)
    PROVE  j \in 1 .. Len(log') /\ log'[j] = log[j]
<1>1. log \in Seq(Message)
  BY DEF TypeOK
<1>2. ASSUME NEW x \in Message, log' = Append(log, x)
      PROVE  j \in 1 .. Len(log') /\ log'[j] = log[j]
  BY <1>1, <1>2, Appended
<1>3. ASSUME NEW p \in Posts, log' = Append(log, [by |-> "user", of |-> p])
      PROVE  j \in 1 .. Len(log') /\ log'[j] = log[j]
  BY <1>2, <1>3 DEF Message
<1>4. ASSUME NEW r \in Replies, log' = Append(log, [by |-> "bot", of |-> r[1]])
      PROVE  j \in 1 .. Len(log') /\ log'[j] = log[j]
  <2>1. [by |-> "bot", of |-> r[1]] \in Message
    BY DEF Message, Replies, Commands
  <2> QED BY <1>2, <1>4, <2>1
<1> QED BY <1>3, <1>4, LogStep

LEMMA ShownStays ==
    ASSUME TypeOK, Next, NEW i \in 1 .. Len(shown)
    PROVE  i \in 1 .. Len(shown') /\ shown'[i] = shown[i]
<1>1. shown \in Seq(Message)
  BY DEF TypeOK
<1>2. ASSUME NEW x \in Message, shown' = Append(shown, x)
      PROVE  i \in 1 .. Len(shown') /\ shown'[i] = shown[i]
  BY <1>1, <1>2, Appended
<1>3. ASSUME NEW p \in Posts, shown' = Append(shown, [by |-> "user", of |-> p])
      PROVE  i \in 1 .. Len(shown') /\ shown'[i] = shown[i]
  BY <1>2, <1>3 DEF Message
<1>4. ASSUME NEW r \in Replies,
             shown' = Append(shown, [by |-> "bot", of |-> r[1]])
      PROVE  i \in 1 .. Len(shown') /\ shown'[i] = shown[i]
  <2>1. [by |-> "bot", of |-> r[1]] \in Message
    BY DEF Message, Replies, Commands
  <2> QED BY <1>2, <1>4, <2>1
<1> QED BY <1>3, <1>4, ShownStep

(* The progress of the bot's execution in a slot, and what it works on.    *)
LEMMA BotStep ==
    ASSUME TypeOK, Next, NEW s \in Slots, bot'[s]
    PROVE  /\ cRunning'[s] = cRunning[s]
           /\ bot[s] \/ BotReplies(s)
<1>1. /\ bot \in [Slots -> BOOLEAN]
      /\ cRunning \in [Slots -> Commands \cup {None}]
      /\ bot[s] => cRunning[s] # None
  BY DEF TypeOK
<1>2. ASSUME NEW t \in Slots, BotNext(t)
      PROVE  cRunning'[s] = cRunning[s] /\ (bot[s] \/ BotReplies(s))
  <2>1. ASSUME NEW p \in Commands, BeginCommand(t, p)
        PROVE  cRunning'[s] = cRunning[s] /\ bot[s]
    <3>1. bot[s]
      BY <2>1 DEF BeginCommand
    <3>2. s # t
      BY <1>1, <2>1, <3>1 DEF BeginCommand, C!Begin
    <3>3. cRunning' = [cRunning EXCEPT ![t] = p]
      BY <2>1 DEF BeginCommand, C!Begin
    <3> QED BY <1>1, <3>1, <3>2, <3>3
  <2>2. CASE BotReplies(t)
    <3>1. bot' = [bot EXCEPT ![t] = TRUE] /\ cRunning' = cRunning
      BY <2>2 DEF BotReplies, commandQueue
    <3>2. s # t => bot[s]
      BY <1>1, <3>1
    <3> QED BY <2>2, <3>1, <3>2
  <2>3. CASE BotReturns(t) \/ BotThrows(t)
    <3>1. /\ bot' = [bot EXCEPT ![t] = FALSE]
          /\ cRunning' = [cRunning EXCEPT ![t] = None]
      BY <2>3 DEF BotReturns, BotThrows, Ended, C!Handle, C!Fail, C!GiveUp
    <3>2. s # t
      BY <1>1, <3>1
    <3>3. bot[s]
      BY <1>1, <3>1, <3>2
    <3> QED BY <1>1, <3>1, <3>2, <3>3
  <2> QED BY <1>2, <2>1, <2>2, <2>3 DEF BotNext
<1>3. ASSUME NEW p \in Posts, PostNext(p)
      PROVE  UNCHANGED <<bot, cRunning>>
  BY <1>3 DEF PostNext, StorePost, PublishPost, ShowPost, RefusePost,
              BroadcastFails, commandQueue, C!Send
<1>4. ASSUME NEW t \in Slots, WebNext(t)
      PROVE  UNCHANGED <<bot, cRunning>>
  BY <1>4 DEF WebNext, BeginReply, StoreReply, ShowReply, FailReply,
              commandQueue
<1>5. ConnectionLost \/ WebStops => UNCHANGED <<bot, cRunning>>
  BY DEF ConnectionLost, WebStops, commandQueue
<1>6. ~BotStops
  BY DEF BotStops, AllEnded
<1> QED BY <1>2, <1>3, <1>4, <1>5, <1>6 DEF Next

LEMMA NextBotHasReplied ==
    ASSUME TypeOK, BotHasReplied, Next
    PROVE  BotHasReplied'
<1> SUFFICES ASSUME "reply" \notin Faults, NEW s \in Slots, bot'[s]
             PROVE  RepliesTo(cRunning[s])' # {}
  BY DEF BotHasReplied
<1>1. cRunning'[s] = cRunning[s] /\ (bot[s] \/ BotReplies(s))
  BY BotStep
<1>2. PICK p : p = cRunning[s]
  OBVIOUS
<1>3. CASE bot[s]
  BY <1>1, <1>2, <1>3, RepliesStay DEF BotHasReplied, RepliesTo, R!Sent
<1>4. CASE BotReplies(s)
  <2>1. PICK n \in 1 .. MaxReplies : R!Send(<<cRunning[s], n>>)
    BY <1>4 DEF BotReplies
  <2>2. rSent \in Seq(Replies) /\ <<p, n>> \in Replies
    BY <1>2, <1>4 DEF TypeOK, BotReplies, Replies
  <2>3. rSent' = Append(rSent, <<p, n>>)
    BY <1>2, <2>1 DEF R!Send
  <2>4. /\ Len(rSent) + 1 \in 1 .. Len(rSent')
        /\ rSent'[Len(rSent) + 1] = <<p, n>>
    BY <2>2, <2>3, Appended
  <2>5. <<p, n>> \in R!Sent'
    BY <2>4 DEF R!Sent
  <2> QED BY <1>1, <1>2, <2>5 DEF RepliesTo, R!Sent
<1> QED BY <1>1, <1>3, <1>4

(* The progress of the web application's execution in a slot.              *)
LEMMA WebStep ==
    ASSUME TypeOK, Next, NEW s \in Slots, web'[s]
    PROVE  /\ rRunning'[s] = rRunning[s]
           /\ web[s] \/ StoreReply(s)
<1>1. /\ web \in [Slots -> BOOLEAN]
      /\ rRunning \in [Slots -> Replies \cup {None}]
      /\ web[s] => rRunning[s] # None
  BY DEF TypeOK
<1>2. ASSUME NEW t \in Slots, WebNext(t)
      PROVE  rRunning'[s] = rRunning[s] /\ (web[s] \/ StoreReply(s))
  <2>1. ASSUME NEW r \in Replies, BeginReply(t, r)
        PROVE  rRunning'[s] = rRunning[s] /\ web[s]
    <3>1. web[s]
      BY <2>1 DEF BeginReply
    <3>2. s # t
      BY <1>1, <2>1, <3>1 DEF BeginReply, R!Begin
    <3>3. rRunning' = [rRunning EXCEPT ![t] = r]
      BY <2>1 DEF BeginReply, R!Begin
    <3> QED BY <1>1, <3>1, <3>2, <3>3
  <2>2. CASE StoreReply(t)
    <3>1. web' = [web EXCEPT ![t] = TRUE] /\ rRunning' = rRunning
      BY <2>2 DEF StoreReply, replyQueue
    <3>2. s # t => web[s]
      BY <1>1, <3>1
    <3> QED BY <2>2, <3>1, <3>2
  <2>3. CASE ShowReply(t) \/ FailReply(t)
    <3>1. /\ web' = [web EXCEPT ![t] = FALSE]
          /\ rRunning' = [rRunning EXCEPT ![t] = None]
      BY <2>3 DEF ShowReply, FailReply, ReplyFails, Ended, R!Handle, R!Fail,
                  R!GiveUp
    <3>2. s # t
      BY <1>1, <3>1
    <3>3. web[s]
      BY <1>1, <3>1, <3>2
    <3> QED BY <1>1, <3>1, <3>2, <3>3
  <2> QED BY <1>2, <2>1, <2>2, <2>3 DEF WebNext
<1>3. ASSUME NEW p \in Posts, PostNext(p)
      PROVE  UNCHANGED <<web, rRunning>>
  BY <1>3 DEF PostNext, StorePost, PublishPost, ShowPost, RefusePost,
              BroadcastFails, replyQueue
<1>4. ASSUME NEW t \in Slots, BotNext(t)
      PROVE  UNCHANGED <<web, rRunning>>
  BY <1>4 DEF BotNext, BeginCommand, BotReplies, BotReturns, BotThrows,
              replyQueue, R!Send
<1>5. ConnectionLost \/ BotStops => UNCHANGED <<web, rRunning>>
  BY DEF ConnectionLost, BotStops, replyQueue
<1>6. ~WebStops
  BY DEF WebStops, AllEnded
<1> QED BY <1>2, <1>3, <1>4, <1>5, <1>6 DEF Next

LEMMA NextWebHasStored ==
    ASSUME TypeOK, WebHasStored, Next
    PROVE  WebHasStored'
<1> SUFFICES ASSUME NEW s \in Slots, web'[s]
             PROVE  \E j \in 1 .. Len(log') :
                       log'[j] = [by |-> "bot", of |-> rRunning'[s][1]]
  BY DEF WebHasStored, InSeq
<1>1. rRunning'[s] = rRunning[s] /\ (web[s] \/ StoreReply(s))
  BY WebStep
<1>2. CASE web[s]
  BY <1>1, <1>2, LogStays DEF WebHasStored, InSeq
<1>3. CASE StoreReply(s)
  <2>1. log' = Append(log, [by |-> "bot", of |-> rRunning[s][1]])
    BY <1>3 DEF StoreReply, Store
  <2>2. rRunning[s] \in Replies
    BY <1>3 DEF StoreReply, TypeOK
  <2>3. [by |-> "bot", of |-> rRunning[s][1]] \in Message
    BY <2>2 DEF Message, Replies, Commands
  <2>4. /\ Len(log) + 1 \in 1 .. Len(log')
        /\ log'[Len(log) + 1] = [by |-> "bot", of |-> rRunning[s][1]]
    BY <2>1, <2>3, Appended DEF TypeOK
  <2> QED BY <1>1, <2>4
<1> QED BY <1>1, <1>2, <1>3

(* A reply is handled by the step that shows it, a command by the return   *)
(* of an execution that has published its reply.                           *)
LEMMA DoneStep ==
    ASSUME TypeOK, Next
    PROVE  /\ \/ rDone' = rDone
              \/ \E s \in Slots :
                    ShowReply(s) /\ rDone' = rDone \cup {rRunning[s]}
           /\ \/ cDone' = cDone
              \/ \E s \in Slots :
                    BotReturns(s) /\ cDone' = cDone \cup {cRunning[s]}
<1>1. ASSUME NEW p \in Posts, PostNext(p)
      PROVE  UNCHANGED <<rDone, cDone>>
  BY <1>1 DEF PostNext, StorePost, PublishPost, ShowPost, RefusePost,
              BroadcastFails, commandQueue, replyQueue, C!Send
<1>2. ASSUME NEW s \in Slots, BotNext(s)
      PROVE  /\ rDone' = rDone
             /\ \/ cDone' = cDone
                \/ BotReturns(s) /\ cDone' = cDone \cup {cRunning[s]}
  BY <1>2 DEF BotNext, BeginCommand, BotReplies, BotReturns, BotThrows,
              commandQueue, replyQueue, C!Begin, C!Handle, C!Fail, C!GiveUp,
              R!Send
<1>3. ASSUME NEW s \in Slots, WebNext(s)
      PROVE  /\ cDone' = cDone
             /\ \/ rDone' = rDone
                \/ ShowReply(s) /\ rDone' = rDone \cup {rRunning[s]}
  BY <1>3 DEF WebNext, BeginReply, StoreReply, ShowReply, FailReply,
              ReplyFails, commandQueue, replyQueue, R!Begin, R!Handle,
              R!Fail, R!GiveUp
<1>4. ConnectionLost \/ BotStops \/ WebStops => UNCHANGED <<rDone, cDone>>
  BY DEF ConnectionLost, BotStops, WebStops, commandQueue, replyQueue,
         C!Disturb, R!Disturb
<1> QED BY <1>1, <1>2, <1>3, <1>4 DEF Next

LEMMA NextHandledIsShown ==
    ASSUME TypeOK, BotHasReplied, HandledIsShown, Next
    PROVE  HandledIsShown'
<1>1. ASSUME NEW r \in rDone'
      PROVE  \E i \in 1 .. Len(shown') :
                shown'[i] = [by |-> "bot", of |-> r[1]]
  <2>1. CASE r \in rDone
    <3>1. PICK i \in 1 .. Len(shown) : shown[i] = [by |-> "bot", of |-> r[1]]
      BY <2>1 DEF HandledIsShown, Occurrences
    <3> QED BY <3>1, ShownStays
  <2>2. ASSUME NEW s \in Slots, ShowReply(s), r = rRunning[s]
        PROVE  \E i \in 1 .. Len(shown') :
                  shown'[i] = [by |-> "bot", of |-> r[1]]
    <3>1. shown' = Append(shown, [by |-> "bot", of |-> r[1]])
      BY <2>2 DEF ShowReply, Show
    <3>2. r \in Replies
      BY <2>2 DEF ShowReply, TypeOK
    <3>3. [by |-> "bot", of |-> r[1]] \in Message
      BY <3>2 DEF Message, Replies, Commands
    <3>4. /\ Len(shown) + 1 \in 1 .. Len(shown')
          /\ shown'[Len(shown) + 1] = [by |-> "bot", of |-> r[1]]
      BY <3>1, <3>3, Appended DEF TypeOK
    <3> QED BY <3>4
  <2> QED BY <2>1, <2>2, DoneStep
<1>2. ASSUME "reply" \notin Faults, NEW p \in cDone', Kind[p] \in Answered
      PROVE  RepliesTo(p)' # {}
  <2>1. RepliesTo(p) # {}
    <3>1. CASE p \in cDone
      BY <1>2, <3>1 DEF HandledIsShown
    <3>2. ASSUME NEW s \in Slots, BotReturns(s), p = cRunning[s]
          PROVE  RepliesTo(p) # {}
      BY <1>2, <3>2 DEF BotReturns, BotHasReplied
    <3> QED BY <3>1, <3>2, DoneStep
  <2> QED BY <2>1, RepliesStay
<1> QED BY <1>1, <1>2 DEF HandledIsShown, Occurrences

LEMMA NextShownIsStored ==
    ASSUME TypeOK, RequestsOK, WebHasStored, ShownIsStored, Next
    PROVE  ShownIsStored'
<1> SUFFICES ASSUME NEW i \in 1 .. Len(shown')
             PROVE  \E j \in 1 .. Len(log') : log'[j] = shown'[i]
  BY DEF ShownIsStored
<1>1. shown \in Seq(Message)
  BY DEF TypeOK
<1>2. ASSUME i \in 1 .. Len(shown), shown'[i] = shown[i]
      PROVE  \E j \in 1 .. Len(log') : log'[j] = shown'[i]
  BY <1>2, LogStays DEF ShownIsStored
<1>3. ASSUME NEW p \in Posts, ShowPost(p),
             shown' = Append(shown, [by |-> "user", of |-> p])
      PROVE  \E j \in 1 .. Len(log') : log'[j] = shown'[i]
  <2>1. [by |-> "user", of |-> p] \in Message
    BY DEF Message
  <2>2. \/ i \in 1 .. Len(shown) /\ shown'[i] = shown[i]
        \/ shown'[i] = [by |-> "user", of |-> p]
    BY <1>1, <1>3, <2>1, Appended
  <2>3. "store" \in request[p]
    BY <1>3 DEF ShowPost, Before
  <2>4. PICK j \in 1 .. Len(log) : log[j] = [by |-> "user", of |-> p]
    BY <2>3 DEF RequestsOK
  <2> QED BY <1>2, <2>2, <2>4, LogStays
<1>4. ASSUME NEW s \in Slots, ShowReply(s), rRunning[s] \in Replies,
             shown' = Append(shown, [by |-> "bot", of |-> rRunning[s][1]])
      PROVE  \E j \in 1 .. Len(log') : log'[j] = shown'[i]
  <2>1. [by |-> "bot", of |-> rRunning[s][1]] \in Message
    BY <1>4 DEF Message, Replies, Commands
  <2>2. \/ i \in 1 .. Len(shown) /\ shown'[i] = shown[i]
        \/ shown'[i] = [by |-> "bot", of |-> rRunning[s][1]]
    BY <1>1, <1>4, <2>1, Appended
  <2>3. PICK j \in 1 .. Len(log) :
           log[j] = [by |-> "bot", of |-> rRunning[s][1]]
    BY <1>4 DEF ShowReply, WebHasStored, InSeq
  <2> QED BY <1>2, <2>2, <2>3, LogStays
<1> QED BY <1>2, <1>3, <1>4, ShownStep

LEMMA InitSInv == Init => SInv
BY DEF Init, C!Init, R!Init, SInv, BotHasReplied, WebHasStored,
       HandledIsShown, ShownIsStored

LEMMA NextSInv == IInv /\ SInv /\ [Next]_vars => SInv'
<1> SUFFICES ASSUME IInv, SInv, [Next]_vars PROVE SInv'
  OBVIOUS
<1>1. CASE Next
  BY <1>1, NextBotHasReplied, NextWebHasStored, NextHandledIsShown,
     NextShownIsStored
  DEF IInv, SInv
<1>2. CASE UNCHANGED vars
  <2>1. /\ log' = log /\ shown' = shown /\ bot' = bot /\ web' = web
        /\ cRunning' = cRunning /\ cDone' = cDone
        /\ rRunning' = rRunning /\ rDone' = rDone /\ rSent' = rSent
    BY <1>2 DEF vars, commandQueue, replyQueue
  <2>2. BotHasReplied' /\ WebHasStored'
    BY <2>1 DEF SInv, BotHasReplied, WebHasStored, InSeq, RepliesTo, R!Sent
  <2>3. \A p : RepliesTo(p)' = RepliesTo(p)
    BY <2>1 DEF RepliesTo, R!Sent
  <2>4. \A p : Occurrences(shown, "bot", p)' = Occurrences(shown, "bot", p)
    BY <2>1 DEF Occurrences
  <2>5. HandledIsShown'
    BY <2>1, <2>3, <2>4 DEF SInv, HandledIsShown
  <2>6. ShownIsStored'
    BY <2>1 DEF SInv, ShownIsStored
  <2> QED BY <2>2, <2>5, <2>6 DEF SInv
<1> QED BY <1>1, <1>2

(* A reply that is acknowledged was shown, and a command that is           *)
(* acknowledged has its reply on the queue, unless Publish lost it.        *)
THEOREM NothingIsHalfDone == Spec => []HandledIsShown
<1>1. SInv => HandledIsShown
  BY DEF SInv
<1> QED BY <1>1, InitSInv, NextSInv, Invariance, PTL DEF Spec

(* Whatever fails, what the browsers were sent is in the table of messages *)
(* and comes back with the next load of the page.                          *)
THEOREM NothingIsShownUnstored == Spec => []ShownIsStored
<1>1. SInv => ShownIsStored
  BY DEF SInv
<1> QED BY <1>1, InitSInv, NextSInv, Invariance, PTL DEF Spec
=============================================================================
