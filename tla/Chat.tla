-------------------------------- MODULE Chat --------------------------------
(***************************************************************************)
(* A message from the user who posts it to the users who see it, and a     *)
(* command from there to the bot's reply:                                  *)
(*                                                                         *)
(*   SendMessageCommandHandler stores the message, publishes it on the     *)
(*   queue ChatCommand if it is a command, and ChatController shows it;    *)
(*   MessageCommandConsumer runs the command in the process of the bot,    *)
(*   which publishes a reply on the queue ChatMessage;                     *)
(*   ChatMessageConsumer stores the reply and shows it, in the process of  *)
(*   the web application.                                                  *)
(*                                                                         *)
(* Both queues are AtLeastOnce, the promise RabbitQueue keeps.             *)
(***************************************************************************)
EXTENDS Integers, Sequences

CONSTANTS
    Posts,       \* messages users post, by members of the room they are for
    Kind,        \* what each of them is
    Slots,       \* executions of one consumer that can overlap
    None,        \* an empty slot
    Faults,      \* what can go wrong
    MaxReplies,  \* bound: replies published for one command
    MaxLog,      \* bound: messages stored
    MaxShown     \* bound: messages shown

VARIABLES
    request,  \* the steps that the request of each post has taken
    log,      \* the messages in the table of messages, in the order stored
    shown,    \* the messages sent to the browsers, in that order
    bot,      \* for each slot, whether its execution has published a reply
    web,      \* for each slot, whether its execution has stored the reply
    cSent, cDone, cDiscarded, cRunning, cDisturbed,  \* queue ChatCommand
    rSent, rDone, rDiscarded, rRunning, rDisturbed   \* queue ChatMessage

(* A ping; a stock command whose reply fits in a message, or is longer     *)
(* than one may be, or that names no stock; another command.               *)
Kinds == {"text", "ping", "stock", "longStock", "badStock", "unknown"}

(* A connection is lost; a process stops; Publish returns false, or true   *)
(* and the message is lost, for a command or for a reply; a handler        *)
(* throws; a broadcast throws.                                             *)
FaultKinds == {"loss", "stop", "publish", "reply", "handler", "broadcast"}

ASSUME KindAssumption == Kind \in [Posts -> Kinds]
ASSUME FaultsAssumption == Faults \subseteq FaultKinds
ASSUME BoundsAssumption == {MaxReplies, MaxLog, MaxShown} \subseteq Nat

(* ChatMessage.IsCommand.                                                  *)
IsCommand(p) == Kind[p] # "text"

Commands == {p \in Posts : IsCommand(p)}

(* The n-th reply published for a command.                                 *)
Replies == Commands \X (1 .. MaxReplies)

ASSUME NoneAssumption == None \notin Posts \cup Replies

(* A message of a user, or a reply of the bot to it.                       *)
Message == [by : {"user", "bot"}, of : Posts]

commandQueue == <<cSent, cDone, cDiscarded, cRunning, cDisturbed>>
replyQueue == <<rSent, rDone, rDiscarded, rRunning, rDisturbed>>
vars == <<request, log, shown, bot, web, commandQueue, replyQueue>>

C == INSTANCE AtLeastOnce WITH Messages <- Commands, sent <- cSent,
        done <- cDone, discarded <- cDiscarded, running <- cRunning,
        disturbed <- cDisturbed

R == INSTANCE AtLeastOnce WITH Messages <- Replies, sent <- rSent,
        done <- rDone, discarded <- rDiscarded, running <- rRunning,
        disturbed <- rDisturbed

-----------------------------------------------------------------------------
Init ==
    /\ request = [p \in Posts |-> {}]
    /\ log = <<>>
    /\ shown = <<>>
    /\ bot = [s \in Slots |-> FALSE]
    /\ web = [s \in Slots |-> FALSE]
    /\ C!Init
    /\ R!Init

Takes(p, step) == request' = [request EXCEPT ![p] = @ \cup {step}]

Store(by, p) ==
    /\ Len(log) < MaxLog
    /\ log' = Append(log, [by |-> by, of |-> p])

Show(by, p) ==
    /\ Len(shown) < MaxShown
    /\ shown' = Append(shown, [by |-> by, of |-> p])

(* The pieces of the code that a slip would change; each is preceded by    *)
(* the slips, mutants the model does not use.                              *)

PublishesFirst ==
    [publish |-> {}, store |-> {"publish"}, show |-> {"publish", "store"}]

(* What a request has done when it stores, publishes and shows its message.*)
Before ==
    [store |-> {}, publish |-> {"store"}, show |-> {"store", "publish"}]

AnswersPings == {"ping"}

(* The commands that publish a reply.  An error of the stock service is    *)
(* answered too, an ill-formed stock command is not.                       *)
Answered == {"ping", "stock", "longStock"}

(* CanExecute of a command is true.                                        *)
HasHandler(p) == Kind[p] \in Answered \cup {"badStock"}

SwallowsFailure(s) == R!Handle(s)

(* ChatMessageConsumer.HandleMessage throws or returns false.              *)
ReplyFails(s) == R!Fail(s) \/ R!GiveUp(s)

ThrowsAtAnyTime(s) == TRUE

(* Nothing in a command throws after it has published.                     *)
MayThrow(s) == ~bot[s]

(* The next execution in the slot starts from the beginning.               *)
Ended(flag, s) == [flag EXCEPT ![s] = FALSE]

-----------------------------------------------------------------------------
(* SendMessageCommandHandler.Handle: the message is saved.                 *)
StorePost(p) ==
    /\ request[p] = Before.store
    /\ Store("user", p)
    /\ Takes(p, "store")
    /\ UNCHANGED <<shown, bot, web, commandQueue, replyQueue>>

(* Then a command is published, and the answer of Publish is ignored.      *)
PublishPost(p) ==
    /\ request[p] = Before.publish
    /\ Takes(p, "publish")
    /\ \/ IsCommand(p) /\ C!Send(p)
       \/ IsCommand(p) /\ "publish" \in Faults /\ UNCHANGED commandQueue
       \/ ~IsCommand(p) /\ UNCHANGED commandQueue
    /\ UNCHANGED <<log, shown, bot, web, replyQueue>>

(* Then ChatController.SendMessage sends it to the group of the room.      *)
ShowPost(p) ==
    /\ request[p] = Before.show
    /\ Show("user", p)
    /\ Takes(p, "show")
    /\ UNCHANGED <<log, bot, web, commandQueue, replyQueue>>

(* The message is refused, or it cannot be saved.                          *)
RefusePost(p) ==
    /\ request[p] = {}
    /\ Takes(p, "error")
    /\ UNCHANGED <<log, shown, bot, web, commandQueue, replyQueue>>

(* What is saved and published is not shown.                               *)
BroadcastFails(p) ==
    /\ "broadcast" \in Faults
    /\ request[p] = Before.show
    /\ Takes(p, "error")
    /\ UNCHANGED <<log, shown, bot, web, commandQueue, replyQueue>>

-----------------------------------------------------------------------------
BeginAny(s, p) ==
    /\ cRunning[s] = None
    /\ p \in C!Sent \ cDone
    /\ cRunning' = [cRunning EXCEPT ![s] = p]
    /\ UNCHANGED <<cSent, cDone, cDiscarded, cDisturbed>>
    /\ UNCHANGED <<request, log, shown, bot, web, replyQueue>>

(* MessageCommandConsumer.HandleMessage is called.                         *)
BeginCommand(s, p) ==
    /\ C!Begin(s, p)
    /\ UNCHANGED <<request, log, shown, bot, web, replyQueue>>

RepliesTo(p) == {n \in 1 .. MaxReplies : <<p, n>> \in R!Sent}

(* The command finds its answer and publishes it; what Publish returns is  *)
(* ignored here too.                                                       *)
BotReplies(s) ==
    /\ cRunning[s] # None
    /\ ~bot[s]
    /\ Kind[cRunning[s]] \in Answered
    /\ bot' = [bot EXCEPT ![s] = TRUE]
    /\ \/ \E n \in 1 .. MaxReplies :
             /\ RepliesTo(cRunning[s]) = 1 .. n - 1
             /\ R!Send(<<cRunning[s], n>>)
       \/ "reply" \in Faults /\ UNCHANGED replyQueue
    /\ UNCHANGED <<request, log, shown, web, commandQueue>>

(* HandleMessage returns true, whatever the command returned.              *)
BotReturns(s) ==
    /\ cRunning[s] # None
    /\ bot[s] \/ Kind[cRunning[s]] \notin Answered
    /\ C!Handle(s)
    /\ bot' = Ended(bot, s)
    /\ UNCHANGED <<request, log, shown, web, replyQueue>>

(* The command throws: the stock service has no answer and no error.  The  *)
(* message is handled again or, after the last retry, given up.            *)
BotThrows(s) ==
    /\ "handler" \in Faults
    /\ MayThrow(s)
    /\ C!Fail(s) \/ C!GiveUp(s)
    /\ bot' = Ended(bot, s)
    /\ UNCHANGED <<request, log, shown, web, replyQueue>>

-----------------------------------------------------------------------------
(* ChatMessageConsumer.HandleMessage is called.                            *)
BeginReply(s, r) ==
    /\ R!Begin(s, r)
    /\ UNCHANGED <<request, log, shown, bot, web, commandQueue>>

(* SendMessageFromServerCommandValidator: at most 1000 characters.         *)
Fits(r) == Kind[r[1]] # "longStock"

(* SendMessageFromServerCommandHandler.Handle: the reply is saved.         *)
StoreReply(s) ==
    /\ rRunning[s] # None
    /\ ~web[s]
    /\ Fits(rRunning[s])
    /\ Store("bot", rRunning[s][1])
    /\ web' = [web EXCEPT ![s] = TRUE]
    /\ UNCHANGED <<request, shown, bot, commandQueue, replyQueue>>

(* Then the consumer sends it to the group of the room and returns true.   *)
ShowReply(s) ==
    /\ rRunning[s] # None
    /\ web[s]
    /\ Show("bot", rRunning[s][1])
    /\ R!Handle(s)
    /\ web' = Ended(web, s)
    /\ UNCHANGED <<request, log, bot, commandQueue>>

(* The reply is refused, it cannot be saved, or the broadcast throws.      *)
FailReply(s) ==
    /\ rRunning[s] # None
    /\ \/ ~web[s] /\ ~Fits(rRunning[s])
       \/ ~web[s] /\ "handler" \in Faults
       \/ web[s] /\ "broadcast" \in Faults
    /\ ReplyFails(s)
    /\ web' = Ended(web, s)
    /\ UNCHANGED <<request, log, shown, bot, commandQueue>>

-----------------------------------------------------------------------------
(* A consumer loses its connection; its executions go on.                  *)
ConnectionLost ==
    /\ "loss" \in Faults
    /\ \/ UNCHANGED <<cRunning, replyQueue>> /\ C!Disturb
       \/ UNCHANGED <<rRunning, commandQueue>> /\ R!Disturb
    /\ UNCHANGED <<request, log, shown, bot, web>>

AllEnded == [s \in Slots |-> FALSE]

BotStops ==
    /\ "stop" \in Faults
    /\ cRunning' = [s \in Slots |-> None]
    /\ C!Disturb
    /\ bot' = AllEnded
    /\ UNCHANGED <<request, log, shown, web, replyQueue>>

(* The requests of the web application end with it.                        *)
WebStops ==
    /\ "stop" \in Faults
    /\ rRunning' = [s \in Slots |-> None]
    /\ R!Disturb
    /\ web' = AllEnded
    /\ request' = [p \in Posts |->
                     IF request[p] \in {Before.publish, Before.show}
                        THEN request[p] \cup {"error"} ELSE request[p]]
    /\ UNCHANGED <<log, shown, bot, commandQueue>>

-----------------------------------------------------------------------------
PostNext(p) ==
    \/ StorePost(p)
    \/ PublishPost(p)
    \/ ShowPost(p)
    \/ RefusePost(p)
    \/ BroadcastFails(p)

BotNext(s) ==
    \/ \E p \in Commands : BeginCommand(s, p)
    \/ BotReplies(s)
    \/ BotReturns(s)
    \/ BotThrows(s)

WebNext(s) ==
    \/ \E r \in Replies : BeginReply(s, r)
    \/ StoreReply(s)
    \/ ShowReply(s)
    \/ FailReply(s)

Next ==
    \/ \E p \in Posts : PostNext(p)
    \/ \E s \in Slots : BotNext(s) \/ WebNext(s)
    \/ ConnectionLost
    \/ BotStops
    \/ WebStops

(* A request that has begun goes on, and so does an execution; the queues  *)
(* deliver.  Nobody has to post, and nothing has to go wrong.              *)
Fairness ==
    /\ \A p \in Posts : WF_vars(PublishPost(p)) /\ WF_vars(ShowPost(p))
    /\ \A s \in Slots : WF_vars(BotNext(s)) /\ WF_vars(WebNext(s))

Spec == Init /\ [][Next]_vars

FairSpec == Spec /\ Fairness

-----------------------------------------------------------------------------
(* Every variable keeps its type, and the progress of an execution is      *)
(* forgotten with it.                                                      *)
TypeOK ==
    /\ request \in [Posts -> SUBSET {"store", "publish", "show", "error"}]
    /\ log \in Seq(Message)
    /\ shown \in Seq(Message)
    /\ bot \in [Slots -> BOOLEAN]
    /\ web \in [Slots -> BOOLEAN]
    /\ cSent \in Seq(Commands)
    /\ cDone \cup cDiscarded \subseteq Commands
    /\ cRunning \in [Slots -> Commands \cup {None}]
    /\ rSent \in Seq(Replies)
    /\ rDone \cup rDiscarded \subseteq Replies
    /\ rRunning \in [Slots -> Replies \cup {None}]
    /\ {cDisturbed, rDisturbed} \subseteq BOOLEAN
    /\ \A s \in Slots : /\ bot[s] => cRunning[s] # None
                        /\ web[s] => rRunning[s] # None

Occurrences(seq, by, p) ==
    {i \in 1 .. Len(seq) : seq[i] = [by |-> by, of |-> p]}

(* In the history of a room, which the page reads from the table, a reply  *)
(* of the bot stands after the command it answers.                         *)
ReplyFollowsCommand ==
    \A i \in 1 .. Len(log) :
        log[i].by = "bot" =>
            \E j \in 1 .. i - 1 : log[j] = [by |-> "user", of |-> log[i].of]

(* Nothing is acknowledged half done: a reply that is handled was shown,   *)
(* and a command that is handled has its reply on the queue, unless        *)
(* Publish lost it and its answer was ignored.                             *)
HandledIsShown ==
    /\ \A r \in rDone : Occurrences(shown, "bot", r[1]) # {}
    /\ "reply" \notin Faults =>
          \A p \in cDone : Kind[p] \in Answered => RepliesTo(p) # {}

(* A message that was shown is not stored or shown again, except a reply   *)
(* after a consumer has lost its connection or a process has stopped.      *)
(* Handlers that throw, broadcasts that fail and the retries after them    *)
(* repeat nothing that anybody has seen.                                   *)
OneReplyStep ==
    \A i \in 1 .. Len(shown) :
        log' = Append(log, shown[i]) \/ shown' = Append(shown, shown[i])
        => shown[i].by = "bot" /\ (cDisturbed \/ rDisturbed)
OneReply == [][OneReplyStep]_vars

(* Until something is lost, the bot's replies are shown in the order its   *)
(* commands were published in, whatever is not published in between.       *)
RepliesInOrder ==
    ~cDisturbed /\ ~rDisturbed =>
        \A i, j \in 1 .. Len(shown) :
            /\ i < j
            /\ shown[i].by = "bot"
            /\ shown[j].by = "bot"
            => \E k, l \in 1 .. Len(cSent) :
                  /\ k <= l
                  /\ cSent[k] = shown[i].of
                  /\ cSent[l] = shown[j].of

(* A ping or a well-formed stock command that is stored gets its reply,    *)
(* unless Publish loses it or its reply, or it stands in the queue behind  *)
(* a command whose reply is too long to be stored, which is refused again  *)
(* and again.                                                              *)
Lost(p) ==
    \/ "publish" \in Faults /\ "publish" \in request[p] /\ p \notin C!Sent
    \/ /\ "reply" \in Faults
       /\ \E s \in Slots : cRunning[s] = p /\ bot[s] /\ RepliesTo(p) = {}

BehindLong(p) ==
    \E i, j \in 1 .. Len(cSent) :
        i < j /\ Kind[cSent[i]] = "longStock" /\ cSent[j] = p

EveryCommandAnswered ==
    \A p \in Posts :
        Kind[p] \in {"ping", "stock"} /\ request[p] = {"store"}
            ~> Occurrences(shown, "bot", p) # {} \/ Lost(p) \/ BehindLong(p)

(* "If it starts with a `/`, it's enqueued", and "regardless if the        *)
(* command has been processed successfully or with an error, a response    *)
(* message is enqueued": a command that is saved, and that a handler will  *)
(* be found for, has a reply on the queue in the end.                      *)
EveryCommandReplied ==
    \A p \in Commands :
        HasHandler(p) /\ request[p] = {"store"} ~> RepliesTo(p) # {}
=============================================================================
