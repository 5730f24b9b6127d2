------------------------------ MODULE ChatPage ------------------------------
(***************************************************************************)
(* The page of one room in one browser: the history it is rendered with,   *)
(* the messages the hub sends to it afterwards, and the box the user types *)
(* into.                                                                   *)
(*                                                                         *)
(* The page is rendered from the table, connects, and only then asks to be *)
(* in the group of the room (JoinChat).  Membership belongs to a           *)
(* connection, and an automatic reconnection makes another one.  A message *)
(* is stored in one step of its request and sent to the group in a later   *)
(* one, so all of this falls between the steps of every message.           *)
(*                                                                         *)
(* A text is the number of its turn; what the user does is in the order of *)
(* the browser, what requests do is in any order.                          *)
(***************************************************************************)
EXTENDS Integers, Sequences, FiniteSets

CONSTANTS
    Others,          \* messages other users post
    Submits,         \* submissions of the form of this page
    HistorySize,     \* Take(50)
    MaxLoads,        \* bound: how often the page is loaded
    MaxConnections,  \* bound: connections the server gives an id to
    MaxTexts         \* bound: texts the user types

ASSUME PostsAssumption == Others \cap Submits = {}
ASSUME HistoryAssumption == HistorySize \in Nat \ {0}
ASSUME BoundsAssumption == {MaxLoads, MaxConnections, MaxTexts} \subseteq Nat

Posts == Others \cup Submits

VARIABLES
    request,  \* how far the request of each post has got
    written,  \* the posts whose message has been made, in order of SentAt
    loads,    \* how often the page has been loaded
    history,  \* the messages it was rendered with
    live,     \* the messages it has appended since
    hub,      \* its hub connection
    conn,     \* the id of its connection
    join,     \* the call of JoinChat for this connection
    group,    \* the connections in the group of the room
    wire,     \* messages on their way from the server to the page
    input,    \* the text in the box
    typed,    \* how many texts the user has typed
    text,     \* the text of each submission
    waiting,  \* submissions whose answer the page waits for
    stored,   \* what was stored when the page was rendered
    sent,     \* what had been sent to the group when the page joined it
    excused   \* texts the user or a race has taken from the box

postVars == <<request, written>>
viewVars == <<loads, history, live>>
hubVars == <<hub, conn, join, group, wire>>
formVars == <<input, typed, text, waiting, excused>>
pageVars == <<stored, sent>>
vars == <<postVars, viewVars, hubVars, formVars, pageVars>>

Blank == 0

Items(s) == {s[i] : i \in 1 .. Len(s)}

Init ==
    /\ request = [p \in Posts |-> "none"]
    /\ written = <<>>
    /\ loads = 0
    /\ history = {}
    /\ live = <<>>
    /\ hub = "closed"
    /\ conn = 0
    /\ join = "none"
    /\ group = {}
    /\ wire = <<>>
    /\ input = Blank
    /\ typed = 0
    /\ text = [s \in Submits |-> Blank]
    /\ waiting = {}
    /\ stored = {}
    /\ sent = {}
    /\ excused = {}

(* The pieces that a slip would change, each preceded by the slip, a       *)
(* mutant the model does not use.                                          *)

BroadcastsTwice(p) == <<p, p>>

(* The page calls SendMessage of the hub with two names nobody declares,   *)
(* which throws a ReferenceError: only the controller sends the message.   *)
Broadcasts(p) == <<p>>

JoinKept(j) == j

(* A new connection is in no group.                                        *)
JoinLost(j) == "none"

(* A connection that is gone delivers nothing more.                        *)
WireLost(w) == <<>>

ClearedOnSubmit(i) == Blank

(* The box keeps its text until the answer is there.                       *)
KeptOnSubmit(i) == i

JoinsNobody(c) == {}

(* Groups.AddToGroupAsync(Context.ConnectionId, ...).                      *)
Joins(c) == {c}

-----------------------------------------------------------------------------
IsStored(p) == request[p] \in {"stored", "sent", "unsent"}

(* The SentAt of p is earlier than that of q.                              *)
Before(p, q) ==
    \E i, j \in 1 .. Len(written) : i < j /\ written[i] = p /\ written[j] = q

LaterThan(p, posts) == {q \in posts : Before(p, q)}

(* GetChatMessagesQueryHandler, but for the order: the stored messages     *)
(* that fewer than HistorySize others are later than.                      *)
ChatMessages(posts) ==
    {p \in posts : Cardinality(LaterThan(p, posts)) < HistorySize}

(* The user opens the page, or loads it again; what the old one waited for *)
(* is forgotten, and its connection goes.                                  *)
Load ==
    /\ loads < MaxLoads
    /\ loads' = loads + 1
    /\ stored' = {p \in Posts : IsStored(p)}
    /\ history' = ChatMessages(stored')
    /\ live' = <<>>
    /\ hub' = "starting"
    /\ join' = "none"
    /\ group' = group \ {conn}
    /\ wire' = <<>>
    /\ input' = Blank
    /\ waiting' = {}
    /\ excused' = excused \cup {input}
    /\ sent' = {}
    /\ UNCHANGED <<postVars, conn, typed, text>>

-----------------------------------------------------------------------------
(* connection.start() resolves, and JoinChat is invoked.                   *)
HubStarted ==
    /\ hub = "starting"
    /\ conn < MaxConnections
    /\ hub' = "up"
    /\ conn' = conn + 1
    /\ join' = "invoked"
    /\ UNCHANGED <<postVars, viewVars, group, wire, formVars, pageVars>>

(* It is rejected, which nobody catches: the page stays as it is.          *)
HubFails ==
    /\ hub = "starting"
    /\ hub' = "closed"
    /\ UNCHANGED <<postVars, viewVars, conn, join, group, wire, formVars,
                   pageVars>>

(* ChatHub.JoinChat.                                                       *)
JoinChat ==
    /\ join = "invoked"
    /\ join' = "done"
    /\ group' = group \cup Joins(conn)
    /\ sent' = {p \in Posts : request[p] = "sent"}
    /\ UNCHANGED <<postVars, viewVars, hub, conn, wire, formVars, stored>>

(* The connection is lost; a pending JoinChat is rejected and only logged. *)
HubDrops ==
    /\ hub = "up"
    /\ hub' = "reconnecting"
    /\ join' = JoinLost(join)
    /\ group' = group \ {conn}
    /\ wire' = WireLost(wire)
    /\ UNCHANGED <<postVars, viewVars, conn, formVars, pageVars>>

(* withAutomaticReconnect: another connection, and JoinChat is not invoked.*)
HubReconnects ==
    /\ hub = "reconnecting"
    /\ conn < MaxConnections
    /\ hub' = "up"
    /\ conn' = conn + 1
    /\ UNCHANGED <<postVars, viewVars, join, group, wire, formVars, pageVars>>

HubGivesUp ==
    /\ hub = "reconnecting"
    /\ hub' = "closed"
    /\ UNCHANGED <<postVars, viewVars, conn, join, group, wire, formVars,
                   pageVars>>

(* The handler of "ReceiveMessage".                                        *)
ReceiveMessage ==
    /\ wire # <<>>
    /\ live' = Append(live, Head(wire))
    /\ wire' = Tail(wire)
    /\ UNCHANGED <<postVars, loads, history, hub, conn, join, group, formVars,
                   pageVars>>

-----------------------------------------------------------------------------
(* The user types into an empty box, or over a text he has submitted.      *)
Type ==
    /\ loads > 0
    /\ typed < MaxTexts
    /\ input = Blank \/ \E s \in Submits : text[s] = input
    /\ typed' = typed + 1
    /\ input' = typed'
    /\ excused' = excused \cup {input}
                    \cup (IF waiting = {} THEN {} ELSE {typed'})
    /\ UNCHANGED <<postVars, viewVars, hubVars, text, waiting, pageVars>>

(* The form is submitted, as often as the user likes, and the request sent.*)
Submit(s) ==
    /\ loads > 0
    /\ request[s] = "none"
    /\ request' = [request EXCEPT ![s] = "posted"]
    /\ text' = [text EXCEPT ![s] = input]
    /\ waiting' = waiting \cup {s}
    /\ input' = KeptOnSubmit(input)
    /\ UNCHANGED <<written, viewVars, hubVars, typed, excused, pageVars>>

(* The answer of ChatController.SendMessage.  A success empties the box,   *)
(* whatever is in it by now.                                               *)
SubmitAnswered(s) ==
    /\ s \in waiting
    /\ waiting' = waiting \ {s}
    /\ \/ request[s] = "sent" /\ input' = Blank
       \/ request[s] \in {"refused", "unsent"} /\ UNCHANGED input
    /\ UNCHANGED <<postVars, viewVars, hubVars, typed, text, excused,
                   pageVars>>

(* No answer comes, and the request goes its way.                          *)
AnswerLost(s) ==
    /\ s \in waiting
    /\ waiting' = waiting \ {s}
    /\ UNCHANGED <<postVars, viewVars, hubVars, input, typed, text, excused,
                   pageVars>>

-----------------------------------------------------------------------------
(* SendMessageCommandHandler: the message is made and gets its SentAt.     *)
Write(p) ==
    /\ \/ p \in Others /\ request[p] = "none"
       \/ p \in Submits /\ request[p] = "posted" /\ text[p] # Blank
    /\ request' = [request EXCEPT ![p] = "written"]
    /\ written' = Append(written, p)
    /\ UNCHANGED <<viewVars, hubVars, formVars, pageVars>>

Store(p) ==
    /\ request[p] = "written"
    /\ request' = [request EXCEPT ![p] = "stored"]
    /\ UNCHANGED <<written, viewVars, hubVars, formVars, pageVars>>

(* The message is blank or too long, the user may not send messages to the *)
(* room, or the message cannot be saved.                                   *)
Refuse(p) ==
    /\ request[p] \in {"posted", "written"}
    /\ request' = [request EXCEPT ![p] = "refused"]
    /\ UNCHANGED <<written, viewVars, hubVars, formVars, pageVars>>

(* ChatController.SendMessage sends a stored message to the group.         *)
SendToGroup(p) ==
    /\ request[p] = "stored"
    /\ request' = [request EXCEPT ![p] = "sent"]
    /\ wire' = IF conn \in group THEN wire \o Broadcasts(p) ELSE wire
    /\ UNCHANGED <<written, viewVars, hub, conn, join, group, formVars,
                   pageVars>>

(* That fails, and so does the request.                                    *)
SendFails(p) ==
    /\ request[p] = "stored"
    /\ request' = [request EXCEPT ![p] = "unsent"]
    /\ UNCHANGED <<written, viewVars, hubVars, formVars, pageVars>>

-----------------------------------------------------------------------------
HubNext ==
    \/ HubStarted
    \/ HubFails
    \/ JoinChat
    \/ HubDrops
    \/ HubReconnects
    \/ HubGivesUp
    \/ ReceiveMessage

PostNext(p) ==
    \/ Write(p)
    \/ Store(p)
    \/ Refuse(p)
    \/ SendToGroup(p)
    \/ SendFails(p)

FormNext(s) ==
    \/ Submit(s)
    \/ SubmitAnswered(s)
    \/ AnswerLost(s)

Next ==
    \/ Load
    \/ HubNext
    \/ Type
    \/ \E s \in Submits : FormNext(s)
    \/ \E p \in Posts : PostNext(p)

(* A request that has stored its message goes on, and an open connection   *)
(* delivers.                                                               *)
Fairness ==
    /\ \A p \in Posts : WF_vars(SendToGroup(p) \/ SendFails(p))
    /\ WF_vars(ReceiveMessage)

Spec == Init /\ [][Next]_vars

FairSpec == Spec /\ Fairness

-----------------------------------------------------------------------------
(* Every variable keeps its type, and messages are only on their way to a  *)
(* page whose connection is open.                                          *)
TypeOK ==
    /\ request \in [Posts -> {"none", "posted", "written", "refused",
                              "stored", "sent", "unsent"}]
    /\ written \in Seq(Posts)
    /\ loads \in 0 .. MaxLoads
    /\ history \in SUBSET Posts
    /\ live \in Seq(Posts)
    /\ hub \in {"starting", "up", "reconnecting", "closed"}
    /\ conn \in 0 .. MaxConnections
    /\ join \in {"none", "invoked", "done"}
    /\ group \in SUBSET (1 .. MaxConnections)
    /\ wire \in Seq(Posts)
    /\ input \in 0 .. MaxTexts
    /\ typed \in 0 .. MaxTexts
    /\ text \in [Submits -> 0 .. MaxTexts]
    /\ waiting \in SUBSET Submits
    /\ stored \in SUBSET Posts
    /\ sent \in SUBSET Posts
    /\ excused \in SUBSET (0 .. MaxTexts)
    /\ wire # <<>> => hub = "up"

(* The page shows a message twice only if it was rendered while the        *)
(* message was stored and not yet sent to the group.  In particular, what  *)
(* comes over the connection is shown once.                                *)
TwiceOnlyAcrossLoad ==
    /\ \A i, j \in 1 .. Len(live) : i < j => live[i] # live[j]
    /\ history \cap Items(live) \subseteq stored \ sent

(* While the connection it joined the room with lasts, the page misses no  *)
(* message but those sent to the group between the rendering and JoinChat, *)
(* and those that HistorySize messages of the rendering are later than.    *)
MissedOnlyInGap ==
    join = "done" =>
        \A p \in Posts :
            request[p] = "sent" =>
                \/ p \in history \cup Items(live) \cup Items(wire)
                \/ p \in sent \ stored
                \/ p \in stored /\ Cardinality(LaterThan(p, stored)) >= HistorySize

(* A text leaves the box only when it is stored, unless the user typed it  *)
(* while he waited for an answer, typed over it or loaded the page again.  *)
TextKept ==
    \A t \in 1 .. typed :
        \/ t = input
        \/ t \in excused
        \/ \E s \in Submits : text[s] = t /\ IsStored(s)

(* A message stored while the page is in the group appears on it, as long  *)
(* as the connection lasts and the message can be sent at all.             *)
StoredIsShown ==
    \A p \in Posts :
        join = "done" /\ request[p] = "stored" ~>
            \/ p \in Items(live)
            \/ request[p] = "unsent"
            \/ join # "done"
=============================================================================
