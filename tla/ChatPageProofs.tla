---------------------------- MODULE ChatPageProofs ----------------------------
(***************************************************************************)
(* Theorems about ChatPage, for any posts, any length of the history and   *)
(* any number of loads, connections and texts.                             *)
(***************************************************************************)
EXTENDS ChatPage, SequenceTheorems, FiniteSetTheorems, TLAPS

(* What has come over the connection or is on its way.                     *)
Arrivals == live \o wire

Distinct(s) == \A i, j \in 1 .. Len(s) : i < j => s[i] # s[j]

(* The page shows what the query read, which is still stored.              *)
HistoryOK ==
    /\ \A p \in stored : IsStored(p)
    /\ history = ChatMessages(stored)

(* The page is in the group if it has joined on this very connection.      *)
JoinOK ==
    /\ group = IF join = "done" THEN {conn} ELSE {}
    /\ join # "none" => hub = "up" /\ conn > 0
    /\ wire # <<>> => join = "done"
    /\ hub = "starting" \/ join = "invoked" => live = <<>>

(* A message comes at most once, and only one sent after the page joined.  *)
ArrivalsOK ==
    /\ \A p \in sent : request[p] = "sent"
    /\ \A p \in Items(Arrivals) : request[p] = "sent" /\ p \notin sent
    /\ Distinct(Arrivals)

(* Once the page has joined, a message was sent before, or arrives.        *)
GapOK ==
    join = "done" =>
        \A p \in Posts : request[p] = "sent" => p \in sent \cup Items(Arrivals)

(* While a submission is waited for, the box holds its text or an excused  *)
(* one.                                                                    *)
FormOK ==
    /\ \A s \in waiting : input \in {Blank, text[s]} \cup excused
    /\ TextKept

IInv == TypeOK /\ HistoryOK /\ JoinOK /\ ArrivalsOK /\ GapOK /\ FormOK

USE PostsAssumption, HistoryAssumption, BoundsAssumption

-----------------------------------------------------------------------------
(* Lemmas about sequences.                                                 *)
LEMMA ItemsOfAppend ==
    ASSUME NEW s \in Seq(Posts), NEW p \in Posts
    PROVE  Items(Append(s, p)) = Items(s) \cup {p}
<1>1. Len(Append(s, p)) = Len(s) + 1 /\ Append(s, p)[Len(s) + 1] = p
  BY AppendProperties
<1>2. \A i \in 1 .. Len(s) : Append(s, p)[i] = s[i]
  BY AppendProperties
<1>3. Len(s) \in Nat
  BY LenProperties
<1> QED BY <1>1, <1>2, <1>3 DEF Items

LEMMA DistinctAppend ==
    ASSUME NEW s \in Seq(Posts), NEW p \in Posts \ Items(s), Distinct(s)
    PROVE  Distinct(Append(s, p))
<1>1. Len(Append(s, p)) = Len(s) + 1 /\ Append(s, p)[Len(s) + 1] = p
  BY AppendProperties
<1>2. \A i \in 1 .. Len(s) : Append(s, p)[i] = s[i]
  BY AppendProperties
<1>3. Len(s) \in Nat
  BY LenProperties
<1> QED BY <1>1, <1>2, <1>3 DEF Items, Distinct

LEMMA ItemsOfConcat ==
    ASSUME NEW s \in Seq(Posts), NEW t \in Seq(Posts)
    PROVE  Items(s \o t) = Items(s) \cup Items(t)
<1>1. Len(s) \in Nat /\ Len(t) \in Nat /\ Len(s \o t) = Len(s) + Len(t)
  BY ConcatProperties, LenProperties
<1>2. \A i \in 1 .. Len(s) : (s \o t)[i] = s[i]
  BY <1>1, ConcatProperties
<1>3. \A i \in 1 .. Len(t) : (s \o t)[Len(s) + i] = t[i]
  BY <1>1, ConcatProperties
<1>4. ASSUME NEW p \in Items(s \o t)
      PROVE  p \in Items(s) \cup Items(t)
  <2>1. PICK i \in 1 .. Len(s \o t) : p = (s \o t)[i]
    BY DEF Items
  <2>2. CASE i <= Len(s)
    <3>1. i \in 1 .. Len(s) /\ p = s[i]
      BY <1>1, <1>2, <2>1, <2>2
    <3> QED BY <3>1 DEF Items
  <2>3. CASE i > Len(s)
    <3>1. i - Len(s) \in 1 .. Len(t) /\ i = Len(s) + (i - Len(s))
      BY <1>1, <2>3
    <3>2. p = t[i - Len(s)]
      BY <1>3, <2>1, <3>1
    <3> QED BY <3>1, <3>2 DEF Items
  <2> QED BY <1>1, <2>2, <2>3
<1>5. ASSUME NEW p \in Items(s)
      PROVE  p \in Items(s \o t)
  <2>1. PICK i \in 1 .. Len(s) : p = s[i]
    BY DEF Items
  <2>2. i \in 1 .. Len(s \o t) /\ p = (s \o t)[i]
    BY <1>1, <1>2, <2>1
  <2> QED BY <2>2 DEF Items
<1>6. ASSUME NEW p \in Items(t)
      PROVE  p \in Items(s \o t)
  <2>1. PICK i \in 1 .. Len(t) : p = t[i]
    BY DEF Items
  <2>2. Len(s) + i \in 1 .. Len(s \o t) /\ p = (s \o t)[Len(s) + i]
    BY <1>1, <1>3, <2>1
  <2> QED BY <2>2 DEF Items
<1> QED BY <1>4, <1>5, <1>6

LEMMA DistinctPrefix ==
    ASSUME NEW s \in Seq(Posts), NEW t \in Seq(Posts), Distinct(s \o t)
    PROVE  Distinct(s)
<1>1. Len(s) \in Nat /\ Len(t) \in Nat /\ Len(s \o t) = Len(s) + Len(t)
  BY ConcatProperties, LenProperties
<1>2. \A i \in 1 .. Len(s) : (s \o t)[i] = s[i]
  BY <1>1, ConcatProperties
<1> QED BY <1>1, <1>2 DEF Distinct

LEMMA MovedHead ==
    ASSUME NEW s \in Seq(Posts), NEW t \in Seq(Posts), t # <<>>
    PROVE  Append(s, Head(t)) \o Tail(t) = s \o t
BY SMTT(60)

-----------------------------------------------------------------------------
LEMMA InitInv == Init => IInv
<1> SUFFICES ASSUME Init PROVE IInv
  OBVIOUS
<1>0. Arrivals = <<>> /\ Items(Arrivals) = {}
  BY DEF Init, Arrivals, Items
<1>1. TypeOK
  BY DEF Init, TypeOK, Blank
<1>2. HistoryOK
  BY DEF Init, HistoryOK, ChatMessages
<1>3. JoinOK
  BY DEF Init, JoinOK
<1>4. ArrivalsOK
  BY <1>0 DEF Init, ArrivalsOK, Distinct
<1>5. GapOK
  BY DEF Init, GapOK
<1>6. FormOK
  <2>1. 1 .. typed = {}
    BY DEF Init
  <2> QED BY <2>1 DEF Init, FormOK, TextKept
<1> QED BY <1>1, <1>2, <1>3, <1>4, <1>5, <1>6 DEF IInv

(* Every variable keeps its type.                                          *)
LEMMA TypeStep == TypeOK /\ JoinOK /\ Next => TypeOK'
<1> SUFFICES ASSUME TypeOK, JoinOK, Next PROVE TypeOK'
  OBVIOUS
<1> USE DEF TypeOK, postVars, viewVars, hubVars, formVars, pageVars
<1>1. CASE Load
  BY <1>1 DEF Load, ChatMessages, Blank
<1>2. CASE HubStarted \/ HubFails \/ JoinChat \/ HubReconnects \/ HubGivesUp
  <2>1. CASE HubStarted \/ HubReconnects
    <3>1. conn' \in 0 .. MaxConnections
      BY <2>1 DEF HubStarted, HubReconnects
    <3> QED BY <2>1, <3>1 DEF HubStarted, HubReconnects
  <2>2. CASE HubFails \/ HubGivesUp
    <3>1. wire = <<>>
      BY <2>2 DEF HubFails, HubGivesUp
    <3> QED BY <2>2, <3>1 DEF HubFails, HubGivesUp
  <2>3. CASE JoinChat
    <3>1. conn \in 1 .. MaxConnections
      BY <2>3 DEF JoinChat, JoinOK
    <3>2. group' \in SUBSET (1 .. MaxConnections)
      BY <2>3, <3>1 DEF JoinChat, Joins
    <3>3. sent' \in SUBSET Posts
      BY <2>3 DEF JoinChat
    <3> QED BY <2>3, <3>2, <3>3 DEF JoinChat
  <2> QED BY <1>2, <2>1, <2>2, <2>3
<1>3. CASE HubDrops
  BY <1>3 DEF HubDrops, JoinLost, WireLost
<1>4. CASE ReceiveMessage
  <2>1. Head(wire) \in Posts /\ wire' \in Seq(Posts)
    BY <1>4, HeadTailProperties DEF ReceiveMessage
  <2>2. live' \in Seq(Posts)
    BY <1>4, <2>1, AppendProperties DEF ReceiveMessage
  <2> QED BY <1>4, <2>1, <2>2 DEF ReceiveMessage
<1>5. CASE Type
  BY <1>5 DEF Type
<1>6. ASSUME NEW s \in Submits, FormNext(s)
      PROVE  TypeOK'
  <2>1. CASE Submit(s)
    <3>1. request' \in [Posts -> {"none", "posted", "written", "refused",
                                  "stored", "sent", "unsent"}]
      BY <2>1 DEF Submit, Posts
    <3>2. text' \in [Submits -> 0 .. MaxTexts]
      BY <2>1 DEF Submit
    <3> QED BY <2>1, <3>1, <3>2 DEF Submit, KeptOnSubmit
  <2>2. CASE SubmitAnswered(s) \/ AnswerLost(s)
    <3>1. input' \in {input, 0}
      BY <2>2 DEF SubmitAnswered, AnswerLost, Blank
    <3>2. input' \in 0 .. MaxTexts
      BY <3>1
    <3> QED BY <2>2, <3>2 DEF SubmitAnswered, AnswerLost
  <2> QED BY <1>6, <2>1, <2>2 DEF FormNext
<1>7. ASSUME NEW p \in Posts, PostNext(p)
      PROVE  TypeOK'
  <2>1. CASE Write(p)
    BY <2>1, AppendProperties DEF Write
  <2>2. CASE SendToGroup(p)
    <3>1. wire \o <<p>> \in Seq(Posts)
      BY ConcatProperties
    <3>2. wire' \in Seq(Posts) /\ (wire' # <<>> => hub' = "up")
      BY <2>2, <3>1 DEF SendToGroup, Broadcasts, JoinOK
    <3> QED BY <2>2, <3>2 DEF SendToGroup
  <2>3. CASE Store(p) \/ Refuse(p) \/ SendFails(p)
    BY <2>3 DEF Store, Refuse, SendFails
  <2> QED BY <1>7, <2>1, <2>2, <2>3 DEF PostNext
<1> QED
  BY <1>1, <1>2, <1>3, <1>4, <1>5, <1>6, <1>7 DEF Next, HubNext

(* A request never takes back that its message is stored or sent.          *)
LEMMA RequestsProgress ==
    ASSUME TypeOK, Next
    PROVE  /\ \A p \in Posts : IsStored(p) => IsStored(p)'
           /\ \A p \in Posts : request[p] = "sent" => request'[p] = "sent"
<1> USE DEF TypeOK, IsStored, postVars
<1>1. CASE Load \/ HubNext \/ Type
  BY <1>1 DEF Load, HubNext, HubStarted, HubFails, JoinChat, HubDrops,
     HubReconnects, HubGivesUp, ReceiveMessage, Type
<1>2. ASSUME NEW s \in Submits, FormNext(s)
      PROVE  /\ \A p \in Posts : IsStored(p) => IsStored(p)'
             /\ \A p \in Posts : request[p] = "sent" => request'[p] = "sent"
  <2>1. CASE Submit(s)
    BY <2>1 DEF Submit
  <2>2. CASE SubmitAnswered(s) \/ AnswerLost(s)
    BY <2>2 DEF SubmitAnswered, AnswerLost
  <2> QED BY <1>2, <2>1, <2>2 DEF FormNext
<1>3. ASSUME NEW q \in Posts, PostNext(q)
      PROVE  /\ \A p \in Posts : IsStored(p) => IsStored(p)'
             /\ \A p \in Posts : request[p] = "sent" => request'[p] = "sent"
  BY <1>3 DEF PostNext, Write, Store, Refuse, SendToGroup, SendFails
<1> QED BY <1>1, <1>2, <1>3 DEF Next, Posts

LEMMA JoinStep == TypeOK /\ JoinOK /\ Next => JoinOK'
<1> SUFFICES ASSUME TypeOK, JoinOK, Next PROVE JoinOK'
  OBVIOUS
<1> USE DEF TypeOK, JoinOK, viewVars, hubVars
<1>1. CASE Load
  BY <1>1 DEF Load
<1>2. CASE HubStarted \/ HubFails \/ HubReconnects \/ HubGivesUp
  BY <1>2 DEF HubStarted, HubFails, HubReconnects, HubGivesUp
<1>3. CASE JoinChat \/ HubDrops
  BY <1>3 DEF JoinChat, Joins, HubDrops, JoinLost, WireLost
<1>4. CASE ReceiveMessage
  BY <1>4 DEF ReceiveMessage
<1>5. CASE Type \/ \E s \in Submits : FormNext(s)
  BY <1>5 DEF Type, FormNext, Submit, SubmitAnswered, AnswerLost
<1>6. ASSUME NEW p \in Posts, PostNext(p)
      PROVE  JoinOK'
  BY <1>6 DEF PostNext, Write, Store, Refuse, SendToGroup, SendFails
<1> QED BY <1>1, <1>2, <1>3, <1>4, <1>5, <1>6 DEF Next, HubNext

-----------------------------------------------------------------------------
(* What the page was rendered with stays what the query would have read.   *)
LEMMA HistoryStep == TypeOK /\ HistoryOK /\ Next => HistoryOK'
<1> SUFFICES ASSUME TypeOK, HistoryOK, Next PROVE HistoryOK'
  OBVIOUS
<1> USE DEF TypeOK, HistoryOK, viewVars, pageVars
<1>1. CASE Load
  <2>1. \A p \in Posts : IsStored(p) <=> IsStored(p)'
    BY <1>1 DEF Load, IsStored, postVars
  <2>2. written' = written
    BY <1>1 DEF Load, postVars
  <2>3. history' = ChatMessages(stored')
    BY <1>1 DEF Load
  <2>4. ChatMessages(stored)' = ChatMessages(stored')
    BY <2>2 DEF ChatMessages, LaterThan, Before
  <2> QED BY <1>1, <2>1, <2>3, <2>4 DEF Load
<1>2. CASE ~Load
  <2>1. history' = history /\ stored' = stored
    BY <1>2 DEF Next, HubNext, PostNext, FormNext, HubStarted, HubFails,
       JoinChat, HubDrops, HubReconnects, HubGivesUp, ReceiveMessage, Type,
       Submit, SubmitAnswered, AnswerLost, Write, Store, Refuse, SendToGroup,
       SendFails
  <2>2. \A p \in stored' : IsStored(p)'
    BY <2>1, RequestsProgress
  <2>3. ASSUME NEW p \in Posts, NEW q \in stored
        PROVE  Before(p, q) <=> Before(p, q)'
    <3>1. CASE written' = written
      BY <3>1 DEF Before
    <3>2. ASSUME NEW n \in Posts, Write(n)
          PROVE  Before(p, q) <=> Before(p, q)'
      <4>1. q # n
        BY <3>2 DEF Write, IsStored
      <4>2. /\ Len(written) \in Nat
            /\ Len(written') = Len(written) + 1
            /\ written'[Len(written) + 1] = n
            /\ \A i \in 1 .. Len(written) : written'[i] = written[i]
        BY <3>2, AppendProperties, LenProperties DEF Write
      <4>3. Before(p, q) => Before(p, q)'
        BY <4>2 DEF Before
      <4>4. ASSUME NEW i \in 1 .. Len(written'), NEW j \in 1 .. Len(written'),
                   i < j, written'[i] = p, written'[j] = q
            PROVE  Before(p, q)
        <5>1. j # Len(written) + 1
          BY <4>1, <4>2, <4>4
        <5>2. Len(written) \in Nat /\ Len(written') = Len(written) + 1
          BY <4>2
        <5>3. i \in 1 .. Len(written) /\ j \in 1 .. Len(written)
          BY ONLY <4>4, <5>1, <5>2, i \in 1 .. Len(written'),
                  j \in 1 .. Len(written')
        <5> QED BY <4>2, <4>4, <5>3 DEF Before
      <4> QED BY <4>3, <4>4 DEF Before
    <3>3. written' = written \/ \E n \in Posts : Write(n)
      BY <1>2 DEF Next, HubNext, PostNext, FormNext, HubStarted, HubFails,
         JoinChat, HubDrops, HubReconnects, HubGivesUp, ReceiveMessage, Type,
         Submit, SubmitAnswered, AnswerLost, Store, Refuse, SendToGroup,
         SendFails, postVars
    <3> QED BY <3>1, <3>2, <3>3
  <2>4. \A p \in Posts : LaterThan(p, stored) = LaterThan(p, stored)'
    BY <2>1, <2>3 DEF LaterThan
  <2>5. ChatMessages(stored) = ChatMessages(stored)'
    BY <2>1, <2>4 DEF ChatMessages
  <2> QED BY <2>1, <2>2, <2>5
<1> QED BY <1>1, <1>2

(* How what arrives changes.                                               *)
LEMMA ArrivalsStep ==
    ASSUME TypeOK, JoinOK, Next
    PROVE  \/ Load /\ Arrivals' = <<>>
           \/ HubDrops /\ Arrivals' = live
           \/ JoinChat /\ Arrivals' = <<>> /\ Arrivals = <<>>
           \/ \E p \in Posts :
                 /\ SendToGroup(p)
                 /\ Arrivals' = IF join = "done" THEN Append(Arrivals, p)
                                                 ELSE Arrivals
           \/ /\ UNCHANGED <<sent, Arrivals, join>>
              /\ \A p \in Posts : request'[p] = "sent" => request[p] = "sent"
           \/ /\ UNCHANGED <<sent, Arrivals>>
              /\ join' # "done"
              /\ UNCHANGED request
<1> USE DEF TypeOK, JoinOK, Arrivals, viewVars, hubVars, pageVars
<1>1. CASE Load
  BY <1>1, ConcatEmptySeq DEF Load
<1>2. CASE HubStarted
  BY <1>2 DEF HubStarted, postVars
<1>3. CASE HubFails \/ HubReconnects \/ HubGivesUp \/ Type
  BY <1>3 DEF HubFails, HubReconnects, HubGivesUp, Type, postVars
<1>4. CASE JoinChat
  BY <1>4, ConcatEmptySeq DEF JoinChat
<1>5. CASE HubDrops
  BY <1>5, ConcatEmptySeq DEF HubDrops, WireLost
<1>6. CASE ReceiveMessage
  <2>1. Arrivals' = Arrivals
    BY <1>6, MovedHead DEF ReceiveMessage
  <2> QED BY <1>6, <2>1 DEF ReceiveMessage, postVars
<1>7. ASSUME NEW s \in Submits, FormNext(s)
      PROVE  /\ UNCHANGED <<sent, Arrivals, join>>
             /\ \A p \in Posts : request'[p] = "sent" => request[p] = "sent"
  <2>1. CASE Submit(s)
    BY <2>1 DEF Submit
  <2>2. CASE SubmitAnswered(s) \/ AnswerLost(s)
    BY <2>2 DEF SubmitAnswered, AnswerLost, postVars
  <2> QED BY <1>7, <2>1, <2>2 DEF FormNext
<1>8. ASSUME NEW p \in Posts, SendToGroup(p)
      PROVE  Arrivals' = IF join = "done" THEN Append(Arrivals, p)
                                          ELSE Arrivals
  <2>1. CASE join = "done"
    <3>1. <<p>> \in Seq(Posts)
      OBVIOUS
    <3>2. conn \in group
      BY <2>1
    <3>3. wire' = wire \o <<p>> /\ live' = live
      BY <1>8, <3>2 DEF SendToGroup, Broadcasts
    <3>4. Arrivals' = live \o (wire \o <<p>>)
      BY <3>3
    <3>5. live \o (wire \o <<p>>) = (live \o wire) \o <<p>>
      BY <3>1, ConcatAssociative
    <3>6. Arrivals \in Seq(Posts)
      BY ConcatProperties
    <3>7. Append(Arrivals, p) = Arrivals \o <<p>>
      BY <3>6, AppendIsConcat
    <3> QED BY <2>1, <3>4, <3>5, <3>7
  <2>2. CASE join # "done"
    BY <1>8, <2>2 DEF SendToGroup
  <2> QED BY <2>1, <2>2
<1>9. ASSUME NEW p \in Posts, Write(p) \/ Store(p) \/ Refuse(p) \/ SendFails(p)
      PROVE  /\ UNCHANGED <<sent, Arrivals, join>>
             /\ \A q \in Posts : request'[q] = "sent" => request[q] = "sent"
  BY <1>9 DEF Write, Store, Refuse, SendFails
<1> QED
  BY <1>1, <1>2, <1>3, <1>4, <1>5, <1>6, <1>7, <1>8, <1>9
     DEF Next, HubNext, PostNext

LEMMA OnceStep ==
    TypeOK /\ JoinOK /\ ArrivalsOK /\ Next => ArrivalsOK'
<1> SUFFICES ASSUME TypeOK, JoinOK, ArrivalsOK, Next PROVE ArrivalsOK'
  OBVIOUS
<1>0. Arrivals \in Seq(Posts) /\ live \in Seq(Posts) /\ wire \in Seq(Posts)
  BY ConcatProperties DEF TypeOK, Arrivals
<1>1. Items(Arrivals) \subseteq Posts /\ sent \subseteq Posts
  BY <1>0, ElementOfSeq DEF Items, TypeOK
<1>2. \A p \in Posts : request[p] = "sent" => request'[p] = "sent"
  BY RequestsProgress
<1>3. CASE Load /\ Arrivals' = <<>>
  <2>1. sent' = {} /\ Items(Arrivals)' = {} /\ Len(Arrivals') = 0
    BY <1>3 DEF Load, Items
  <2> QED BY <2>1 DEF ArrivalsOK, Distinct
<1>4. CASE HubDrops /\ Arrivals' = live
  <2>0. Items(Arrivals) = Items(live) \cup Items(wire)
    BY <1>0, ItemsOfConcat DEF Arrivals
  <2>1. sent' = sent /\ Items(Arrivals)' = Items(live)
    BY <1>4 DEF HubDrops, pageVars, Items
  <2>2. Distinct(Arrivals)'
    <3>1. Distinct(live)
      BY <1>0, DistinctPrefix DEF ArrivalsOK, Arrivals
    <3> QED BY <1>4, <3>1 DEF Distinct
  <2> QED BY <1>1, <1>2, <2>0, <2>1, <2>2 DEF ArrivalsOK
<1>5. CASE JoinChat /\ Arrivals' = <<>> /\ Arrivals = <<>>
  <2>1. Items(Arrivals)' = {} /\ Len(Arrivals') = 0
    BY <1>5 DEF Items
  <2>2. \A p \in sent' : request'[p] = "sent"
    BY <1>5 DEF JoinChat, postVars
  <2> QED BY <2>1, <2>2 DEF ArrivalsOK, Distinct
<1>6. ASSUME NEW p \in Posts, SendToGroup(p),
             Arrivals' = IF join = "done" THEN Append(Arrivals, p)
                                          ELSE Arrivals
      PROVE  ArrivalsOK'
  <2>1. p \notin sent /\ p \notin Items(Arrivals)
    BY <1>6 DEF SendToGroup, ArrivalsOK
  <2>2. sent' = sent /\ request'[p] = "sent"
    BY <1>6 DEF SendToGroup, pageVars, TypeOK
  <2>3. Items(Arrivals)' \subseteq Items(Arrivals) \cup {p}
    BY <1>0, <1>6, ItemsOfAppend DEF Items
  <2>4. Distinct(Arrivals)'
    BY <1>0, <1>6, <2>1, DistinctAppend DEF ArrivalsOK, Distinct
  <2> QED BY <1>1, <1>2, <2>1, <2>2, <2>3, <2>4 DEF ArrivalsOK
<1>7. CASE UNCHANGED <<sent, Arrivals>>
  BY <1>1, <1>2, <1>7 DEF ArrivalsOK, Items, Distinct
<1> QED BY <1>3, <1>4, <1>5, <1>6, <1>7, ArrivalsStep

LEMMA GapStep == TypeOK /\ JoinOK /\ GapOK /\ Next => GapOK'
<1> SUFFICES ASSUME TypeOK, JoinOK, GapOK, Next PROVE GapOK'
  OBVIOUS
<1>0. Arrivals \in Seq(Posts)
  BY ConcatProperties DEF TypeOK, Arrivals
<1>1. CASE Load \/ HubDrops
  BY <1>1 DEF Load, HubDrops, JoinLost, GapOK
<1>2. CASE JoinChat
  BY <1>2 DEF JoinChat, GapOK, postVars
<1>3. ASSUME NEW p \in Posts, SendToGroup(p),
             Arrivals' = IF join = "done" THEN Append(Arrivals, p)
                                          ELSE Arrivals
      PROVE  GapOK'
  <2>1. join' = join /\ sent' = sent
    BY <1>3 DEF SendToGroup, pageVars
  <2>2. \A q \in Posts \ {p} : request'[q] = request[q]
    BY <1>3 DEF SendToGroup, TypeOK
  <2>3. CASE join = "done"
    <3>1. Items(Arrivals)' = Items(Arrivals) \cup {p}
      BY <1>0, <1>3, <2>3, ItemsOfAppend DEF Items
    <3> QED BY <2>1, <2>2, <2>3, <3>1 DEF GapOK
  <2> QED BY <2>1, <2>3 DEF GapOK
<1>4. CASE /\ UNCHANGED <<sent, Arrivals, join>>
           /\ \A p \in Posts : request'[p] = "sent" => request[p] = "sent"
  BY <1>4 DEF GapOK, Items
<1>5. CASE join' # "done"
  BY <1>5 DEF GapOK
<1> QED BY <1>1, <1>2, <1>3, <1>4, <1>5, ArrivalsStep

-----------------------------------------------------------------------------
(* What is in the box.                                                     *)
LEMMA FormStep == TypeOK /\ FormOK /\ Next => FormOK'
<1> SUFFICES ASSUME TypeOK, FormOK, Next PROVE FormOK'
  OBVIOUS
<1>0. \A p \in Posts : IsStored(p) => IsStored(p)'
  BY RequestsProgress
<1> USE DEF FormOK, TextKept, formVars
<1>1. CASE Load
  BY <1>0, <1>1 DEF Load, Posts
<1>2. CASE HubNext
  BY <1>0, <1>2 DEF HubNext, HubStarted, HubFails, JoinChat, HubDrops,
     HubReconnects, HubGivesUp, ReceiveMessage, Posts
<1>3. CASE Type
  <2>1. typed' = typed + 1 /\ typed \in Nat /\ input' = typed'
    BY <1>3 DEF Type, TypeOK
  <2>2. excused \cup {input} \subseteq excused' /\ UNCHANGED <<text, waiting>>
    BY <1>3 DEF Type
  <2>3. waiting # {} => input' \in excused'
    BY <1>3 DEF Type
  <2>4. \A t \in 1 .. typed' : t \in 1 .. typed \/ t = input'
    BY <2>1
  <2> QED BY <1>0, <2>2, <2>3, <2>4 DEF Posts
<1>4. ASSUME NEW s \in Submits, Submit(s)
      PROVE  FormOK'
  <2>1. /\ ~IsStored(s)
        /\ input' = input /\ text'[s] = input
        /\ \A r \in Submits \ {s} : text'[r] = text[r]
        /\ waiting' = waiting \cup {s}
        /\ UNCHANGED <<typed, excused>>
    BY <1>4 DEF Submit, KeptOnSubmit, IsStored, TypeOK
  <2>2. waiting \subseteq Submits
    BY DEF TypeOK
  <2> QED BY <1>0, <2>1, <2>2 DEF Posts
<1>5. ASSUME NEW s \in Submits, SubmitAnswered(s)
      PROVE  FormOK'
  <2>1. /\ s \in waiting /\ waiting' = waiting \ {s}
        /\ UNCHANGED <<typed, text, excused>>
        /\ \/ input' = input
           \/ input' = Blank /\ IsStored(s)
    BY <1>5 DEF SubmitAnswered, IsStored
  <2>2. CASE input' = input
    BY <1>0, <2>1, <2>2 DEF Posts
  <2>3. CASE input' = Blank /\ IsStored(s)
    <3>1. \A t \in 1 .. typed : t # Blank
      BY DEF Blank, TypeOK
    <3> QED BY <1>0, <2>1, <2>3, <3>1 DEF Posts
  <2> QED BY <2>1, <2>2, <2>3
<1>6. ASSUME NEW s \in Submits, AnswerLost(s)
      PROVE  FormOK'
  BY <1>0, <1>6 DEF AnswerLost, Posts
<1>7. ASSUME NEW p \in Posts, PostNext(p)
      PROVE  FormOK'
  BY <1>0, <1>7 DEF PostNext, Write, Store, Refuse, SendToGroup, SendFails,
     Posts
<1> QED BY <1>1, <1>2, <1>3, <1>4, <1>5, <1>6, <1>7 DEF Next, FormNext

-----------------------------------------------------------------------------
LEMMA NextInv == IInv /\ [Next]_vars => IInv'
<1> SUFFICES ASSUME IInv, [Next]_vars PROVE IInv'
  OBVIOUS
<1>1. CASE Next
  BY <1>1, TypeStep, HistoryStep, JoinStep, OnceStep, GapStep, FormStep
     DEF IInv
<1>2. CASE UNCHANGED vars
  <2> USE <1>2 DEF vars, postVars, viewVars, hubVars, formVars, pageVars, IInv
  <2>1. TypeOK' /\ JoinOK'
    BY DEF TypeOK, JoinOK
  <2>2. HistoryOK'
    BY DEF HistoryOK, IsStored, ChatMessages, LaterThan, Before
  <2>3. ArrivalsOK' /\ GapOK'
    BY DEF ArrivalsOK, GapOK, Arrivals, Items, Distinct
  <2>4. FormOK'
    BY DEF FormOK, TextKept, IsStored
  <2> QED BY <2>1, <2>2, <2>3, <2>4
<1> QED BY <1>1, <1>2

LEMMA Inductive == Spec => []IInv
<1> QED BY InitInv, NextInv, PTL DEF Spec

(* Every variable keeps its type, and messages are only on their way to a  *)
(* page whose connection is open.                                          *)
THEOREM TypeCorrect == Spec => []TypeOK
<1>1. IInv => TypeOK
  BY DEF IInv
<1> QED BY <1>1, Inductive, PTL

(* The page shows a message twice only if it was rendered while the        *)
(* message was stored and not yet sent to the group.                       *)
THEOREM ShownTwiceOnlyAcrossLoad == Spec => []TwiceOnlyAcrossLoad
<1>1. IInv => TwiceOnlyAcrossLoad
  <2> SUFFICES ASSUME IInv PROVE TwiceOnlyAcrossLoad
    OBVIOUS
  <2>1. live \in Seq(Posts) /\ wire \in Seq(Posts)
    BY DEF IInv, TypeOK
  <2>2. Distinct(live)
    BY <2>1, DistinctPrefix DEF IInv, ArrivalsOK, Arrivals
  <2>3. Items(live) \cap sent = {}
    <3>1. Items(Arrivals) = Items(live) \cup Items(wire)
      BY <2>1, ItemsOfConcat DEF Arrivals
    <3> QED BY <3>1 DEF IInv, ArrivalsOK
  <2>4. history \subseteq stored
    BY DEF IInv, HistoryOK, ChatMessages
  <2> QED BY <2>2, <2>3, <2>4 DEF TwiceOnlyAcrossLoad, Distinct
<1> QED BY <1>1, Inductive, PTL

(* While the connection it joined the room with lasts, the page misses no  *)
(* message but those of the gap and those the history leaves out.          *)
THEOREM NothingElseIsMissed == Spec => []MissedOnlyInGap
<1>1. IInv => MissedOnlyInGap
  <2> SUFFICES ASSUME IInv, join = "done", NEW p \in Posts,
                      request[p] = "sent"
               PROVE  \/ p \in history \cup Items(live) \cup Items(wire)
                      \/ p \in sent \ stored
                      \/ /\ p \in stored
                         /\ Cardinality(LaterThan(p, stored)) >= HistorySize
    BY DEF MissedOnlyInGap
  <2>1. live \in Seq(Posts) /\ wire \in Seq(Posts) /\ written \in Seq(Posts)
    BY DEF IInv, TypeOK
  <2>2. p \in sent \cup Items(live) \cup Items(wire)
    <3>1. Items(Arrivals) = Items(live) \cup Items(wire)
      BY <2>1, ItemsOfConcat DEF Arrivals
    <3> QED BY <3>1 DEF IInv, GapOK
  <2>3. CASE p \in stored /\ p \notin history
    <3>1. IsFiniteSet(Items(written))
      <4>1. Len(written) \in Nat /\ IsFiniteSet(1 .. Len(written))
        BY <2>1, LenProperties, FS_Interval
      <4>2. written \in [1 .. Len(written) -> Items(written)]
        BY <2>1, LenProperties DEF Items
      <4>3. written \in Surjection(1 .. Len(written), Items(written))
        BY <4>2 DEF Surjection, Items
      <4> QED BY <4>1, <4>3, FS_Surjection
    <3>2. LaterThan(p, stored) \in SUBSET Items(written)
      BY DEF LaterThan, Before, Items
    <3>3. Cardinality(LaterThan(p, stored)) \in Nat
      BY <3>1, <3>2, FS_Subset, FS_CardinalityType
    <3>4. ~(Cardinality(LaterThan(p, stored)) < HistorySize)
      BY <2>3 DEF IInv, HistoryOK, ChatMessages
    <3> QED BY <2>3, <3>3, <3>4
  <2> QED BY <2>2, <2>3
<1> QED BY <1>1, Inductive, PTL

(* A text leaves the box only when it is stored, unless the user typed it  *)
(* while he waited for an answer, typed over it or loaded the page again.  *)
THEOREM TextsAreKept == Spec => []TextKept
<1>1. IInv => TextKept
  BY DEF IInv, FormOK
<1> QED BY <1>1, Inductive, PTL

-----------------------------------------------------------------------------
(* A message that is sent while the page is in the group is put on its     *)
(* connection, and what is on the connection stays there or is shown, as   *)
(* long as the page stays in the group.  This is the part of StoredIsShown *)
(* that needs no fairness.                                                 *)
NothingIsLostOnTheWay ==
    join = "done" /\ join' = "done" =>
        /\ \A p \in Posts :
              request[p] = "stored" =>
                  \/ request'[p] \in {"stored", "unsent"}
                  \/ request'[p] = "sent" /\ p \in Items(wire')
        /\ Items(wire) \subseteq Items(wire') \cup Items(live')
        /\ Items(live) \subseteq Items(live')

LEMMA SendKeepsAll ==
    ASSUME IInv, NEW p \in Posts, SendToGroup(p), join = "done"
    PROVE  NothingIsLostOnTheWay
<1>1. live \in Seq(Posts) /\ wire \in Seq(Posts)
  BY DEF IInv, TypeOK
<1>2. conn \in group
  BY DEF IInv, JoinOK
<1>3. wire' = wire \o <<p>> /\ live' = live
  BY <1>2 DEF SendToGroup, Broadcasts, viewVars
<1>4. Append(wire, p) = wire \o <<p>>
  BY <1>1
<1>5. Items(wire') = Items(wire) \cup {p}
  BY <1>1, <1>3, <1>4, ItemsOfAppend
<1>6. request' = [request EXCEPT ![p] = "sent"]
  BY DEF SendToGroup
<1>7. \A q \in Posts : request'[q] = IF q = p THEN "sent" ELSE request[q]
  BY <1>6 DEF IInv, TypeOK
<1> QED BY <1>3, <1>5, <1>7 DEF NothingIsLostOnTheWay

LEMMA ReceiveKeepsAll ==
    ASSUME IInv, ReceiveMessage
    PROVE  NothingIsLostOnTheWay
<1>1. live \in Seq(Posts) /\ wire \in Seq(Posts) /\ wire # <<>>
  BY DEF IInv, TypeOK, ReceiveMessage
<1>2. /\ live' = Append(live, Head(wire)) /\ wire' = Tail(wire)
      /\ request' = request
  BY DEF ReceiveMessage, postVars
<1>3. Head(wire) \in Posts /\ Tail(wire) \in Seq(Posts)
  BY <1>1, HeadTailProperties
<1>4. Items(live') = Items(live) \cup {Head(wire)}
  BY <1>1, <1>2, <1>3, ItemsOfAppend
<1>5. Items(wire) = {Head(wire)} \cup Items(Tail(wire))
  <2>1. wire = <<Head(wire)>> \o Tail(wire)
    BY <1>1, HeadTailProperties
  <2>2. <<Head(wire)>> \in Seq(Posts) /\ Items(<<Head(wire)>>) = {Head(wire)}
    BY <1>3 DEF Items
  <2> QED BY <1>3, <2>1, <2>2, ItemsOfConcat
<1> QED BY <1>2, <1>4, <1>5 DEF NothingIsLostOnTheWay

LEMMA NextKeepsAll == IInv /\ Next => NothingIsLostOnTheWay
<1> SUFFICES ASSUME IInv, Next, join = "done", join' = "done"
             PROVE  NothingIsLostOnTheWay
  BY DEF NothingIsLostOnTheWay
<1>1. CASE Load
  BY <1>1 DEF Load
<1>2. CASE HubNext
  <2>1. CASE ReceiveMessage
    BY <2>1, ReceiveKeepsAll
  <2>2. CASE ~ReceiveMessage
    <3>1. hub = "up"
      BY DEF IInv, JoinOK
    <3> QED
      BY <1>2, <2>2, <3>1 DEF HubNext, HubStarted, HubFails, JoinChat, HubDrops,
         JoinLost, HubReconnects, HubGivesUp, NothingIsLostOnTheWay, postVars,
         viewVars
  <2> QED BY <2>1, <2>2
<1>3. CASE Type
  BY <1>3 DEF Type, NothingIsLostOnTheWay, postVars, viewVars, hubVars
<1>4. ASSUME NEW s \in Submits, FormNext(s)
      PROVE  NothingIsLostOnTheWay
  BY <1>4 DEF FormNext, Submit, SubmitAnswered, AnswerLost, IInv, TypeOK,
     NothingIsLostOnTheWay, postVars, viewVars, hubVars
<1>5. ASSUME NEW p \in Posts, PostNext(p)
      PROVE  NothingIsLostOnTheWay
  <2>1. CASE SendToGroup(p)
    BY <2>1, SendKeepsAll
  <2>2. CASE Write(p) \/ Store(p) \/ Refuse(p) \/ SendFails(p)
    BY <2>2 DEF Write, Store, Refuse, SendFails, IInv, TypeOK,
       NothingIsLostOnTheWay, viewVars, hubVars
  <2> QED BY <1>5, <2>1, <2>2 DEF PostNext
<1> QED BY <1>1, <1>2, <1>3, <1>4, <1>5 DEF Next

THEOREM NothingIsLost == Spec => [][NothingIsLostOnTheWay]_vars
<1>1. IInv /\ [Next]_vars => [NothingIsLostOnTheWay]_vars
  BY NextKeepsAll
<1> QED BY <1>1, Inductive, PTL DEF Spec
=============================================================================
