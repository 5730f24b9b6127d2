------------------------- MODULE HttpConnectionProofs -------------------------
(***************************************************************************)
(* Theorems about HttpConnection, for any lists of transports, any limit   *)
(* of redirects and any number of starts.                                  *)
(***************************************************************************)
EXTENDS HttpConnection, SequenceTheorems, TLAPS

FlagsOK ==
    /\ started \in BOOLEAN
    /\ stopping \in BOOLEAN
    /\ stray \in BOOLEAN

StatesOK ==
    /\ state \in {"Disconnected", "Connecting", "Connected", "Disconnecting"}
    /\ task \in {"none", "negotiating", "renegotiating", "dialling"}
    /\ stopPromise \in {"pending", "resolved"}
    /\ sources \in [Transports -> {"closed", "retrying", "open"}]

CountersOK ==
    /\ starts \in 0 .. MaxStarts
    /\ redirects \in 0 .. MaxRedirects
    /\ closes \in Nat
    /\ state # "Disconnected" \/ task # "none" => starts # 0

ReferencesOK ==
    /\ dialled \in Transports \cup {None}
    /\ offers \in Seq(Kinds)
    /\ transport \in Transports \cup {None}
    /\ sendQueue \in 1 .. MaxStarts \cup {None}
    /\ leaving \in Transports \cup {None}
    /\ live \in SUBSET Transports
    /\ task \in {"renegotiating", "dialling"} <=> dialled # None
    /\ state = "Disconnected" => transport = None

(* The state says how far the start is, and whether it has succeeded.      *)
StateFollowsStart ==
    /\ task # "none" => ~started /\ state # "Connected"
    /\ task # "none" /\ ~stray => state \in {"Connecting", "Disconnecting"}
    /\ state = "Connected" => started
    /\ started => state \in {"Connected", "Disconnecting"}

QueueNeedsStart == sendQueue # None => sendQueue = starts /\ started

(* While a start dials, nothing is open but what an earlier one left to    *)
(* the browser.                                                            *)
OneTransport ==
    ~stray =>
        /\ live \subseteq {transport}
        /\ task # "none" => live = {}
        /\ dialled # None => transport = dialled
        /\ leaving # None => transport = leaving /\ task = "none"

IInv ==
    /\ FlagsOK /\ StatesOK /\ CountersOK /\ ReferencesOK
    /\ StateFollowsStart
    /\ QueueNeedsStart
    /\ OneTransport

-----------------------------------------------------------------------------
LEMMA InitInv == Init => IInv
<1> SUFFICES ASSUME Init PROVE IInv
  OBVIOUS
<1> USE DEF Init
<1>1. FlagsOK
  BY DEF FlagsOK
<1>2. StatesOK
  BY DEF StatesOK
<1>3. CountersOK
  BY StartsAssumption, RedirectsAssumption DEF CountersOK
<1>4. ReferencesOK
  BY DEF ReferencesOK
<1>5. StateFollowsStart /\ QueueNeedsStart /\ OneTransport
  BY DEF StateFollowsStart, QueueNeedsStart, OneTransport
<1> QED BY <1>1, <1>2, <1>3, <1>4, <1>5 DEF IInv

(* The transport of the moment is one, and no stand-in for none.           *)
LEMMA CurrentIsTransport ==
    ASSUME CountersOK, task # "none", NEW kind \in Kinds
    PROVE  Current(kind) \in Transports /\ Current(kind) # None
<1>1. starts \in 1 .. MaxStarts
  BY StartsAssumption DEF CountersOK
<1>2. Current(kind) \in Transports
  BY <1>1 DEF Current, Transports
<1> QED BY <1>2, NoneAssumption

(* What Dial assigns.                                                      *)
LEMMA DialType ==
    ASSUME CountersOK, task # "none", NEW list \in Seq(Kinds), list # <<>>,
           Dial(list)
    PROVE  /\ dialled' \in Transports /\ dialled' # None
           /\ transport' = dialled'
           /\ offers' \in Seq(Kinds)
<1>1. Head(list) \in Kinds /\ Tail(list) \in Seq(Kinds)
  BY HeadTailProperties
<1> QED BY <1>1, CurrentIsTransport DEF Dial, RemainingOffers

-----------------------------------------------------------------------------
(* The types, part by part.                                                *)
LEMMA FlagsStep == FlagsOK /\ Next => FlagsOK'
<1> SUFFICES ASSUME FlagsOK, Next PROVE FlagsOK'
  OBVIOUS
<1> USE DEF FlagsOK, stopVars, startVars
<1>1. CASE Start \/ Send \/ Stop
  BY <1>1 DEF Start, Send, Stop
<1>2. CASE NegotiateAnswered
  BY <1>2 DEF NegotiateAnswered, Redirected, Negotiated, NegotiationFails,
     Renegotiated, FailStart
<1>3. CASE DialAnswered
  BY <1>3 DEF DialAnswered, Connected, ConnectFails, FirstPollRefused,
     FailStart, StopConnection
<1>4. ASSUME NEW t \in Transports,
             TransportEnds(t) \/ SourceRevives(t) \/ SourceRefused(t)
               \/ SourceEnds(t)
      PROVE  FlagsOK'
  BY <1>4 DEF TransportEnds, SourceRevives, SourceRefused, SourceEnds,
     StopConnection
<1>5. CASE StopTransport
  BY <1>5 DEF StopTransport, StopConnection
<1>6. CASE PollingStopped
  BY <1>6 DEF PollingStopped, StopConnection
<1> QED BY <1>1, <1>2, <1>3, <1>4, <1>5, <1>6 DEF Next

LEMMA StatesStep == StatesOK /\ Next => StatesOK'
<1> SUFFICES ASSUME StatesOK, Next PROVE StatesOK'
  OBVIOUS
<1> USE DEF StatesOK, stopVars, startVars
<1>1. CASE Start \/ Send \/ Stop
  BY <1>1 DEF Start, Send, Stop
<1>2. CASE NegotiateAnswered
  BY <1>2 DEF NegotiateAnswered, Redirected, Negotiated, NegotiationFails,
     Renegotiated, FailStart, StopResolved
<1>3. CASE DialAnswered
  BY <1>3 DEF DialAnswered, Connected, ConnectFails, FirstPollRefused,
     FailStart, StopResolved, StartEnds, StopConnection
<1>4. ASSUME NEW t \in Transports,
             TransportEnds(t) \/ SourceRevives(t) \/ SourceRefused(t)
               \/ SourceEnds(t)
      PROVE  StatesOK'
  BY <1>4 DEF TransportEnds, SourceRevives, SourceRefused, SourceEnds,
     StopConnection
<1>5. CASE StopTransport
  BY <1>5 DEF StopTransport, StopConnection
<1>6. CASE PollingStopped
  BY <1>6 DEF PollingStopped, StopConnection
<1> QED BY <1>1, <1>2, <1>3, <1>4, <1>5, <1>6 DEF Next

LEMMA CountersStep ==
    StatesOK /\ StateFollowsStart /\ CountersOK /\ Next => CountersOK'
<1> SUFFICES ASSUME StatesOK, StateFollowsStart, CountersOK, Next
             PROVE  CountersOK'
  OBVIOUS
<1> USE StartsAssumption, RedirectsAssumption
        DEF CountersOK, stopVars, startVars
<1>1. CASE Start \/ Send \/ Stop
  BY <1>1 DEF Start, Send, Stop
<1>2. CASE NegotiateAnswered
  BY <1>2 DEF NegotiateAnswered, Redirected, Negotiated, NegotiationFails,
     Renegotiated, FailStart
<1>3. CASE DialAnswered
  BY <1>3 DEF DialAnswered, Connected, ConnectFails, FirstPollRefused,
     FailStart, StartEnds, StopConnection, CallsOnClose
<1>4. ASSUME NEW t \in Transports,
             TransportEnds(t) \/ SourceRevives(t) \/ SourceRefused(t)
               \/ SourceEnds(t)
      PROVE  CountersOK'
  BY <1>4 DEF TransportEnds, SourceRevives, SourceRefused, SourceEnds,
     StopConnection, CallsOnClose
<1>5. CASE StopTransport
  BY <1>5 DEF StopTransport, StopConnection, CallsOnClose
<1>6. CASE PollingStopped
  BY <1>6 DEF PollingStopped, StopConnection, CallsOnClose
<1> QED BY <1>1, <1>2, <1>3, <1>4, <1>5, <1>6 DEF Next

LEMMA FailStartReferences ==
    ASSUME ReferencesOK, FailStart
    PROVE  ReferencesOK'
<1>1. /\ UNCHANGED <<sendQueue, leaving, live>>
      /\ dialled' = None /\ transport' = None /\ offers' = <<>>
      /\ task' = "none"
  BY DEF FailStart, TransportDropped, stopVars
<1>2. <<>> \in Seq(Kinds)
  OBVIOUS
<1> QED BY <1>1, <1>2 DEF ReferencesOK

LEMMA ReferencesStep ==
    CountersOK /\ StatesOK /\ ReferencesOK /\ Next => ReferencesOK'
<1> SUFFICES ASSUME CountersOK, StatesOK, ReferencesOK, Next
             PROVE  ReferencesOK'
  OBVIOUS
<1> USE NoneAssumption DEF ReferencesOK, stopVars, startVars
<1>1. CASE Start \/ Stop
  BY <1>1 DEF Start, Stop
<1>2. CASE Send
  <2>1. starts \in 1 .. MaxStarts
    BY <1>2, StartsAssumption DEF Send, CountersOK
  <2> QED BY <1>2, <2>1 DEF Send
<1>3. CASE NegotiateAnswered
  <2>1. CASE Redirected \/ NegotiationFails \/ Renegotiated
    <3>1. CASE FailStart
      BY <3>1, FailStartReferences
    <3>2. CASE Redirected /\ ~FailStart
      BY <3>2 DEF Redirected
    <3>3. CASE Renegotiated
      BY <3>3 DEF Renegotiated
    <3> QED BY <2>1, <3>1, <3>2, <3>3 DEF NegotiationFails
  <2>2. ASSUME NEW list \in Offers, Negotiated(list) PROVE ReferencesOK'
    <3>1. CASE list = <<>>
      BY <2>2, <3>1, FailStartReferences DEF Negotiated
    <3>2. CASE list # <<>>
      <4>1. list \in Seq(Kinds) /\ task # "none" /\ Dial(list)
        BY <2>2, <3>2, OffersAssumption DEF Negotiated
      <4> QED BY <2>2, <3>2, <4>1, DialType DEF Negotiated
    <3> QED BY <3>1, <3>2
  <2> QED BY <1>3, <2>1, <2>2 DEF NegotiateAnswered
<1>4. CASE DialAnswered
  <2>1. CASE Connected \/ FirstPollRefused
    <3>1. /\ dialled' = None /\ task' = "none" /\ offers' = <<>>
          /\ UNCHANGED leaving
          /\ live' \in SUBSET Transports
          /\ sendQueue' \in {sendQueue, None}
          /\ \/ transport' = None
             \/ transport' = transport /\ state' \in {state, "Connected"}
      BY <2>1 DEF Connected, FirstPollRefused, StartEnds, StopConnection,
         QueueDropped
    <3>2. <<>> \in Seq(Kinds)
      OBVIOUS
    <3> QED BY <3>1, <3>2
  <2>2. CASE ConnectFails /\ ~Dial(offers)
    BY <2>2, FailStartReferences DEF ConnectFails
  <2>3. CASE ConnectFails /\ Dial(offers)
    <3>1. CASE offers = <<>>
      BY <2>3, <3>1, FailStartReferences DEF ConnectFails
    <3>2. CASE offers # <<>>
      <4>1. /\ dialled' \in Transports /\ dialled' # None
            /\ transport' = dialled' /\ offers' \in Seq(Kinds)
        BY <2>3, <3>2, DialType DEF ConnectFails
      <4> QED BY <2>3, <3>2, <4>1 DEF ConnectFails, FailStart
    <3> QED BY <3>1, <3>2
  <2> QED BY <1>4, <2>1, <2>2, <2>3 DEF DialAnswered
<1>5. ASSUME NEW t \in Transports,
             TransportEnds(t) \/ SourceRevives(t) \/ SourceRefused(t)
               \/ SourceEnds(t)
      PROVE  ReferencesOK'
  BY <1>5 DEF TransportEnds, SourceRevives, SourceRefused, SourceEnds,
     StopConnection, QueueDropped
<1>6. CASE StopTransport
  BY <1>6 DEF StopTransport, StopConnection, QueueDropped
<1>7. CASE PollingStopped
  BY <1>7 DEF PollingStopped, StopConnection, QueueDropped
<1> QED BY <1>1, <1>2, <1>3, <1>4, <1>5, <1>6, <1>7 DEF Next

-----------------------------------------------------------------------------
(* The relations between the parts of the state.                           *)
LEMMA FollowsStep ==
    StatesOK /\ ReferencesOK /\ StateFollowsStart /\ OneTransport /\ Next
      => StateFollowsStart'
<1> SUFFICES ASSUME StatesOK, ReferencesOK, StateFollowsStart, OneTransport, Next PROVE StateFollowsStart'
  OBVIOUS
<1> USE NoneAssumption DEF StatesOK, ReferencesOK, StateFollowsStart, OneTransport, stopVars, startVars
<1>1. CASE Start \/ Send \/ Stop
  BY <1>1 DEF Start, Send, Stop, Quiet
<1>2. CASE NegotiateAnswered
  BY <1>2 DEF NegotiateAnswered, Redirected, Negotiated, NegotiationFails,
     Renegotiated, FailStart, TransportDropped, Dial
<1>3. CASE DialAnswered
  BY <1>3 DEF DialAnswered, Connected, ConnectFails, FirstPollRefused,
     FailStart, TransportDropped, Dial, StartEnds, StopConnection,
     QueueDropped
<1>4. ASSUME NEW t \in Transports,
             TransportEnds(t) \/ SourceRevives(t) \/ SourceRefused(t)
               \/ SourceEnds(t)
      PROVE  StateFollowsStart'
  <2>1. CASE SourceRevives(t) \/ SourceRefused(t)
    BY <2>1 DEF SourceRevives, SourceRefused
  <2>2. CASE TransportEnds(t)
    <3>1. ~stray' => ~stray
      BY <2>2 DEF TransportEnds
    <3>2. ~stray => task = "none"
      BY <2>2 DEF TransportEnds
    <3> QED BY <2>2, <3>1, <3>2 DEF TransportEnds, StopConnection
  <2>3. CASE SourceEnds(t)
    BY <2>3 DEF SourceEnds, StopConnection
  <2> QED BY <1>4, <2>1, <2>2, <2>3
<1>5. CASE StopTransport
  BY <1>5 DEF StopTransport, StartIsOver, StopConnection, QueueDropped
<1>6. CASE PollingStopped
  <2>1. ~stray' => ~stray
    BY <1>6 DEF PollingStopped
  <2>2. task' = task /\ (~stray => task = "none")
    BY <1>6 DEF PollingStopped
  <2> QED BY <1>6, <2>1, <2>2 DEF PollingStopped, StopConnection
<1> QED BY <1>1, <1>2, <1>3, <1>4, <1>5, <1>6 DEF Next

LEMMA QueueStep ==
    StatesOK /\ StateFollowsStart /\ QueueNeedsStart /\ Next
      => QueueNeedsStart'
<1> SUFFICES ASSUME StatesOK, StateFollowsStart, QueueNeedsStart, Next PROVE QueueNeedsStart'
  OBVIOUS
<1> USE DEF StatesOK, StateFollowsStart, QueueNeedsStart, stopVars, startVars
<1>1. CASE Start \/ Send \/ Stop
  BY <1>1 DEF Start, Send, Stop, Quiet
<1>2. CASE NegotiateAnswered
  BY <1>2 DEF NegotiateAnswered, Redirected, Negotiated, NegotiationFails,
     Renegotiated, FailStart, TransportDropped, Dial
<1>3. CASE DialAnswered
  BY <1>3 DEF DialAnswered, Connected, ConnectFails, FirstPollRefused,
     FailStart, TransportDropped, Dial, StartEnds, StopConnection,
     QueueDropped
<1>4. ASSUME NEW t \in Transports,
             TransportEnds(t) \/ SourceRevives(t) \/ SourceRefused(t)
               \/ SourceEnds(t)
      PROVE  QueueNeedsStart'
  BY <1>4 DEF TransportEnds, SourceRevives, SourceRefused, SourceEnds,
     StopConnection, QueueDropped
<1>5. CASE StopTransport
  BY <1>5 DEF StopTransport, StartIsOver, StopConnection, QueueDropped
<1>6. CASE PollingStopped
  BY <1>6 DEF PollingStopped, StopConnection, QueueDropped
<1> QED BY <1>1, <1>2, <1>3, <1>4, <1>5, <1>6 DEF Next

LEMMA OneTransportStep ==
    StatesOK /\ ReferencesOK /\ StateFollowsStart /\ OneTransport /\ Next
      => OneTransport'
<1> SUFFICES ASSUME StatesOK, ReferencesOK, StateFollowsStart, OneTransport, Next PROVE OneTransport'
  OBVIOUS
<1> USE NoneAssumption DEF StatesOK, ReferencesOK, StateFollowsStart, OneTransport, stopVars, startVars
<1>1. CASE Start \/ Send \/ Stop
  BY <1>1 DEF Start, Send, Stop, Quiet
<1>2. CASE NegotiateAnswered
  BY <1>2 DEF NegotiateAnswered, Redirected, Negotiated, NegotiationFails,
     Renegotiated, FailStart, TransportDropped, Dial
<1>3. CASE DialAnswered
  BY <1>3 DEF DialAnswered, Connected, ConnectFails, FirstPollRefused,
     FailStart, TransportDropped, Dial, StartEnds, StopConnection,
     QueueDropped
<1>4. ASSUME NEW t \in Transports,
             TransportEnds(t) \/ SourceRevives(t) \/ SourceRefused(t)
               \/ SourceEnds(t)
      PROVE  OneTransport'
  BY <1>4 DEF TransportEnds, SourceRevives, SourceRefused, SourceEnds,
     StopConnection, QueueDropped
<1>5. CASE StopTransport
  BY <1>5 DEF StopTransport, StartIsOver, StopConnection, QueueDropped
<1>6. CASE PollingStopped
  <2>1. /\ transport' = None /\ UNCHANGED <<task, dialled>>
        /\ live' = live \ {leaving}
    BY <1>6 DEF PollingStopped, StopConnection
  <2>2. ~stray' => ~stray /\ transport \in {leaving, None}
    BY <1>6 DEF PollingStopped
  <2>3. leaving' = None /\ (~stray => task = "none" /\ dialled = None)
    BY <1>6 DEF PollingStopped
  <2>4. ~stray' => live' = {}
    BY <2>1, <2>2
  <2> QED BY <2>1, <2>2, <2>3, <2>4
<1> QED BY <1>1, <1>2, <1>3, <1>4, <1>5, <1>6 DEF Next

LEMMA NextInv == IInv /\ [Next]_vars => IInv'
<1> SUFFICES ASSUME IInv, [Next]_vars PROVE IInv'
  OBVIOUS
<1>1. CASE UNCHANGED vars
  BY <1>1 DEF IInv, vars, startVars, stopVars, FlagsOK, StatesOK, CountersOK,
     ReferencesOK, StateFollowsStart, QueueNeedsStart, OneTransport
<1>2. CASE Next
  BY <1>2, FlagsStep, StatesStep, CountersStep, ReferencesStep, FollowsStep,
     QueueStep, OneTransportStep DEF IInv
<1> QED BY <1>1, <1>2

LEMMA Inductive == Spec => []IInv
<1> QED BY InitInv, NextInv, PTL DEF Spec

-----------------------------------------------------------------------------
(* Every variable keeps its type, and a connection that is disconnected    *)
(* has no transport.                                                       *)
THEOREM TypeCorrect == Spec => []TypeOK
<1>1. IInv => TypeOK
  BY DEF IInv, FlagsOK, StatesOK, CountersOK, ReferencesOK, TypeOK
<1> QED BY <1>1, Inductive, PTL

(* No data of a new connection goes to the transport of an earlier one.    *)
THEOREM QueuesAreFresh == Spec => []QueueIsOfThisStart
<1>1. IInv => QueueIsOfThisStart
  BY DEF IInv, StateFollowsStart, QueueNeedsStart, QueueIsOfThisStart
<1> QED BY <1>1, Inductive, PTL

(* However often it falls back, is redirected or is stopped, the           *)
(* connection leaves no transport open.                                    *)
THEOREM NothingLeftOpen == Spec => []NoTransportLeft
<1>1. IInv => NoTransportLeft
  BY DEF IInv, OneTransport, NoTransportLeft
<1> QED BY <1>1, Inductive, PTL

-----------------------------------------------------------------------------
(* What a step owes to the hub.                                            *)
Kept ==
    \/ Promise!Next /\ closes' = closes + (IF Promise!Closed THEN 1 ELSE 0)
    \/ UNCHANGED <<state, started, closes>>

(* Each kind of step of the connection, in terms of the promise.           *)
LEMMA FailStartKept ==
    ASSUME IInv, task # "none", FailStart
    PROVE  Kept
<1>1. /\ state' = "Disconnected" /\ UNCHANGED <<started, closes>>
      /\ ~started /\ state # "Connected"
  BY DEF FailStart, IInv, StateFollowsStart
<1>2. CASE state = "Disconnected"
  BY <1>1, <1>2 DEF Kept
<1>3. CASE state \in {"Connecting", "Disconnecting"}
  <2>1. Promise!Failed /\ ~Promise!Closed
    BY <1>1, <1>3 DEF Promise!Failed, Promise!Closed
  <2> QED BY <1>1, <2>1 DEF Kept, Promise!Next, IInv, CountersOK
<1> QED BY <1>1, <1>2, <1>3 DEF IInv, StatesOK

LEMMA StopConnectionKept ==
    ASSUME IInv, StopConnection
    PROVE  Kept
<1>1. CASE state \in {"Disconnected", "Connecting"}
  BY <1>1 DEF Kept, StopConnection
<1>2. CASE state \in {"Connected", "Disconnecting"} /\ started
  <2>1. /\ state' = "Disconnected" /\ started' = FALSE
        /\ closes' = closes + 1
    BY <1>2 DEF StopConnection, CallsOnClose
  <2>2. Promise!Closed
    BY <1>2, <2>1 DEF Promise!Closed
  <2> QED BY <2>1, <2>2 DEF Kept, Promise!Next
<1>3. CASE state \in {"Connected", "Disconnecting"} /\ ~started
  <2>1. state = "Disconnecting"
    BY <1>3 DEF IInv, StateFollowsStart
  <2>2. /\ state' = "Disconnected" /\ started' = FALSE
        /\ closes' = closes
    BY <1>3 DEF StopConnection, CallsOnClose
  <2>3. Promise!Failed /\ ~Promise!Closed
    BY <1>3, <2>1, <2>2 DEF Promise!Failed, Promise!Closed
  <2> QED BY <2>2, <2>3 DEF Kept, Promise!Next, IInv, CountersOK
<1> QED BY <1>1, <1>2, <1>3 DEF IInv, StatesOK

LEMMA NegotiationKept ==
    ASSUME IInv, NegotiateAnswered
    PROVE  Kept
<1>1. CASE Redirected \/ NegotiationFails
  BY <1>1, FailStartKept DEF Redirected, NegotiationFails, Kept
<1>2. CASE Renegotiated
  BY <1>2 DEF Renegotiated, Kept
<1>3. ASSUME NEW list \in Offers, Negotiated(list) PROVE Kept
  BY <1>3, FailStartKept DEF Negotiated, Kept
<1> QED BY <1>1, <1>2, <1>3 DEF NegotiateAnswered

LEMMA DialKept ==
    ASSUME IInv, DialAnswered
    PROVE  Kept
<1>1. CASE Connected /\ state = "Connecting"
  <2>1. state' = "Connected" /\ closes' = closes
    BY <1>1 DEF Connected
  <2>2. Promise!Opened /\ ~Promise!Closed
    BY <1>1, <2>1 DEF Promise!Opened, Promise!Closed
  <2> QED BY <2>1, <2>2 DEF Kept, Promise!Next, IInv, CountersOK
<1>2. CASE Connected /\ state # "Connecting"
  BY <1>2 DEF Connected, Kept
<1>3. CASE ConnectFails
  BY <1>3, FailStartKept DEF ConnectFails, Kept
<1>4. CASE FirstPollRefused /\ state = "Connecting"
  <2>1. state' = "Connected" /\ closes' = closes
    BY <1>4 DEF FirstPollRefused
  <2>2. Promise!Opened /\ ~Promise!Closed
    BY <1>4, <2>1 DEF Promise!Opened, Promise!Closed
  <2> QED BY <2>1, <2>2 DEF Kept, Promise!Next, IInv, CountersOK
<1>5. CASE FirstPollRefused /\ state # "Connecting"
  BY <1>5, StopConnectionKept DEF FirstPollRefused
<1> QED BY <1>1, <1>2, <1>3, <1>4, <1>5 DEF DialAnswered

LEMMA StartStopKept ==
    ASSUME IInv, Start \/ Stop
    PROVE  Kept
<1>1. CASE Start
  <2>1. state = "Disconnected" /\ state' = "Connecting" /\ closes' = closes
    BY <1>1 DEF Start
  <2>2. Promise!Open /\ ~Promise!Closed
    BY <2>1 DEF Promise!Open, Promise!Closed
  <2> QED BY <2>1, <2>2 DEF Kept, Promise!Next, IInv, CountersOK
<1>2. CASE Stop
  <2>1. /\ state \in {"Connecting", "Connected"} /\ state' = "Disconnecting"
        /\ UNCHANGED <<started, closes>>
    BY <1>2 DEF Stop
  <2>2. state = "Connected" <=> started
    BY <2>1 DEF IInv, StateFollowsStart
  <2>3. Promise!Close /\ ~Promise!Closed
    BY <2>1, <2>2 DEF Promise!Close, Promise!Closed
  <2> QED BY <2>1, <2>3 DEF Kept, Promise!Next, IInv, CountersOK
<1> QED BY <1>1, <1>2

LEMMA NextKept == IInv /\ Next => Kept
<1> SUFFICES ASSUME IInv, Next PROVE Kept
  OBVIOUS
<1>1. CASE NegotiateAnswered \/ DialAnswered \/ Start \/ Stop
  BY <1>1, NegotiationKept, DialKept, StartStopKept
<1>2. CASE Send
  BY <1>2 DEF Send, Kept
<1>3. ASSUME NEW t \in Transports,
             TransportEnds(t) \/ SourceRevives(t) \/ SourceRefused(t)
               \/ SourceEnds(t)
      PROVE  Kept
  BY <1>3, StopConnectionKept
     DEF TransportEnds, SourceRevives, SourceRefused, SourceEnds, Kept
<1>4. CASE StopTransport \/ PollingStopped
  BY <1>4, StopConnectionKept DEF StopTransport, PollingStopped, Kept
<1> QED BY <1>1, <1>2, <1>3, <1>4 DEF Next

(* The connection keeps the promise the hub relies on, and calls onclose   *)
(* once for each start that has succeeded.                                 *)
THEOREM PromiseIsKept == Spec => KeepsPromise
<1>1. Init => Promise!Init
  BY DEF Init, Promise!Init
<1>2. IInv /\ [Next]_vars => [Kept]_<<state, started, closes>>
  BY NextKept DEF vars
<1> QED BY <1>1, <1>2, Inductive, PTL DEF Spec, KeepsPromise, Kept

-----------------------------------------------------------------------------
(* A start that is not over waits for an answer.                           *)
StartIsServed == state = "Connecting" => task # "none"

(* stop() is waited for only while the connection is disconnecting.        *)
StopIsOfThisState == stopPromise = "pending" => state = "Disconnecting"

(* Between two starts the connection has its transport, and it is open,    *)
(* until it is disconnected.                                               *)
TransportIsOpen ==
    ~stray /\ task = "none" =>
        /\ state \in {"Connected", "Disconnecting"} => transport # None
        /\ transport # None => transport \in live

(* Whoever waits for stop() waits for a step that is to come: the one      *)
(* after the start, or the answer to the DELETE request.                   *)
StopIsServed ==
    stopPromise = "pending" /\ ~stray => stopping \/ leaving # None

SettleInv ==
    /\ StartIsServed
    /\ StopIsOfThisState
    /\ TransportIsOpen
    /\ StopIsServed

LEMMA InitSettle == Init => SettleInv
BY DEF Init, SettleInv, StartIsServed, StopIsOfThisState, TransportIsOpen,
   StopIsServed

(* A start that fails leaves nothing to wait for.                          *)
LEMMA FailStartSettles ==
    ASSUME FailStart
    PROVE  SettleInv'
BY DEF FailStart, StopResolved, TransportDropped, SettleInv, StartIsServed,
   StopIsOfThisState, TransportIsOpen, StopIsServed

(* Nor does _stopConnection, outside of a start.                           *)
LEMMA StopConnectionSettles ==
    ASSUME StatesOK, StartIsServed, StopIsOfThisState, StopConnection,
           UNCHANGED task
    PROVE  /\ StartIsServed' /\ StopIsOfThisState'
           /\ stopPromise' # "pending"
           /\ transport' = None
           /\ task = "none" => state' = "Disconnected"
BY DEF StatesOK, StartIsServed, StopIsOfThisState, StopConnection

LEMMA NegotiationSettles ==
    ASSUME SettleInv, NegotiateAnswered
    PROVE  SettleInv'
<1> USE DEF SettleInv, StartIsServed, StopIsOfThisState, TransportIsOpen,
            StopIsServed
<1>1. CASE FailStart
  BY <1>1, FailStartSettles
<1>2. CASE Renegotiated
  BY <1>2 DEF Renegotiated, stopVars
<1>3. CASE Redirected /\ ~FailStart
  BY <1>3 DEF Redirected, stopVars
<1>4. ASSUME NEW list \in Offers, Negotiated(list), ~FailStart
      PROVE  SettleInv'
  BY <1>4 DEF Negotiated, stopVars
<1> QED BY <1>1, <1>2, <1>3, <1>4 DEF NegotiateAnswered, NegotiationFails

LEMMA DialSettles ==
    ASSUME IInv, SettleInv, DialAnswered
    PROVE  SettleInv'
<1> USE DEF SettleInv
<1>1. CASE FailStart
  BY <1>1, FailStartSettles
<1>2. CASE ConnectFails /\ ~FailStart
  BY <1>2 DEF ConnectFails, stopVars, StartIsServed, StopIsOfThisState,
     TransportIsOpen, StopIsServed
<1>3. CASE Connected
  <2>1. dialled # None /\ (~stray => transport = dialled)
    BY <1>3 DEF Connected, IInv, ReferencesOK, OneTransport
  <2>2. /\ task' = "none" /\ live' = live \cup {dialled}
        /\ UNCHANGED <<transport, stopVars, stopPromise, stray>>
        /\ state' = IF state = "Connecting" THEN "Connected" ELSE state
    BY <1>3 DEF Connected, StartEnds
  <2>3. TransportIsOpen'
    BY <2>1, <2>2 DEF TransportIsOpen
  <2> QED
    BY <2>2, <2>3 DEF stopVars, StartIsServed, StopIsOfThisState, StopIsServed
<1>4. CASE FirstPollRefused /\ state = "Connecting"
  BY <1>4 DEF FirstPollRefused, StartIsServed, StopIsOfThisState,
     TransportIsOpen, StopIsServed
<1>5. CASE FirstPollRefused /\ state # "Connecting"
  <2>1. StopConnection /\ UNCHANGED stray
    BY <1>5 DEF FirstPollRefused
  <2>2. state' = "Disconnected" /\ transport' = None
    BY <1>5, <2>1 DEF StopConnection, IInv, StatesOK
  <2>3. stopPromise' # "pending"
    BY <1>5, <2>1 DEF StopConnection, StopIsOfThisState, IInv, StatesOK
  <2> QED BY <2>2, <2>3 DEF StartIsServed, StopIsOfThisState,
     TransportIsOpen, StopIsServed
<1> QED BY <1>1, <1>2, <1>3, <1>4, <1>5 DEF DialAnswered

(* A transport that ends takes the connection with it, unless it is not    *)
(* the one in use.                                                         *)
LEMMA EndSettles ==
    ASSUME IInv, SettleInv, NEW t \in Transports,
           TransportEnds(t) \/ SourceRevives(t) \/ SourceRefused(t)
             \/ SourceEnds(t)
    PROVE  SettleInv'
<1> USE DEF SettleInv
<1>1. CASE SourceRevives(t) \/ SourceRefused(t)
  BY <1>1 DEF SourceRevives, SourceRefused, startVars, stopVars,
     StartIsServed, StopIsOfThisState, TransportIsOpen, StopIsServed
<1>2. CASE TransportEnds(t) \/ SourceEnds(t)
  <2>1. StopConnection /\ UNCHANGED task
    BY <1>2 DEF TransportEnds, SourceEnds, startVars
  <2>2. ~stray' => state # "Connecting"
    BY <1>2 DEF TransportEnds, SourceEnds
  <2>3. /\ StartIsServed' /\ StopIsOfThisState' /\ stopPromise' # "pending"
        /\ transport' = None
    BY <2>1, StopConnectionSettles DEF IInv
  <2>4. ~stray' => state' = "Disconnected"
    BY <2>1, <2>2 DEF StopConnection, IInv, StatesOK
  <2> QED BY <2>3, <2>4 DEF TransportIsOpen, StopIsServed
<1> QED BY <1>1, <1>2

LEMMA StopTransportSettles ==
    ASSUME IInv, SettleInv, StopTransport
    PROVE  SettleInv'
<1> USE DEF SettleInv
<1>1. stopping /\ task = "none" /\ UNCHANGED <<task, stray>>
  BY DEF StopTransport, StartIsOver, startVars
<1>2. CASE StopConnection
  BY <1>1, <1>2, StopConnectionSettles
     DEF IInv, TransportIsOpen, StopIsServed
<1>3. CASE ~StopConnection /\ transport = None
  <2>1. UNCHANGED <<state, transport, stopPromise, live>>
    BY <1>3 DEF StopTransport
  <2> QED BY <1>1, <1>3, <2>1 DEF StartIsServed, StopIsOfThisState,
     TransportIsOpen, StopIsServed
<1>4. CASE ~StopConnection /\ transport # None
           /\ transport.kind # "LongPolling"
  <2>1. /\ transport \notin live /\ transport' = None
        /\ UNCHANGED <<state, stopPromise>>
    BY <1>4 DEF StopTransport
  <2>2. stray
    BY <1>1, <1>4, <2>1 DEF TransportIsOpen
  <2> QED BY <1>1, <2>1, <2>2 DEF StartIsServed, StopIsOfThisState,
     TransportIsOpen, StopIsServed
<1>5. CASE ~StopConnection /\ transport # None
           /\ transport.kind = "LongPolling"
  <2>1. /\ leaving' = transport
        /\ UNCHANGED <<state, transport, stopPromise, live>>
    BY <1>5 DEF StopTransport
  <2> QED BY <1>1, <1>5, <2>1 DEF StartIsServed, StopIsOfThisState,
     TransportIsOpen, StopIsServed
<1> QED BY <1>2, <1>3, <1>4, <1>5

LEMMA PollingSettles ==
    ASSUME IInv, SettleInv, PollingStopped
    PROVE  SettleInv'
<1> USE DEF SettleInv
<1>1. StopConnection /\ UNCHANGED task /\ leaving # None
  BY DEF PollingStopped, startVars
<1>2. ~stray' => task = "none"
  BY <1>1 DEF PollingStopped, IInv, OneTransport
<1>3. /\ StartIsServed' /\ StopIsOfThisState' /\ stopPromise' # "pending"
      /\ transport' = None
      /\ task = "none" => state' = "Disconnected"
  BY <1>1, StopConnectionSettles DEF IInv
<1> QED BY <1>2, <1>3 DEF TransportIsOpen, StopIsServed

LEMMA NextSettles == IInv /\ SettleInv /\ [Next]_vars => SettleInv'
<1> SUFFICES ASSUME IInv, SettleInv, [Next]_vars PROVE SettleInv'
  OBVIOUS
<1>1. CASE UNCHANGED vars \/ Start \/ Send \/ Stop
  BY <1>1 DEF vars, startVars, stopVars, Start, Send, Stop, SettleInv,
     StartIsServed, StopIsOfThisState, TransportIsOpen, StopIsServed
<1> QED BY <1>1, NegotiationSettles, DialSettles, EndSettles,
   StopTransportSettles, PollingSettles DEF Next

LEMMA Settles == Spec => []SettleInv
<1> QED BY InitSettle, NextSettles, Inductive, PTL DEF Spec

(* Nobody waits for a start or a stop that nothing will end: a connection  *)
(* that is connecting awaits an answer, and a stop that is pending has a   *)
(* step to come, until a transport ends that is not the one in use.        *)
THEOREM StartsAndStopsAreServed == Spec => [](StartIsServed /\ StopIsServed)
<1>1. SettleInv => StartIsServed /\ StopIsServed
  BY DEF SettleInv
<1> QED BY <1>1, Settles, PTL

(* What _stopInternal says of a connection that is connected is true until *)
(* a transport ends that is not the one in use: it has a transport, and    *)
(* the transport is open.                                                  *)
ConnectedIsOpen ==
    ~stray => ConnectedHasTransport /\ (state = "Connected" => transport \in live)

THEOREM ConnectionIsOpen == Spec => []ConnectedIsOpen
<1>1. IInv /\ SettleInv => ConnectedIsOpen
  BY DEF IInv, StateFollowsStart, SettleInv, TransportIsOpen,
     ConnectedHasTransport, ConnectedIsOpen
<1> QED BY <1>1, Inductive, Settles, PTL
=============================================================================
