--------------------------- MODULE ChatRoomsProofs ---------------------------
(***************************************************************************)
(* Theorems about ChatRooms, for any finite set of users and any rooms,    *)
(* names, capacities and number of requests in flight.                     *)
(***************************************************************************)
EXTENDS ChatRooms, FiniteSetTheorems, TLAPS

(* A request that is about to write a join has seen the room, and a free   *)
(* place in it.                                                            *)
SawFreePlace(q) ==
    q.op = "join" =>
        /\ q.room \in DOMAIN room
        /\ Cardinality(q.seen) # room[q.room].max

(* A request that is about to write a room has seen rooms, and none of its *)
(* name.                                                                   *)
SawNoSuchRoom(q) ==
    q.op = "create" =>
        /\ q.seen \subseteq DOMAIN room
        /\ \A r \in q.seen : ~SameIgnoringCase(room[r].name, q.name)

(* What JoinReplyIsTruthful says of one reply, and that it is of a room.   *)
Truthful(q) ==
    q.op = "reply" /\ q.to = "join" =>
        /\ q.result \in {"ok", "conflict"} =>
              /\ q.room \in DOMAIN room
              /\ q.user \in members[q.room]
        /\ q.result = "full" =>
              /\ q.room \in DOMAIN room
              /\ Cardinality(members[q.room]) >= room[q.room].max

RequestOK(q) == SawFreePlace(q) /\ SawNoSuchRoom(q) /\ Truthful(q)

RequestsOK == \A w \in Workers : RequestOK(request[w])

IInv == TypeOK /\ RequestsOK /\ OwnerIsMember

-----------------------------------------------------------------------------
(* The members of a room are finitely many.                                *)
LEMMA MembersFinite ==
    ASSUME TypeOK, NEW r \in Rooms
    PROVE  IsFiniteSet(members[r])
BY UsersAssumption, FS_Subset DEF TypeOK

(* A reply is a request record of the type.                                *)
LEMMA ReplyType ==
    ASSUME TypeOK, NEW w \in Workers, NEW to \in {"create", "join"},
           NEW u \in Users, NEW r \in Rooms \cup {NoRoom},
           NEW result \in Results, Reply(w, to, u, r, result)
    PROVE  request' \in [Workers -> Request]
BY DEF TypeOK, Reply, Request

(* A step of CreateChatRoom, JoinChatRoom or AbortRequest keeps the type.  *)
LEMMA CreateChatRoomType ==
    ASSUME TypeOK, NEW w \in Workers, NEW u \in Users, NEW n \in Names,
           NEW max \in Capacities, CreateChatRoom(w, u, n, max)
    PROVE  TypeOK'
<1>1. CASE Reply(w, "create", u, NoRoom, "invalid")
  BY <1>1, ReplyType DEF TypeOK, CreateChatRoom, Results
<1>2. CASE Reply(w, "create", u, NoRoom, "nameTaken")
  BY <1>2, ReplyType DEF TypeOK, CreateChatRoom, Results
<1>3. CASE /\ ValidCreate(n, max)
           /\ request' = [request EXCEPT ![w] =
                           [op |-> "create", user |-> u, name |-> n,
                            max |-> max, seen |-> DOMAIN room]]
  BY <1>3, NamesAssumption DEF TypeOK, CreateChatRoom, ValidCreate, Request
<1> QED BY <1>1, <1>2, <1>3 DEF CreateChatRoom

LEMMA SaveRoomType ==
    ASSUME TypeOK, NEW w \in Workers, SaveRoom(w)
    PROVE  TypeOK'
<1> DEFINE q == request[w]
           row == [name |-> Trim(q.name), max |-> q.max, owner |-> q.user]
<1>1. PICK r \in Rooms \ DOMAIN room :
         /\ room' = [x \in DOMAIN room \cup {r} |->
                       IF x = r THEN row ELSE room[x]]
         /\ members' = [members EXCEPT ![r] = AddUser({}, q.max, q.user)]
         /\ Reply(w, "create", q.user, r, "ok")
  BY DEF SaveRoom
<1>2. q \in [op : {"create"}, user : Users, name : Name, max : 2 .. 30,
             seen : SUBSET Rooms]
  BY DEF SaveRoom, TypeOK, Request, Idle
<1>3. row \in Room
  BY <1>2 DEF Room, Trim, Name
<1>4. AddUser({}, q.max, q.user) \in SUBSET Users
  BY <1>2 DEF AddUser
<1>5. request' \in [Workers -> Request]
  BY <1>1, <1>2, ReplyType DEF Results
<1> HIDE DEF q, row
<1> QED BY <1>1, <1>3, <1>4, <1>5 DEF TypeOK

LEMMA JoinChatRoomType ==
    ASSUME TypeOK, NEW w \in Workers, NEW u \in Users,
           NEW r \in Rooms \cup {NoRoom}, JoinChatRoom(w, u, r)
    PROVE  TypeOK'
<1>1. CASE \E result \in Results : Reply(w, "join", u, r, result)
  BY <1>1, ReplyType DEF TypeOK, JoinChatRoom
<1>2. CASE /\ r \in DOMAIN room
           /\ request' = [request EXCEPT ![w] =
                           [op |-> "join", user |-> u, room |-> r,
                            seen |-> members[r]]]
  BY <1>2 DEF TypeOK, JoinChatRoom, Request
<1> QED BY <1>1, <1>2 DEF JoinChatRoom, Results

LEMMA SaveJoinType ==
    ASSUME TypeOK, RequestsOK, NEW w \in Workers, SaveJoin(w)
    PROVE  TypeOK'
<1> DEFINE q == request[w]
<1>1. q \in [op : {"join"}, user : Users, room : Rooms, seen : SUBSET Users]
  BY DEF SaveJoin, TypeOK, Request, Idle
<1>2. q.room \in DOMAIN room
  BY <1>1 DEF RequestsOK, RequestOK, SawFreePlace
<1>3. request' \in [Workers -> Request]
  BY <1>1, ReplyType DEF SaveJoin, Results
<1> QED BY <1>1, <1>2, <1>3 DEF SaveJoin, TypeOK

LEMMA AbortRequestType ==
    ASSUME TypeOK, NEW w \in Workers, AbortRequest(w)
    PROVE  TypeOK'
<1>1. request[w].op = "create" => request[w].user \in Users
  BY DEF TypeOK, Request, Idle
<1>2. request[w].op = "join" =>
         request[w].user \in Users /\ request[w].room \in Rooms
  BY DEF TypeOK, Request, Idle
<1>3. request' \in [Workers -> Request]
  BY <1>1, <1>2, ReplyType DEF AbortRequest, Results
<1> QED BY <1>3 DEF AbortRequest, TypeOK

LEMMA NextType ==
    ASSUME TypeOK, RequestsOK, Next
    PROVE  TypeOK'
BY CreateChatRoomType, SaveRoomType, JoinChatRoomType, SaveJoinType,
   AbortRequestType DEF Next

-----------------------------------------------------------------------------
(* Rooms are never deleted or changed and members never leave.             *)
Grows ==
    /\ DOMAIN room \subseteq DOMAIN room'
    /\ \A r \in DOMAIN room :
          room'[r] = room[r] /\ members[r] \subseteq members'[r]

LEMMA NextGrows ==
    ASSUME TypeOK, Next
    PROVE  Grows
<1>1. ASSUME NEW w \in Workers, SaveRoom(w)
      PROVE  Grows
  BY <1>1 DEF TypeOK, SaveRoom, Grows
<1>2. ASSUME NEW w \in Workers, SaveJoin(w)
      PROVE  Grows
  BY <1>2 DEF TypeOK, SaveJoin, Grows
<1> QED
  BY <1>1, <1>2
  DEF Next, CreateChatRoom, JoinChatRoom, AbortRequest, Grows

(* A room keeps at least the members it had.                               *)
LEMMA CardinalityGrows ==
    ASSUME TypeOK, TypeOK', Grows, NEW r \in DOMAIN room
    PROVE  /\ Cardinality(members[r]) \in Nat
           /\ Cardinality(members'[r]) \in Nat
           /\ Cardinality(members[r]) <= Cardinality(members'[r])
<1>1. r \in Rooms
  BY DEF TypeOK
<1>2. IsFiniteSet(members[r]) /\ IsFiniteSet(members'[r])
  BY <1>1, UsersAssumption, FS_Subset DEF TypeOK
<1>3. members[r] \subseteq members'[r]
  BY DEF Grows
<1> QED BY <1>2, <1>3, FS_Subset, FS_CardinalityType

-----------------------------------------------------------------------------
(* What holds of a request goes on holding while rooms grow.               *)
LEMMA RequestStaysOK ==
    ASSUME TypeOK, TypeOK', Grows, NEW q, RequestOK(q)
    PROVE  RequestOK(q)'
<1> USE DEF RequestOK
<1>1. SawFreePlace(q)' /\ SawNoSuchRoom(q)'
  BY DEF SawFreePlace, SawNoSuchRoom, Grows
<1>2. ASSUME q.op = "reply", q.to = "join", q.result \in {"ok", "conflict"}
      PROVE  q.room \in DOMAIN room' /\ q.user \in members'[q.room]
  BY <1>2 DEF Truthful, Grows
<1>3. ASSUME q.op = "reply", q.to = "join", q.result = "full"
      PROVE  /\ q.room \in DOMAIN room'
             /\ Cardinality(members'[q.room]) >= room'[q.room].max
  <2>1. /\ q.room \in DOMAIN room
        /\ Cardinality(members[q.room]) >= room[q.room].max
    BY <1>3 DEF Truthful
  <2>2. room'[q.room] = room[q.room] /\ room[q.room].max \in Int
    BY <2>1 DEF Grows, TypeOK, Room
  <2> QED BY <2>1, <2>2, CardinalityGrows DEF Grows
<1> QED BY <1>1, <1>2, <1>3 DEF Truthful

LEMMA NextRequestsOK ==
    ASSUME TypeOK, TypeOK', RequestsOK, Next
    PROVE  RequestsOK'
<1>1. Grows
  BY NextGrows
<1>2. ASSUME NEW v \in Workers, request'[v] = request[v]
      PROVE  RequestOK(request[v])'
  BY <1>1, <1>2, RequestStaysOK
  DEF RequestsOK, RequestOK, SawFreePlace, SawNoSuchRoom, Truthful
<1>3. ASSUME NEW w \in Workers, NEW u \in Users, NEW n \in Names,
             NEW max \in Capacities, CreateChatRoom(w, u, n, max)
      PROVE  RequestsOK'
  <2>1. request' = [request EXCEPT ![w] = request'[w]]
    BY <1>3 DEF CreateChatRoom, Reply, TypeOK
  <2>2. SawFreePlace(request[w])' /\ Truthful(request[w])'
    BY <1>3 DEF CreateChatRoom, Reply, SawFreePlace, Truthful, TypeOK
  <2>3. SawNoSuchRoom(request[w])'
    BY <1>3 DEF CreateChatRoom, Reply, SawNoSuchRoom, NameAlreadyTaken, TypeOK
  <2> QED BY <1>2, <2>1, <2>2, <2>3 DEF RequestsOK, RequestOK, TypeOK
<1>4. ASSUME NEW w \in Workers, SaveRoom(w)
      PROVE  RequestsOK'
  <2>1. request' = [request EXCEPT ![w] = request'[w]]
    BY <1>4 DEF SaveRoom, Reply, TypeOK
  <2>2. RequestOK(request[w])'
    BY <1>4 DEF SaveRoom, Reply, RequestOK, SawFreePlace, SawNoSuchRoom,
                Truthful, TypeOK
  <2> QED BY <1>2, <2>1, <2>2 DEF RequestsOK, TypeOK
<1>5. ASSUME NEW w \in Workers, NEW u \in Users,
             NEW r \in Rooms \cup {NoRoom}, JoinChatRoom(w, u, r)
      PROVE  RequestsOK'
  <2>1. request' = [request EXCEPT ![w] = request'[w]]
    BY <1>5 DEF JoinChatRoom, Reply, TypeOK
  <2>2. SawFreePlace(request[w])' /\ SawNoSuchRoom(request[w])'
    BY <1>5
    DEF JoinChatRoom, Reply, SawFreePlace, SawNoSuchRoom, TypeOK, IsFull
  <2>3. Truthful(request[w])'
    <3>1. ASSUME r \in DOMAIN room
          PROVE  /\ room[r].max \in Int
                 /\ Cardinality(members[r]) \in Int
      BY <3>1, <1>1, CardinalityGrows DEF TypeOK, Room
    <3> QED BY <3>1, <1>5
        DEF JoinChatRoom, Reply, Truthful, TypeOK, IsFull, ContainsUser
  <2> QED BY <1>2, <2>1, <2>2, <2>3 DEF RequestsOK, RequestOK, TypeOK
<1>6. ASSUME NEW w \in Workers, SaveJoin(w)
      PROVE  RequestsOK'
  <2>1. request[w].room \in DOMAIN room /\ request[w].room \in Rooms
    BY <1>6 DEF SaveJoin, RequestsOK, RequestOK, SawFreePlace, TypeOK
  <2>2. request' = [request EXCEPT ![w] = request'[w]]
    BY <1>6 DEF SaveJoin, Reply, TypeOK
  <2>3. SawFreePlace(request[w])' /\ SawNoSuchRoom(request[w])'
    BY <1>6 DEF SaveJoin, Reply, SawFreePlace, SawNoSuchRoom, TypeOK
  <2>4. Truthful(request[w])'
    BY <1>6, <2>1 DEF SaveJoin, Reply, Truthful, TypeOK
  <2> QED BY <1>2, <2>2, <2>3, <2>4 DEF RequestsOK, RequestOK, TypeOK
<1>7. ASSUME NEW w \in Workers, AbortRequest(w)
      PROVE  RequestsOK'
  <2>1. request' = [request EXCEPT ![w] = request'[w]]
    BY <1>7 DEF AbortRequest, Reply, TypeOK
  <2>2. RequestOK(request[w])'
    BY <1>7 DEF AbortRequest, Reply, RequestOK, SawFreePlace, SawNoSuchRoom,
                Truthful, TypeOK
  <2> QED BY <1>2, <2>1, <2>2 DEF RequestsOK, TypeOK
<1> QED BY <1>3, <1>4, <1>5, <1>6, <1>7 DEF Next

(* The owner gets a row with the room, and rows are never deleted.         *)
LEMMA NextOwnerIsMember ==
    ASSUME TypeOK, OwnerIsMember, Next
    PROVE  OwnerIsMember'
<1>1. Grows
  BY NextGrows
<1>2. ASSUME NEW w \in Workers, SaveRoom(w)
      PROVE  OwnerIsMember'
  <2> DEFINE q == request[w]
  <2>1. q.max \in 2 .. 30 /\ q.user \in Users
    BY <1>2 DEF SaveRoom, TypeOK, Request, Idle
  <2>2. AddUser({}, q.max, q.user) = {q.user}
    BY <2>1, FS_EmptySet DEF AddUser, ContainsUser, IsFull
  <2>3. PICK r \in Rooms \ DOMAIN room :
          /\ room' = [x \in DOMAIN room \cup {r} |->
                        IF x = r THEN [name |-> Trim(q.name), max |-> q.max,
                                       owner |-> q.user]
                                 ELSE room[x]]
          /\ members' = [members EXCEPT ![r] = {q.user}]
    BY <1>2, <2>2 DEF SaveRoom
  <2> HIDE DEF q
  <2> QED BY <2>3 DEF OwnerIsMember, TypeOK
<1>3. CASE DOMAIN room' = DOMAIN room
  BY <1>1, <1>3 DEF OwnerIsMember, Grows
<1> QED
  BY <1>2, <1>3
  DEF Next, CreateChatRoom, JoinChatRoom, SaveJoin, AbortRequest

-----------------------------------------------------------------------------
LEMMA InitIInv == Init => IInv
BY DEF Init, IInv, TypeOK, RequestsOK, RequestOK, SawFreePlace, SawNoSuchRoom,
       Truthful, OwnerIsMember, Request, Idle

LEMMA NextIInv == IInv /\ [Next]_vars => IInv'
<1> SUFFICES ASSUME IInv, [Next]_vars PROVE IInv'
  OBVIOUS
<1>1. CASE Next
  BY <1>1, NextType, NextRequestsOK, NextOwnerIsMember DEF IInv
<1>2. CASE UNCHANGED vars
  BY <1>2 DEF vars, IInv, TypeOK, RequestsOK, RequestOK, SawFreePlace,
              SawNoSuchRoom, Truthful, OwnerIsMember
<1> QED BY <1>1, <1>2

(* The inductive invariant holds in every state.                           *)
THEOREM Invariance == Spec => []IInv
BY InitIInv, NextIInv, PTL DEF Spec

(* Rooms, members and requests keep their types: in particular every room  *)
(* has a trimmed name and a capacity the validator accepts.                *)
THEOREM TypeCorrect == Spec => []TypeOK
BY Invariance, PTL DEF IInv

(* Every room has its owner among its users.                               *)
THEOREM OwnersAreMembers == Spec => []OwnerIsMember
BY Invariance, PTL DEF IInv

(* The reply a join was given stays true whatever the others do.           *)
THEOREM JoinRepliesAreTruthful == Spec => []JoinReplyIsTruthful
<1>1. IInv => JoinReplyIsTruthful
  BY DEF IInv, RequestsOK, RequestOK, Truthful, JoinReplyIsTruthful
<1> QED BY Invariance, <1>1, PTL

(* A step over the capacity of a room is a join that decided on users that *)
(* are not the users of the room any more: with the present ones it would  *)
(* have counted the room as full, since IsFull is an equality and the      *)
(* number of users passes through the capacity on its way over it.         *)
LEMMA NextOvershoot ==
    ASSUME IInv, Next
    PROVE  OvershootStep
<1> SUFFICES ASSUME NEW r \in DOMAIN room,
                    Cardinality(members[r]) <= room[r].max,
                    Cardinality(members'[r]) > room[r].max
             PROVE  \E w \in Workers :
                       /\ request[w].op = "join"
                       /\ request[w].room = r
                       /\ request[w].seen # members[r]
  BY DEF OvershootStep
<1>1. r \in Rooms /\ room[r].max \in 2 .. 30 /\ IsFiniteSet(members[r])
  BY MembersFinite DEF IInv, TypeOK, Room
<1>2. Cardinality(members[r]) \in Nat
  BY <1>1, FS_CardinalityType
<1>3. members'[r] # members[r]
  BY <1>1, <1>2
<1>4. ASSUME NEW w \in Workers, SaveRoom(w) PROVE FALSE
  BY <1>1, <1>3, <1>4 DEF SaveRoom, IInv, TypeOK
<1>5. PICK w \in Workers : SaveJoin(w)
  BY <1>3, <1>4 DEF Next, CreateChatRoom, JoinChatRoom, AbortRequest
<1>6. /\ request[w].op = "join"
      /\ request[w].room = r
      /\ members'[r] = members[r] \cup {request[w].user}
      /\ request[w].user \notin members[r]
  <2>1. members \in [Rooms -> SUBSET Users]
    BY DEF IInv, TypeOK
  <2>2. /\ request[w].op = "join"
        /\ request[w].user \notin members[request[w].room]
        /\ members' = [members EXCEPT ![request[w].room] =
                         @ \cup {request[w].user}]
    BY <1>3, <1>5 DEF SaveJoin
  <2>3. request[w].room = r
    BY <1>1, <1>3, <2>1, <2>2
  <2>4. members'[r] = members[r] \cup {request[w].user}
    BY <1>1, <2>1, <2>2, <2>3
  <2> QED BY <2>2, <2>3, <2>4
<1>7. Cardinality(members'[r]) = Cardinality(members[r]) + 1
  <2> DEFINE S == members[r]
             u == request[w].user
  <2>1. IsFiniteSet(S) /\ u \notin S
    BY <1>1, <1>6
  <2>2. members'[r] = S \cup {u}
    BY <1>6
  <2> HIDE DEF S, u
  <2>3. Cardinality(S \cup {u}) = Cardinality(S) + 1
    BY <2>1, FS_AddElement
  <2> QED BY <2>2, <2>3 DEF S
<1>8. Cardinality(members[r]) = room[r].max
  BY <1>1, <1>2, <1>7
<1>9. Cardinality(request[w].seen) # room[r].max
  BY <1>6 DEF IInv, RequestsOK, RequestOK, SawFreePlace
<1> QED BY <1>6, <1>8, <1>9

(* Only a join that decided on stale users takes a room over its capacity. *)
THEOREM OvershootsAreStale == Spec => OvershootNeedsStaleRead
<1>1. IInv /\ [Next]_vars => [OvershootStep]_vars
  BY NextOvershoot
<1> QED BY Invariance, <1>1, PTL DEF Spec, OvershootNeedsStaleRead

(* A second room of a name is one the lookup of its writer could not see:  *)
(* it finds a name that is stored as it was typed, up to case, among the   *)
(* rooms there were, and these keep their names.                           *)
LEMMA NextDuplicate ==
    ASSUME IInv, Next PROVE DuplicateStep
<1> SUFFICES ASSUME NEW r \in DOMAIN room, NEW s \in DOMAIN room' \ DOMAIN room,
                    SameIgnoringCase(room[r].name, room'[s].name)
             PROVE  \E w \in Workers :
                       /\ request[w].op = "create"
                       /\ request'[w].op = "reply"
                       /\ request'[w].room = s
                       /\ request[w].name.padded \/ r \notin request[w].seen
  BY DEF DuplicateStep
<1>1. PICK w \in Workers : SaveRoom(w)
  BY DEF Next, CreateChatRoom, JoinChatRoom, SaveJoin, AbortRequest
<1> DEFINE q == request[w]
<1>2. q.op = "create" /\ q.name \in Name /\ SawNoSuchRoom(q)
  BY <1>1 DEF SaveRoom, IInv, RequestsOK, RequestOK, TypeOK, Request, Idle
<1>3. PICK t \in Rooms \ DOMAIN room :
        /\ room' = [x \in DOMAIN room \cup {t} |->
                      IF x = t THEN [name |-> Trim(q.name), max |-> q.max,
                                     owner |-> q.user]
                               ELSE room[x]]
        /\ Reply(w, "create", q.user, t, "ok")
  BY <1>1 DEF SaveRoom
<1>4. s = t /\ room'[s].name = Trim(q.name)
  BY <1>3
<1>5. request'[w].op = "reply" /\ request'[w].room = s
  BY <1>3, <1>4 DEF Reply, IInv, TypeOK
<1>6. q.name.padded \/ r \notin q.seen
  <2> SUFFICES ASSUME ~q.name.padded, r \in q.seen PROVE FALSE
    OBVIOUS
  <2>1. Trim(q.name) = q.name
    BY <1>2 DEF Trim, Name
  <2>2. ~SameIgnoringCase(room[r].name, q.name)
    BY <1>2 DEF SawNoSuchRoom
  <2> QED BY <1>4, <2>1, <2>2
<1> QED BY <1>2, <1>5, <1>6

(* A step that gives a second room a name stores a name that was typed     *)
(* with a blank around it, or was looked up before the first room existed. *)
THEOREM DuplicatesAreStale == Spec => DuplicateNeedsStaleLookup
<1>1. IInv /\ [Next]_vars => [DuplicateStep]_vars
  BY NextDuplicate
<1> QED BY Invariance, <1>1, PTL DEF Spec, DuplicateNeedsStaleLookup

-----------------------------------------------------------------------------
(* What holds when requests are served one at a time: a request that is    *)
(* about to write has seen the rows as they still are.                     *)
SawPresent ==
    \A w \in Workers :
        /\ request[w].op = "join" => request[w].seen = members[request[w].room]
        /\ request[w].op = "create" => ~NameAlreadyTaken(request[w].name)

LEMMA NextSawPresent ==
    ASSUME NEW w, Workers = {w}, TypeOK, SawPresent, Next
    PROVE  SawPresent'
<1>1. PICK v \in Workers :
        \/ \E u \in Users, n \in Names, max \in Capacities :
              CreateChatRoom(v, u, n, max)
        \/ SaveRoom(v)
        \/ \E u \in Users, r \in Rooms \cup {NoRoom} : JoinChatRoom(v, u, r)
        \/ SaveJoin(v)
        \/ AbortRequest(v)
  BY DEF Next
<1>2. CASE SaveRoom(v)
  BY <1>2 DEF SaveRoom, Reply, SawPresent, TypeOK
<1>3. CASE SaveJoin(v)
  BY <1>3 DEF SaveJoin, Reply, SawPresent, TypeOK
<1>4. CASE AbortRequest(v)
  BY <1>4 DEF AbortRequest, Reply, SawPresent, TypeOK
<1>5. CASE \E u \in Users, n \in Names, max \in Capacities :
              CreateChatRoom(v, u, n, max)
  BY <1>5 DEF CreateChatRoom, Reply, SawPresent, TypeOK, NameAlreadyTaken
<1>6. CASE \E u \in Users, r \in Rooms \cup {NoRoom} : JoinChatRoom(v, u, r)
  BY <1>6 DEF JoinChatRoom, Reply, SawPresent, TypeOK
<1> QED BY <1>1, <1>2, <1>3, <1>4, <1>5, <1>6

LEMMA SequentialInvariance ==
    ASSUME NEW w, Workers = {w}
    PROVE  Spec => [](IInv /\ SawPresent)
<1>1. Init => SawPresent
  BY DEF Init, SawPresent, Idle
<1>2. IInv /\ SawPresent /\ [Next]_vars => SawPresent'
  BY NextSawPresent DEF IInv, SawPresent, vars, NameAlreadyTaken
<1> QED BY Invariance, <1>1, <1>2, PTL DEF Spec

(* With one request at a time no room exceeds its capacity, for any users, *)
(* rooms and capacities.                                                   *)
THEOREM SequentialCapacity ==
    ASSUME NEW w, Workers = {w}
    PROVE  Spec => []WithinCapacity
<1>1. Init => WithinCapacity
  BY DEF Init, WithinCapacity
<1>2. ASSUME IInv, IInv', SawPresent, WithinCapacity, Next
      PROVE  WithinCapacity'
  <2> SUFFICES ASSUME NEW r \in DOMAIN room'
               PROVE  Cardinality(members'[r]) <= room'[r].max
    BY DEF WithinCapacity
  <2>1. CASE r \in DOMAIN room
    <3>1. ~(Cardinality(members'[r]) > room[r].max)
      BY <1>2, <2>1, NextOvershoot DEF OvershootStep, SawPresent, WithinCapacity
    <3>2. room'[r] = room[r] /\ room[r].max \in 2 .. 30
      BY <1>2, <2>1, NextGrows DEF Grows, IInv, TypeOK, Room
    <3>3. Cardinality(members'[r]) \in Nat
      BY <1>2, <2>1, NextGrows, CardinalityGrows DEF IInv
    <3> QED BY <3>1, <3>2, <3>3
  <2>2. CASE r \notin DOMAIN room
    <3>1. PICK v \in Workers : SaveRoom(v)
      BY <1>2, <2>2
      DEF Next, CreateChatRoom, JoinChatRoom, SaveJoin, AbortRequest
    <3> DEFINE q == request[v]
    <3>2. q.max \in 2 .. 30 /\ r \in Rooms
      BY <1>2, <3>1 DEF SaveRoom, IInv, TypeOK, Request, Idle
    <3>3. room'[r].max = q.max /\ members'[r] = AddUser({}, q.max, q.user)
      BY <1>2, <2>2, <3>1, <3>2 DEF SaveRoom, IInv, TypeOK
    <3>4. members'[r] = {} \/ members'[r] = {q.user}
      BY <3>3 DEF AddUser
    <3>5. Cardinality(members'[r]) \in {0, 1}
      BY <3>4, FS_EmptySet, FS_Singleton
    <3> QED BY <3>2, <3>3, <3>5
  <2> QED BY <2>1, <2>2
<1>3. UNCHANGED vars /\ WithinCapacity => WithinCapacity'
  BY DEF vars, WithinCapacity
<1> QED
  BY <1>1, <1>2, <1>3, SequentialInvariance, PTL DEF Spec

(* With one request at a time whoever comes to a full room is turned away. *)
THEOREM SequentialAdmission ==
    ASSUME NEW w, Workers = {w}
    PROVE  Spec => []JoinsHaveRoom
<1>1. ASSUME IInv, SawPresent, WithinCapacity
      PROVE  JoinsHaveRoom
  <2> SUFFICES ASSUME request[w].op = "join"
               PROVE  Cardinality(request[w].seen) < room[request[w].room].max
    BY DEF JoinsHaveRoom
  <2> DEFINE r == request[w].room
  <2>1. /\ r \in DOMAIN room
        /\ request[w].seen = members[r]
        /\ Cardinality(members[r]) # room[r].max
    BY <1>1 DEF SawPresent, IInv, RequestsOK, RequestOK, SawFreePlace
  <2>2. /\ Cardinality(members[r]) <= room[r].max
        /\ Cardinality(members[r]) \in Nat
        /\ room[r].max \in 2 .. 30
    BY <1>1, <2>1, MembersFinite, FS_CardinalityType
    DEF WithinCapacity, IInv, TypeOK, Room
  <2> QED BY <2>1, <2>2
<1> QED BY <1>1, SequentialInvariance, SequentialCapacity, PTL

(* With one request at a time and no name with surrounding blanks, no two  *)
(* rooms have the same name up to case.                                    *)
THEOREM SequentialNames ==
    ASSUME NEW w, Workers = {w}, \A n \in Names : ~n.padded
    PROVE  Spec => []DistinctNames
<1> DEFINE Typed == request[w].op = "create" => ~request[w].name.padded
<1>1. Init => DistinctNames /\ Typed
  BY DEF Init, DistinctNames, Idle
<1>2. ASSUME IInv, SawPresent, Typed, DistinctNames, Next
      PROVE  DistinctNames' /\ Typed'
  <2>1. Typed'
    <3>1. ASSUME NEW u \in Users, NEW n \in Names, NEW max \in Capacities,
                 CreateChatRoom(w, u, n, max)
          PROVE  Typed'
      BY <1>2, <3>1 DEF CreateChatRoom, Reply, IInv, TypeOK
    <3>2. CASE \E u \in Users, r \in Rooms \cup {NoRoom} : JoinChatRoom(w, u, r)
      BY <1>2, <3>2 DEF JoinChatRoom, Reply, IInv, TypeOK
    <3>3. CASE SaveRoom(w)
      BY <1>2, <3>3 DEF SaveRoom, Reply, IInv, TypeOK
    <3>4. CASE SaveJoin(w)
      BY <1>2, <3>4 DEF SaveJoin, Reply, IInv, TypeOK
    <3>5. CASE AbortRequest(w)
      BY <1>2, <3>5 DEF AbortRequest, Reply, IInv, TypeOK
    <3> QED BY <1>2, <3>1, <3>2, <3>3, <3>4, <3>5 DEF Next
  <2>2. CASE SaveRoom(w)
    <3> DEFINE q == request[w]
    <3>1. /\ q.op = "create" /\ q.name \in Name /\ ~q.name.padded
          /\ ~NameAlreadyTaken(q.name)
      BY <1>2, <2>2 DEF SaveRoom, SawPresent, IInv, TypeOK, Request, Idle
    <3>2. Trim(q.name) = q.name
      BY <3>1 DEF Trim, Name
    <3>3. PICK r \in Rooms \ DOMAIN room :
            room' = [x \in DOMAIN room \cup {r} |->
                      IF x = r THEN [name |-> q.name, max |-> q.max,
                                     owner |-> q.user]
                               ELSE room[x]]
      BY <2>2, <3>2 DEF SaveRoom
    <3> HIDE DEF q
    <3> QED BY <1>2, <2>1, <3>1, <3>3
        DEF DistinctNames, NameAlreadyTaken, SameIgnoringCase
  <2>3. CASE room' = room
    BY <1>2, <2>1, <2>3 DEF DistinctNames
  <2> QED
    BY <1>2, <2>1, <2>2, <2>3
    DEF Next, CreateChatRoom, JoinChatRoom, SaveJoin, AbortRequest
<1>3. UNCHANGED vars /\ DistinctNames /\ Typed => DistinctNames' /\ Typed'
  BY DEF vars, DistinctNames
<1> QED
  BY <1>1, <1>2, <1>3, SequentialInvariance, PTL DEF Spec
=============================================================================
