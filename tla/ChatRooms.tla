------------------------------ MODULE ChatRooms ------------------------------
(***************************************************************************)
(* Chat rooms and their members, as the use cases CreateChatRoom and       *)
(* JoinChatRoom leave them in the database.                                *)
(*                                                                         *)
(* Each use case reads in one database round trip and writes in a later    *)
(* one (SaveChangesAsync), with no transaction, lock or concurrency token  *)
(* across the two, so the requests of several users interleave between     *)
(* the read and the write.  A worker is one HTTP request in flight.        *)
(***************************************************************************)
EXTENDS Integers, FiniteSets

CONSTANTS
    Users,       \* registered chat users
    Rooms,       \* identifiers Guid.NewGuid can still hand out (a bound)
    NoRoom,      \* the empty Guid
    Texts,       \* room names up to case and surrounding blanks; "" is blank
    Names,       \* the names the users type
    Capacities,  \* the values of MaxNumberOfUsers the users type
    Workers      \* HTTP requests in flight at the same time

VARIABLES
    room,     \* chat_rooms: row of each room that exists
    members,  \* chat_room_users: the users that have a row for the room
    request   \* what each worker is doing, or the last reply it gave

vars == <<room, members, request>>

(* A name is its text, whether it has surrounding blanks and whether some  *)
(* letter is upper case.  Texts are at most 30 characters long.            *)
Name == [text : Texts, padded : BOOLEAN, upper : BOOLEAN]

ASSUME NamesAssumption == Names \subseteq Name
ASSUME NoRoomAssumption == NoRoom \notin Rooms
ASSUME CapacitiesAssumption == Capacities \subseteq Int
ASSUME UsersAssumption == IsFiniteSet(Users)

(* A row: its name is trimmed and its capacity one the validator accepts.  *)
Room == [name : {n \in Name : ~n.padded}, max : 2 .. 30, owner : Users]

Results == {"ok", "invalid", "nameTaken", "notFound", "full",
            "conflict", "aborted"}

Idle == [op |-> "idle"]

(* A request between its read and its write remembers what it has read:    *)
(* the users of the room, or (for the properties only) the rooms among     *)
(* which the name was looked up.                                           *)
Request ==
    {Idle}
    \cup [op : {"create"}, user : Users, name : Name, max : 2 .. 30,
          seen : SUBSET Rooms]
    \cup [op : {"join"}, user : Users, room : Rooms, seen : SUBSET Users]
    \cup [op : {"reply"}, to : {"create", "join"}, user : Users,
          room : Rooms \cup {NoRoom}, result : Results]

-----------------------------------------------------------------------------
(* Names, validation and the rules of the ChatRoom entity.                 *)
(* ValidCreateWithoutMinimum, IsFullOneEarly, IsFullOneLate and            *)
(* NameAlreadyTakenWithCase are mutants: what a slip would make of the     *)
(* definition after them.  The model does not use them.                    *)

Trim(n) == [n EXCEPT !.padded = FALSE]

(* c.Name.ToLower() == name.ToLower()                                      *)
SameIgnoringCase(n1, n2) == n1.text = n2.text /\ n1.padded = n2.padded

ValidCreateWithoutMinimum(n, max) == n.text # "" /\ max <= 30

(* NotEmpty() refuses blank names; InclusiveBetween(2, 30).                *)
ValidCreate(n, max) == n.text # "" /\ max \in 2 .. 30

ContainsUser(users, u) == u \in users

IsFullOneEarly(users, max) == Cardinality(users) + 1 = max

IsFullOneLate(users, max) == Cardinality(users) > max

IsFull(users, max) == Cardinality(users) = max

(* ChatRoom.AddUser, as the users of the room afterwards.                  *)
AddUser(users, max, u) ==
    IF ContainsUser(users, u) \/ IsFull(users, max) THEN users
                                                    ELSE users \cup {u}

NameAlreadyTakenWithCase(n) == \E r \in DOMAIN room : room[r].name = n

NameAlreadyTaken(n) ==
    \E r \in DOMAIN room : SameIgnoringCase(room[r].name, n)

-----------------------------------------------------------------------------
Init ==
    /\ room = [r \in {} |-> Idle]
    /\ members = [r \in Rooms |-> {}]
    /\ request = [w \in Workers |-> Idle]

Free(w) == request[w].op \in {"idle", "reply"}

Reply(w, to, u, r, result) ==
    request' = [request EXCEPT ![w] =
                  [op |-> "reply", to |-> to, user |-> u, room |-> r,
                   result |-> result]]

(* CreateChatRoom up to its first await: validation, then the query        *)
(* NameAlreadyTaken with the name as typed.                                *)
CreateChatRoom(w, u, n, max) ==
    /\ Free(w)
    /\ \/ ~ValidCreate(n, max) /\ Reply(w, "create", u, NoRoom, "invalid")
       \/ /\ ValidCreate(n, max)
          /\ NameAlreadyTaken(n)
          /\ Reply(w, "create", u, NoRoom, "nameTaken")
       \/ /\ ValidCreate(n, max)
          /\ ~NameAlreadyTaken(n)
          /\ request' = [request EXCEPT ![w] =
                           [op |-> "create", user |-> u, name |-> n,
                            max |-> max, seen |-> DOMAIN room]]
    /\ UNCHANGED <<room, members>>

(* The insert: the row has the trimmed name, the constructor adds the      *)
(* owner and ignores the result.                                           *)
SaveRoom(w) ==
    /\ request[w].op = "create"
    /\ \E r \in Rooms \ DOMAIN room :
         LET q == request[w]
             row == [name |-> Trim(q.name), max |-> q.max, owner |-> q.user]
         IN  /\ room' = [x \in DOMAIN room \cup {r} |->
                           IF x = r THEN row ELSE room[x]]
             /\ members' = [members EXCEPT ![r] = AddUser({}, q.max, q.user)]
             /\ Reply(w, "create", q.user, r, "ok")

(* JoinChatRoom up to the write: the room is read with all its users and   *)
(* the entity decides on that snapshot.                                    *)
JoinChatRoom(w, u, r) ==
    /\ Free(w)
    /\ \/ r = NoRoom /\ Reply(w, "join", u, r, "invalid")
       \/ r \in Rooms \ DOMAIN room /\ Reply(w, "join", u, r, "notFound")
       \/ /\ r \in DOMAIN room
          /\ ContainsUser(members[r], u)
          /\ Reply(w, "join", u, r, "ok")
       \/ /\ r \in DOMAIN room
          /\ ~ContainsUser(members[r], u)
          /\ IsFull(members[r], room[r].max)
          /\ Reply(w, "join", u, r, "full")
       \/ /\ r \in DOMAIN room
          /\ ~ContainsUser(members[r], u)
          /\ ~IsFull(members[r], room[r].max)
          /\ request' = [request EXCEPT ![w] =
                           [op |-> "join", user |-> u, room |-> r,
                            seen |-> members[r]]]
    /\ UNCHANGED <<room, members>>

(* The insert of the row (room, user), whose primary key is that pair:     *)
(* a second row for the same pair fails with DbUpdateException.            *)
SaveJoin(w) ==
    /\ request[w].op = "join"
    /\ LET q == request[w] IN
         \/ /\ q.user \in members[q.room]
            /\ Reply(w, "join", q.user, q.room, "conflict")
            /\ UNCHANGED members
         \/ /\ q.user \notin members[q.room]
            /\ members' = [members EXCEPT ![q.room] = @ \cup {q.user}]
            /\ Reply(w, "join", q.user, q.room, "ok")
    /\ UNCHANGED room

(* The client goes away (the cancellation token is passed to               *)
(* SaveChangesAsync), the database is unreachable or the process stops:    *)
(* the pending write is rolled back.                                       *)
AbortRequest(w) ==
    /\ \/ /\ request[w].op = "create"
          /\ Reply(w, "create", request[w].user, NoRoom, "aborted")
       \/ /\ request[w].op = "join"
          /\ Reply(w, "join", request[w].user, request[w].room, "aborted")
    /\ UNCHANGED <<room, members>>

Next ==
    \E w \in Workers :
        \/ \E u \in Users, n \in Names, max \in Capacities :
              CreateChatRoom(w, u, n, max)
        \/ SaveRoom(w)
        \/ \E u \in Users, r \in Rooms \cup {NoRoom} : JoinChatRoom(w, u, r)
        \/ SaveJoin(w)
        \/ AbortRequest(w)

Spec == Init /\ [][Next]_vars

-----------------------------------------------------------------------------
(* Every variable keeps its type: rooms have well-formed rows, members are *)
(* users, and a room without a row has no members.                         *)
TypeOK ==
    /\ DOMAIN room \subseteq Rooms
    /\ room = [r \in DOMAIN room |-> room[r]]
    /\ \A r \in DOMAIN room : room[r] \in Room
    /\ members \in [Rooms -> SUBSET Users]
    /\ \A r \in Rooms \ DOMAIN room : members[r] = {}
    /\ request \in [Workers -> Request]

(* The user that created a room is one of its users (the constructor of    *)
(* ChatRoom ignores the result of AddUser, so this rests on the validator  *)
(* having refused a capacity the owner does not fit in).                   *)
OwnerIsMember == \A r \in DOMAIN room : room[r].owner \in members[r]

(* What a reply to JoinChatRoom says stays true while others join: "ok"    *)
(* means the user has a row for the room, the room was refused as full     *)
(* only if it has at least as many users as it admits, and an insert fails *)
(* on the primary key only for a user who is in the room all the same.     *)
JoinReplyIsTruthful ==
    \A w \in Workers :
        LET q == request[w] IN
        q.op = "reply" /\ q.to = "join" =>
            /\ q.result \in {"ok", "conflict"} => q.user \in members[q.room]
            /\ q.result = "full" =>
                  Cardinality(members[q.room]) >= room[q.room].max

(* A room has never more users than MaxNumberOfUsers, the rule             *)
(* ChatRoom.AddUser enforces on the users it has loaded.                   *)
WithinCapacity ==
    \A r \in DOMAIN room : Cardinality(members[r]) <= room[r].max

(* A join that is about to be written has seen fewer users than the room   *)
(* admits: whoever comes to a room that is full is turned away.            *)
JoinsHaveRoom ==
    \A w \in Workers :
        LET q == request[w] IN
        q.op = "join" => Cardinality(q.seen) < room[q.room].max

(* A step that takes a room over its capacity writes a join that decided   *)
(* on users that are no longer the users of the room: checking again that  *)
(* the room has not changed since it was read is all that is missing.      *)
OvershootStep ==
    \A r \in DOMAIN room :
        /\ Cardinality(members[r]) <= room[r].max
        /\ Cardinality(members'[r]) > room[r].max
        => \E w \in Workers :
              /\ request[w].op = "join"
              /\ request[w].room = r
              /\ request[w].seen # members[r]
OvershootNeedsStaleRead == [][OvershootStep]_vars

(* A step that gives a second room a name stores one that was typed with a *)
(* blank around it, or one the first room did not have yet when the name   *)
(* was looked up: trimming it before, and looking again, is all that is    *)
(* missing.                                                                *)
DuplicateStep ==
    \A r \in DOMAIN room, s \in DOMAIN room' \ DOMAIN room :
        SameIgnoringCase(room[r].name, room'[s].name)
        => \E w \in Workers :
              /\ request[w].op = "create"
              /\ request'[w].op = "reply"
              /\ request'[w].room = s
              /\ request[w].name.padded \/ r \notin request[w].seen
DuplicateNeedsStaleLookup == [][DuplicateStep]_vars

(* No two rooms have the same name up to case: what the error "Name        *)
(* already taken!" of CreateChatRoom is there to guarantee.                *)
DistinctNames ==
    \A r, s \in DOMAIN room :
        r # s => ~SameIgnoringCase(room[r].name, room[s].name)
=============================================================================
