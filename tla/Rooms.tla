------------------------------- MODULE Rooms -------------------------------
(***************************************************************************)
(* Who may connect to a chat room: CreateRoom, GetRoom and Exists of       *)
(* pkg/app/chat/chat.go, with their handlers in pkg/app/chat.go.           *)
(*                                                                         *)
(* A room and its first member are two inserts, and a room and its members *)
(* are two queries, between which other requests come.  What ends a list   *)
(* of members is not looked at: a connection lost within it leaves a       *)
(* shorter list.                                                           *)
(*                                                                         *)
(* A request connects as the user of its token, and one without a token as *)
(* the user that its query names.  What is said of users is therefore said *)
(* of requests with a token.                                               *)
(***************************************************************************)
EXTENDS Integers, Sequences

CONSTANTS
  Users,        \* the users
  NoClaims,     \* a request without a token
  Creators,     \* requests that create a room
  Visitors,     \* requests that connect to a room
  MaxRooms,     \* bound: rooms
  MaxCuts       \* bound: statements that fail or are cut short

ASSUME RoomsAssumption ==
  NoClaims \notin Users /\ MaxRooms \in Nat /\ MaxCuts \in Nat

VARIABLES
  rooms,     \* table chatroom: owners, by id
  members,   \* table chatroom_members
  creator,   \* the requests that create
  visitor,   \* the requests that connect
  cuts       \* failures so far

tableVars == <<rooms, members>>
roomsVars == <<tableVars, creator, visitor, cuts>>

RoomIds == 1 .. MaxRooms

\* Of a request that connects: whose token it has, whom its query names, whether
\* its room was answered before it came, and whether a list was cut short for it.
NewVisitor(user) ==
  [at |-> "new", room |-> 0, claims |-> NoClaims, query |-> user, told |-> FALSE, cut |-> FALSE]

RoomsTypeOK ==
  /\ rooms \in Seq(Users) /\ Len(rooms) <= MaxRooms
  /\ members \subseteq RoomIds \X Users
  /\ creator \in [Creators -> [at : {"new", "member", "ok", "error"}, room : 0 .. MaxRooms]]
  /\ visitor \in [Visitors ->
       [at : {"new", "members", "connected", "refused", "not found", "error"},
        room : 0 .. MaxRooms, claims : Users \cup {NoClaims}, query : Users,
        told : BOOLEAN, cut : BOOLEAN]]
  /\ cuts \in 0 .. MaxCuts

RoomsInit ==
  /\ rooms = <<>> /\ members = {}
  /\ creator = [c \in Creators |-> [at |-> "new", room |-> 0]]
  /\ \E user \in Users : visitor = [v \in Visitors |-> NewVisitor(user)]
  /\ cuts = 0

Cut == cuts < MaxCuts /\ cuts' = cuts + 1
-----------------------------------------------------------------------------
(* CreateRoom.                                                             *)

InsertRoom(c, user) ==
  /\ creator[c].at = "new" /\ Len(rooms) < MaxRooms
  /\ rooms' = Append(rooms, user)
  /\ creator' = [creator EXCEPT ![c] = [at |-> "member", room |-> Len(rooms) + 1]]
  /\ UNCHANGED <<members, visitor, cuts>>

\* The row may be there when its id does not come back.
InsertRoomFails(c, user) ==
  /\ creator[c].at = "new" /\ Len(rooms) < MaxRooms
  /\ Cut
  /\ rooms' \in {rooms, Append(rooms, user)}
  /\ creator' = [creator EXCEPT ![c].at = "error"]
  /\ UNCHANGED <<members, visitor>>

InsertMember(c) ==
  /\ creator[c].at = "member"
  /\ members' = members \cup {<<creator[c].room, rooms[creator[c].room]>>}
  /\ creator' = [creator EXCEPT ![c].at = "ok"]
  /\ UNCHANGED <<rooms, visitor, cuts>>

\* Mutant: the error of the second insert is not looked at.
InsertMemberIgnored(c) ==
  /\ creator[c].at = "member"
  /\ Cut
  /\ creator' = [creator EXCEPT ![c].at = "ok"]
  /\ UNCHANGED <<tableVars, visitor>>

\* The room stays, perhaps without members.
InsertMemberFails(c) ==
  /\ creator[c].at = "member"
  /\ Cut
  /\ members' \in {members, members \cup {<<creator[c].room, rooms[creator[c].room]>>}}
  /\ creator' = [creator EXCEPT ![c].at = "error"]
  /\ UNCHANGED <<rooms, visitor>>
-----------------------------------------------------------------------------
(* Exists: whether a request may connect.  The query of GetRoom does not   *)
(* select the column "public", so that every room is private.              *)

\* The user that a request connects as.
Claimed(q) == IF q.claims = NoClaims THEN q.query ELSE q.claims

QueryRoom(v, room, claims, query) ==
  /\ visitor[v].at = "new"
  /\ visitor' = [visitor EXCEPT ![v] =
       [at |-> IF room \in DOMAIN rooms THEN "members" ELSE "not found",
        room |-> room, claims |-> claims, query |-> query, cut |-> FALSE,
        told |-> \E c \in Creators : creator[c] = [at |-> "ok", room |-> room]]]
  /\ UNCHANGED <<tableVars, creator, cuts>>

MembersOf(room) == {u \in Users : <<room, u>> \in members}

QueryMembers(v) ==
  /\ visitor[v].at = "members"
  /\ visitor' = [visitor EXCEPT ![v].at =
       IF Claimed(visitor[v]) \in MembersOf(visitor[v].room) THEN "connected" ELSE "refused"]
  /\ UNCHANGED <<tableVars, creator, cuts>>

\* Some of the members come, and then the connection to the database is lost.
QueryMembersCut(v) ==
  /\ visitor[v].at = "members"
  /\ Cut
  /\ \E found \in SUBSET MembersOf(visitor[v].room) :
       /\ found # MembersOf(visitor[v].room)
       /\ visitor' = [visitor EXCEPT
            ![v].at = IF Claimed(visitor[v]) \in found THEN "connected" ELSE "refused",
            ![v].cut = TRUE]
  /\ UNCHANGED <<tableVars, creator>>

\* One of the two queries fails, or the row of the room does not come.
QueryFails(v) ==
  /\ visitor[v].at \in {"new", "members"}
  /\ Cut
  /\ visitor' = [visitor EXCEPT ![v].at = "error"]
  /\ UNCHANGED <<tableVars, creator>>

RoomsNext ==
  \/ \E c \in Creators :
       \/ \E user \in Users : InsertRoom(c, user) \/ InsertRoomFails(c, user)
       \/ InsertMember(c) \/ InsertMemberFails(c)
  \/ \E v \in Visitors :
       \/ \E room \in RoomIds, claims \in Users \cup {NoClaims}, query \in Users :
            QueryRoom(v, room, claims, query)
       \/ QueryMembers(v) \/ QueryMembersCut(v) \/ QueryFails(v)

RoomsSpec == RoomsInit /\ [][RoomsNext]_roomsVars
-----------------------------------------------------------------------------
\* Who creates a room gets into it, and nobody else does with a token.  A request
\* with the token of a room's owner, made after the room was answered, is neither
\* refused nor told that there is no such room, whatever failed before it and
\* whatever comes between its two queries, unless its own list of members is cut
\* short; and a request with a token that is connected is the owner's, even if
\* the creation was answered with an error.
CreatorAdmitted ==
  \A v \in Visitors :
    LET q == visitor[v] IN
      /\ q.told /\ q.claims = rooms[q.room] =>
           q.at # "not found" /\ (q.at = "refused" => q.cut)
      /\ q.at = "connected" /\ q.claims # NoClaims =>
           q.room \in DOMAIN rooms /\ q.claims = rooms[q.room]
=============================================================================
