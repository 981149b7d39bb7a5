------------------------------ MODULE ChatSockets ------------------------------
(***************************************************************************)
(* The live side of chat (ChatGateway): sockets, the room of each login    *)
(* and of each conversation, the messages sent to rooms, and the count of  *)
(* unread messages pushed to the room of an account.  A push is started by *)
(* a request and not waited for: it counts the rows and then emits.        *)
(* Deleting a message does not touch its mark as unread and is left out.   *)
(*                                                                         *)
(* History: `heard' are the new_message events of the last step; `late' in *)
(* a push says that what it counted has changed since; `blurred' are the   *)
(* accounts whose count changed without a push, was lost or came late.     *)
(***************************************************************************)
EXTENDS Logins

CONSTANTS
  Chat,      \* the conversations, which are there from the start, each on its own project
  SidesOf,   \* their columns participantA and participantB
  Letter,    \* ids messages may get
  Deputy     \* <<sub-user, conversation>> that the sub-user of a company may be given (bound)

\* createOrGetConversation puts the account of the caller on one side and whomever the
\* request names on the other: a sub-user, or the caller, too.
ASSUME ChatAssumption ==
  /\ SidesOf \in [Chat -> Login \X Login]
  /\ \A k \in Chat : \E i \in 1 .. 2 : RootOf[SidesOf[k][i]] = SidesOf[k][i]
  /\ Nobody \notin Chat /\ IsFiniteSet(Letter) /\ Deputy \subseteq Login \X Chat

VARIABLES
  online,   \* logins with a socket, which is in the room of the login
  rooms,    \* who is in the room of a conversation
  granted,  \* assignments of sub-users
  gone,     \* conversations that went with their project
  letter,   \* the messages
  push,     \* the pushes under way
  shown,    \* the count a socket received last
  blurred, heard
socketVars == <<online, rooms, granted, gone, letter, push, shown, blurred, heard>>

NoChat  == Nobody
NoCount == Nobody
Blank   == [chat |-> NoChat, from |-> Nobody, read |-> FALSE]
NoPush  == [at |-> "idle", box |-> Nobody, count |-> 0, late |-> FALSE]

SocketsInit ==
  /\ online = {} /\ rooms = {} /\ granted = {} /\ gone \in SUBSET Chat
  /\ letter = [l \in Letter |-> Blank]
  /\ push = [h \in Handler |-> NoPush]
  /\ shown = [u \in Login |-> NoCount]
  /\ blurred = {} /\ heard = {}

Sides(k) == {SidesOf[k][1], SidesOf[k][2]}
\* The usual case: two accounts, each by its main login.
BetweenAccounts(k) == SidesOf[k][1] # SidesOf[k][2] /\ \A a \in Sides(k) : RootOf[a] = a

\* The look at the row and canAccessConversation, see Conversations.
Granted(u, k) ==
  \/ u \in Sides(k)
  \/ RootOf[u] \in Sides(k) /\ (KindOf[u] = "vendor" \/ <<u, k>> \in granted)
MayReach(u, k) == k \notin gone /\ Granted(u, k)

\* What an account has not read: messages its main login did not send, those of its
\* sub-users included.
UnreadAmong(ls, a) ==
  Cardinality({l \in Letter : /\ ls[l].chat # NoChat /\ a \in Sides(ls[l].chat)
                              /\ ls[l].from # a /\ ~ls[l].read})
Unread(a) == UnreadAmong(letter, a)

(***************************************************************************)
(* Sockets and rooms.                                                      *)
(***************************************************************************)
Unchanged_Rows == UNCHANGED <<granted, gone, letter, push, blurred>> /\ heard' = {}

\* A token opens the socket; whether the login is still active is not asked.
Connect(u) ==
  /\ u \notin online
  /\ online' = online \cup {u}
  /\ UNCHANGED <<rooms, shown>> /\ Unchanged_Rows

\* A client that comes back fetches the count.
Disconnect(u) ==
  /\ u \in online
  /\ online' = online \ {u}
  /\ rooms' = {x \in rooms : x[1] # u}
  /\ shown' = [shown EXCEPT ![u] = NoCount]
  /\ Unchanged_Rows

JoinConversation(u, k) ==
  /\ u \in online /\ MayReach(u, k)
  /\ rooms' = rooms \cup {<<u, k>>}
  /\ UNCHANGED <<online, shown>> /\ Unchanged_Rows

LeaveConversation(u, k) ==
  /\ <<u, k>> \in rooms
  /\ rooms' = rooms \ {<<u, k>>}
  /\ UNCHANGED <<online, shown>> /\ Unchanged_Rows

\* assignProjectToSubUser.
Assign(u, k) ==
  /\ <<u, k>> \in Deputy \ granted /\ k \notin gone
  /\ granted' = granted \cup {<<u, k>>}
  /\ UNCHANGED <<online, rooms, gone, letter, push, shown, blurred>> /\ heard' = {}

(***************************************************************************)
(* Messages.                                                               *)
(***************************************************************************)

CountMoved == {a \in Login : UnreadAmong(letter', a) # UnreadAmong(letter, a)}

\* The request is answered while h goes on to push the count of box, if there is one to
\* be pushed; that nobody pushes the counts of the excused is named in the property.
Wrote(h, box, excused) ==
  /\ push' = [g \in Handler |->
                IF g = h /\ box # Nobody THEN [NoPush EXCEPT !.at = "count", !.box = box]
                ELSE IF push[g].at = "emit" /\ push[g].box \in CountMoved
                     THEN [push[g] EXCEPT !.late = TRUE] ELSE push[g]]
  /\ blurred' = blurred \cup (CountMoved \cap excused)

\* Mutant of OtherParticipant: compared with mainUserId alone, which a main login has not.
OtherThanMain(u, k) ==
  IF IsSub(u) /\ SidesOf[k][1] = RootOf[u] THEN SidesOf[k][2] ELSE SidesOf[k][1]
\* otherParticipantId: wrong if the sender's account is on neither side.
OtherParticipant(u, k) ==
  IF SidesOf[k][1] = RootOf[u] THEN SidesOf[k][2] ELSE SidesOf[k][1]

\* Whose count a message pushes: that of the other participant's account.
Pushed(u, k) ==
  LET other == OtherParticipant(u, k) IN IF other = RootOf[u] THEN Nobody ELSE RootOf[other]

Write(l, u, k) ==
  /\ letter[l] = Blank
  /\ letter' = [letter EXCEPT ![l] = [chat |-> k, from |-> u, read |-> FALSE]]

\* sendMessage writes the row and starts the push.  So does sendBookingRequestMessage for
\* the main login of the company, which no room is told of.
Send(h, u, k, l) ==
  /\ push[h] = NoPush
  /\ MayReach(u, k)
  /\ Write(l, u, k)
  /\ Wrote(h, Pushed(u, k), IF BetweenAccounts(k) THEN {RootOf[u]} ELSE Login)
  /\ UNCHANGED <<online, rooms, granted, gone, shown>>

\* forwardMessage copies a message into a conversation.  It pushes nothing, and no room
\* is told.
Forward(u, m, k, l) ==
  /\ letter[m].chat # NoChat /\ MayReach(u, letter[m].chat)
  /\ MayReach(u, k)
  /\ Write(l, u, k)
  /\ Wrote(Nobody, Nobody, Login)
  /\ UNCHANGED <<online, rooms, granted, gone, shown>> /\ heard' = {}

\* Deleting a project takes its conversation and the messages along, and pushes nothing.
DeleteProject(k) ==
  /\ k \notin gone
  /\ gone' = gone \cup {k}
  /\ granted' = {x \in granted : x[2] # k}
  /\ letter' = [l \in Letter |-> IF letter[l].chat = k THEN Blank ELSE letter[l]]
  /\ Wrote(Nobody, Nobody, Login)
  /\ UNCHANGED <<online, rooms, shown>> /\ heard' = {}

\* Mutant of OwnTo: a sub-user does not know its main login.
OwnToMain(v, u) == v = u \/ (IsSub(u) /\ RootOf[u] = RootOf[v])
\* Whether a message from u counts as its own to v.
OwnTo(v, u) ==
  \/ v = u
  \/ IsSub(u) /\ RootOf[u] = v
  \/ IsSub(v) /\ RootOf[v] = u
  \/ IsSub(u) /\ IsSub(v) /\ RootOf[u] = RootOf[v]
InRoom(k) == {u \in Login : <<u, k>> \in rooms}

\* The event to each socket in the room: sent by socket it is made out for its receiver,
\* sent by REST everybody gets the sender's copy.
SendBySocket(h, u, k, l) ==
  /\ u \in online
  /\ Send(h, u, k, l)
  /\ heard' =
       {[by |-> "socket", who |-> v, what |-> l, own |-> OwnTo(v, u)] : v \in InRoom(k)}
SendByRest(h, u, k, l) ==
  /\ Send(h, u, k, l)
  /\ heard' =
       {[by |-> "rest", who |-> v, what |-> l, own |-> OwnTo(u, u)] : v \in InRoom(k)}

\* markAsRead, by REST or by a read_ack; it pushes to the reader's account.
MarkAsRead(h, u, k) ==
  LET news == {l \in Letter : letter[l].chat = k /\ letter[l].from # u /\ ~letter[l].read} IN
  /\ push[h] = NoPush
  /\ MayReach(u, k) /\ news # {}
  /\ letter' = [l \in Letter |-> IF l \in news THEN [letter[l] EXCEPT !.read = TRUE] ELSE letter[l]]
  /\ Wrote(h, RootOf[u], IF BetweenAccounts(k) THEN Sides(k) \ {RootOf[u]} ELSE Login)
  /\ UNCHANGED <<online, rooms, granted, gone, shown>> /\ heard' = {}

\* pushUnreadForUser: the query, and the event to the room of the account's main login.
CountLetters(h) ==
  /\ push[h].at = "count"
  /\ push' = [push EXCEPT ![h].at = "emit", ![h].count = Unread(push[h].box)]
  /\ UNCHANGED <<online, rooms, granted, gone, letter, shown, blurred>> /\ heard' = {}
EmitUnread(h) ==
  LET a == push[h].box IN
  /\ push[h].at = "emit"
  /\ shown' = IF a \in online THEN [shown EXCEPT ![a] = push[h].count] ELSE shown
  /\ blurred' = IF push[h].late THEN blurred \cup {a} ELSE blurred \ {a}
  /\ push' = [push EXCEPT ![h] = NoPush]
  /\ UNCHANGED <<online, rooms, granted, gone, letter>> /\ heard' = {}
\* A query that fails is swallowed.
LosePush(h) ==
  /\ push[h].at = "count"
  /\ push' = [push EXCEPT ![h] = NoPush]
  /\ blurred' = blurred \cup {push[h].box}
  /\ UNCHANGED <<online, rooms, granted, gone, letter, shown>> /\ heard' = {}

Line(u)    == Connect(u) \/ Disconnect(u) \/ \E k \in Chat : Assign(u, k)
RoomStep ==
  \E u \in Login :
    \/ Line(u)
    \/ \E k \in Chat :
         \/ JoinConversation(u, k) \/ LeaveConversation(u, k)
         \/ \E h \in Handler, l \in Letter : SendBySocket(h, u, k, l) \/ SendByRest(h, u, k, l)
PushStep ==
  \/ \E u \in Login :
       \/ Line(u)
       \/ \E h \in Handler, k \in Chat :
            MarkAsRead(h, u, k) \/ \E l \in Letter : SendByRest(h, u, k, l)
       \/ \E k \in Chat, m, l \in Letter : Forward(u, m, k, l)
  \/ \E k \in Chat : DeleteProject(k)
  \/ \E h \in Handler : CountLetters(h) \/ EmitUnread(h) \/ LosePush(h)

SocketsSpec == SocketsInit /\ [][RoomStep \/ PushStep]_socketVars

(***************************************************************************)
(* Properties.                                                             *)
(***************************************************************************)
\* Every variable has its type.
SocketsTypeOK ==
  /\ online \subseteq Login
  /\ gone \subseteq Chat
  /\ rooms \subseteq Login \X Chat /\ granted \subseteq Login \X Chat
  /\ letter \in [Letter -> [chat : Chat \cup {NoChat}, from : Login \cup {Nobody}, read : BOOLEAN]]
  /\ push \in [Handler -> [at : {"idle", "count", "emit"}, box : Login \cup {Nobody},
                           count : 0..Cardinality(Letter), late : BOOLEAN]]
  /\ shown \in [Login -> 0..Cardinality(Letter) \cup {NoCount}]
  /\ blurred \subseteq Login
  /\ heard \subseteq [by : {"socket", "rest"}, who : Login, what : Letter, own : BOOLEAN]

\* With no push to an account under way, the count its socket shows is the number of
\* unread messages, unless a push was lost or two overlapped, or the count moved without
\* one: a sub-user wrote or was read, an account marked its own messages, a message was
\* forwarded, a project was deleted, or somebody wrote or read in a conversation that names
\* a sub-user or has one participant twice.
UnreadStaleOnlyInRace ==
  \A a \in online :
    shown[a] # NoCount /\ a \notin blurred /\ (\A h \in Handler : push[h].box # a)
      => shown[a] = Unread(a)

\* A socket hears only messages its login may read, although rooms are not left when
\* anything changes; and a message sent by socket is told to be one's own exactly within
\* the sender's account.
HeardRight ==
  \A e \in heard :
    /\ MayReach(e.who, letter[e.what].chat)
    /\ e.by = "socket" => (e.own <=> RootOf[e.who] = RootOf[letter[e.what].from])
=============================================================================
