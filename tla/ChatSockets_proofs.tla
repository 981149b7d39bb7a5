-------------------------- MODULE ChatSockets_proofs --------------------------
(***************************************************************************)
(* Proofs about the live side of chat, for any number of logins,           *)
(* conversations, messages and pushes under way.                           *)
(***************************************************************************)
EXTENDS ChatSockets, FiniteSetTheorems, TLAPS

(***************************************************************************)
(* Accounts and counts.                                                    *)
(***************************************************************************)

\* The gateway's comparison is that of the accounts.
LEMMA OwnIsSameAccount ==
  \A u, v \in Login : OwnTo(v, u) <=> RootOf[v] = RootOf[u]
BY LoginAssumption DEF OwnTo, IsSub

\* Whom a message is pushed to is a main login, or nobody.
LEMMA PushedToAccount ==
  \A u \in Login, k \in Chat : Pushed(u, k) \in Login \cup {Nobody}
BY LoginAssumption, ChatAssumption DEF Pushed, OtherParticipant

\* Between two accounts a message is pushed to the other one.
LEMMA PushedToOther ==
  ASSUME NEW u \in Login, NEW k \in Chat, MayReach(u, k), BetweenAccounts(k)
  PROVE  Sides(k) = {RootOf[u], Pushed(u, k)}
<1>1. /\ SidesOf[k][1] \in Login /\ SidesOf[k][2] \in Login /\ SidesOf[k][1] # SidesOf[k][2]
      /\ RootOf[SidesOf[k][1]] = SidesOf[k][1] /\ RootOf[SidesOf[k][2]] = SidesOf[k][2]
  BY ChatAssumption DEF BetweenAccounts, Sides
<1>2. RootOf[u] \in {SidesOf[k][1], SidesOf[k][2]}
  BY <1>1 DEF MayReach, Granted, Sides
<1>3. CASE RootOf[u] = SidesOf[k][1]
  BY <1>1, <1>3 DEF Pushed, OtherParticipant, Sides
<1>4. CASE RootOf[u] = SidesOf[k][2]
  BY <1>1, <1>4 DEF Pushed, OtherParticipant, Sides
<1> QED BY <1>2, <1>3, <1>4

\* The number of unread messages is at most that of the messages.
LEMMA UnreadNumber == \A ls, a : UnreadAmong(ls, a) \in 0 .. Cardinality(Letter)
<1> TAKE ls, a
<1> DEFINE S == {l \in Letter : /\ ls[l].chat # NoChat /\ a \in Sides(ls[l].chat)
                                /\ ls[l].from # a /\ ~ls[l].read}
<1>1. S \subseteq Letter /\ IsFiniteSet(Letter)
  BY ChatAssumption
<1>2. Cardinality(S) \in Nat /\ Cardinality(Letter) \in Nat /\ Cardinality(S) <= Cardinality(Letter)
  BY <1>1, FS_Subset, FS_CardinalityType
<1> QED BY <1>2 DEF UnreadAmong

(***************************************************************************)
(* The invariant: nobody is in the room of a conversation it may not read, *)
(* unless the conversation is gone, a count on its way that is not late is *)
(* right, and what is shown is right but for the races.                    *)
(***************************************************************************)
RoomsGranted == \A u \in Login, k \in Chat : <<u, k>> \in rooms => k \in gone \/ Granted(u, k)
SocketsInv ==
  /\ SocketsTypeOK
  /\ RoomsGranted
  /\ HeardRight
  /\ \A u \in Login : u \notin online => shown[u] = NoCount
  /\ \A h \in Handler : push[h].at = "idle" <=> push[h].box = Nobody
  /\ \A h \in Handler, a \in Login :
       push[h].at = "emit" /\ push[h].box = a /\ ~push[h].late => push[h].count = Unread(a)
  /\ UnreadStaleOnlyInRace

\* It holds at first.
LEMMA SocketsInvInit == SocketsInit => SocketsInv
<1> SUFFICES ASSUME SocketsInit PROVE SocketsInv
  OBVIOUS
<1>0. 0 \in 0 .. Cardinality(Letter)
  BY ChatAssumption, FS_CardinalityType
<1>1. SocketsTypeOK
  BY <1>0 DEF SocketsInit, SocketsTypeOK, Blank, NoPush, NoChat, NoCount
<1>2. HeardRight /\ UnreadStaleOnlyInRace /\ RoomsGranted
  BY DEF SocketsInit, HeardRight, UnreadStaleOnlyInRace, RoomsGranted
<1> QED BY <1>1, <1>2, LoginAssumption DEF SocketsInit, SocketsInv, NoPush

\* Writing and reading in a conversation moves the counts of its participants alone.
LEMMA CountsElsewhere ==
  ASSUME NEW k \in Chat,
         \A m \in Letter : \/ letter'[m] = letter[m]
                           \/ {letter[m].chat, letter'[m].chat} \subseteq {k, NoChat}
  PROVE  CountMoved \subseteq Sides(k)
<1> SUFFICES ASSUME NEW a \in Login, a \notin Sides(k)
             PROVE  UnreadAmong(letter', a) = UnreadAmong(letter, a)
  BY DEF CountMoved
<1>1. ASSUME NEW m \in Letter
      PROVE  (/\ letter'[m].chat # NoChat /\ a \in Sides(letter'[m].chat)
              /\ letter'[m].from # a /\ ~letter'[m].read)
             <=> (/\ letter[m].chat # NoChat /\ a \in Sides(letter[m].chat)
                  /\ letter[m].from # a /\ ~letter[m].read)
  <2>1. CASE letter'[m] = letter[m]
    BY <2>1
  <2>2. CASE {letter[m].chat, letter'[m].chat} \subseteq {k, NoChat}
    BY <2>2
  <2> QED BY <2>1, <2>2
<1>2. {m \in Letter : /\ letter'[m].chat # NoChat /\ a \in Sides(letter'[m].chat)
                      /\ letter'[m].from # a /\ ~letter'[m].read}
      = {m \in Letter : /\ letter[m].chat # NoChat /\ a \in Sides(letter[m].chat)
                        /\ letter[m].from # a /\ ~letter[m].read}
  BY <1>1
<1> QED BY <1>2 DEF UnreadAmong

\* A step at which nothing is read, written or pushed, and at which what a socket was
\* shown stays or is forgotten.
LEMMA LineStep ==
  ASSUME SocketsInv, UNCHANGED <<gone, letter, push, blurred>>, heard' = {},
         online' \subseteq Login, rooms' \subseteq Login \X Chat, granted' \subseteq Login \X Chat,
         granted \subseteq granted',
         \A u \in Login, k \in Chat : <<u, k>> \in rooms' => <<u, k>> \in rooms \/ Granted(u, k),
         shown' \in [Login -> 0 .. Cardinality(Letter) \cup {NoCount}],
         \A u \in Login : shown'[u] = NoCount \/ (shown'[u] = shown[u] /\ u \in online),
         \A u \in Login : u \notin online' => shown'[u] = NoCount
  PROVE  SocketsInv'
<1> USE DEF SocketsInv
<1>1. \A a : Unread(a)' = Unread(a)
  BY DEF Unread
<1>2. SocketsTypeOK'
  BY DEF SocketsTypeOK
<1>3. RoomsGranted'
  BY DEF RoomsGranted, Granted
<1>4. HeardRight'
  BY DEF HeardRight
<1>5. UnreadStaleOnlyInRace'
  BY <1>1 DEF UnreadStaleOnlyInRace
<1> QED BY <1>1, <1>2, <1>3, <1>4, <1>5

\* A request that changes messages pushes to one account at most, and the accounts whose
\* number moves without a push are counted as blurred.
LEMMA WroteStep ==
  ASSUME SocketsInv, NEW h, NEW box \in Login \cup {Nobody}, NEW excused \in SUBSET Login,
         (h \in Handler /\ push[h] = NoPush) \/ box = Nobody,
         Wrote(h, box, excused), CountMoved \subseteq {box} \cup excused,
         UNCHANGED <<online, shown>>, rooms' \subseteq Login \X Chat, RoomsGranted',
         granted' \subseteq Login \X Chat, gone' \subseteq Chat,
         letter' \in [Letter -> [chat : Chat \cup {NoChat}, from : Login \cup {Nobody}, read : BOOLEAN]],
         heard' \subseteq [by : {"socket", "rest"}, who : Login, what : Letter, own : BOOLEAN],
         HeardRight'
  PROVE  SocketsInv'
<1> USE DEF SocketsInv, SocketsTypeOK
<1>1. /\ push' = [g \in Handler |->
                    IF g = h /\ box # Nobody THEN [NoPush EXCEPT !.at = "count", !.box = box]
                    ELSE IF push[g].at = "emit" /\ push[g].box \in CountMoved
                         THEN [push[g] EXCEPT !.late = TRUE] ELSE push[g]]
      /\ blurred' = blurred \cup (CountMoved \cap excused)
  BY DEF Wrote
<1>2. 0 \in 0 .. Cardinality(Letter) /\ Nobody \notin Login
  BY ChatAssumption, LoginAssumption, FS_CardinalityType
<1>3. box \in Login =>
      /\ [NoPush EXCEPT !.at = "count", !.box = box].at = "count"
      /\ [NoPush EXCEPT !.at = "count", !.box = box].box = box
      /\ [NoPush EXCEPT !.at = "count", !.box = box] \in
           [at : {"idle", "count", "emit"}, box : Login \cup {Nobody},
            count : 0..Cardinality(Letter), late : BOOLEAN]
  BY <1>2 DEF NoPush
<1>4. ASSUME NEW g \in Handler
      PROVE  /\ push'[g] \in [at : {"idle", "count", "emit"}, box : Login \cup {Nobody},
                              count : 0..Cardinality(Letter), late : BOOLEAN]
             /\ g = h /\ box # Nobody => push'[g].at = "count" /\ push'[g].box = box
             /\ ~(g = h /\ box # Nobody) =>
                         /\ push'[g].at = push[g].at /\ push'[g].box = push[g].box
                         /\ push'[g].count = push[g].count
                         /\ push[g].at = "emit" /\ push[g].box \in CountMoved => push'[g].late
                         /\ ~push'[g].late => ~push[g].late
  <2>1. CASE g = h /\ box # Nobody
    BY <1>1, <1>3, <2>1
  <2>2. CASE ~(g = h /\ box # Nobody)
    <3>1. push'[g] = IF push[g].at = "emit" /\ push[g].box \in CountMoved
                     THEN [push[g] EXCEPT !.late = TRUE] ELSE push[g]
      BY <1>1, <2>2
    <3>2. \A p \in [at : {"idle", "count", "emit"}, box : Login \cup {Nobody},
                    count : 0..Cardinality(Letter), late : BOOLEAN] :
            LET q == [p EXCEPT !.late = TRUE]
            IN  /\ q \in [at : {"idle", "count", "emit"}, box : Login \cup {Nobody},
                          count : 0..Cardinality(Letter), late : BOOLEAN]
                /\ q.at = p.at /\ q.box = p.box /\ q.count = p.count /\ q.late
      OBVIOUS
    <3> QED BY <2>2, <3>1, <3>2
  <2> QED BY <2>1, <2>2
<1>5. \A a \in Login : a \notin CountMoved => Unread(a)' = Unread(a)
  BY DEF Unread, CountMoved
<1>6. SocketsTypeOK'
  <2>1. push' \in [Handler -> [at : {"idle", "count", "emit"}, box : Login \cup {Nobody},
                               count : 0..Cardinality(Letter), late : BOOLEAN]]
    <3>1. DOMAIN push' = Handler /\ push' = [g \in Handler |-> push'[g]]
      BY <1>1
    <3> QED BY <3>1, <1>4
  <2>2. blurred' \subseteq Login
    BY <1>1
  <2> QED BY <2>1, <2>2
<1>7. \A g \in Handler : push'[g].at = "idle" <=> push'[g].box = Nobody
  BY <1>2, <1>4
<1>8. ASSUME NEW g \in Handler, NEW a \in Login,
             push'[g].at = "emit", push'[g].box = a, ~push'[g].late
      PROVE  push'[g].count = Unread(a)'
  <2>1. ~(g = h /\ box # Nobody)
    BY <1>4, <1>8
  <2>2. a \notin CountMoved
    BY <1>4, <1>8, <2>1
  <2> QED BY <1>4, <1>5, <1>8, <2>1, <2>2
<1>9. UnreadStaleOnlyInRace'
  <2> SUFFICES ASSUME NEW a \in online, shown[a] # NoCount, a \notin blurred',
                      \A g \in Handler : push'[g].box # a
               PROVE  shown[a] = Unread(a)'
    BY DEF UnreadStaleOnlyInRace
  <2>1. a \in Login /\ a # box
    BY <1>2, <1>4
  <2>2. a \notin CountMoved
    BY <1>1, <2>1
  <2>3. \A g \in Handler : push[g].box # a
    <3>1. ASSUME NEW g \in Handler PROVE push[g].box # a
      <4>1. CASE g = h /\ box # Nobody
        BY <1>2, <4>1, <2>1 DEF NoPush
      <4>2. CASE ~(g = h /\ box # Nobody)
        BY <1>4, <4>2
      <4> QED BY <4>1, <4>2
    <3> QED BY <3>1
  <2>4. a \notin blurred
    BY <1>1
  <2>5. shown[a] = Unread(a)
    BY <2>3, <2>4 DEF UnreadStaleOnlyInRace
  <2> QED BY <1>5, <2>1, <2>2, <2>5
<1>10. \A u \in Login : u \notin online' => shown'[u] = NoCount
  OBVIOUS
<1> QED BY <1>6, <1>7, <1>8, <1>9, <1>10

\* A new message in a conversation.
LEMMA WrittenStep ==
  ASSUME SocketsInv, NEW u \in Login, NEW k \in Chat, NEW l \in Letter, Write(l, u, k)
  PROVE  /\ letter' \in [Letter -> [chat : Chat \cup {NoChat}, from : Login \cup {Nobody},
                                    read : BOOLEAN]]
         /\ letter'[l].chat = k /\ letter'[l].from = u
         /\ CountMoved \subseteq Sides(k)
<1>1. /\ letter[l] = Blank
      /\ letter' = [letter EXCEPT ![l] = [chat |-> k, from |-> u, read |-> FALSE]]
  BY DEF Write
<1>2. letter'[l] = [chat |-> k, from |-> u, read |-> FALSE]
      /\ \A m \in Letter : m # l => letter'[m] = letter[m]
  BY <1>1 DEF SocketsInv, SocketsTypeOK
<1>3. letter[l].chat = NoChat /\ letter'[l].chat = k /\ letter'[l].from = u
  BY <1>1, <1>2 DEF Blank
<1>4. letter' \in [Letter -> [chat : Chat \cup {NoChat}, from : Login \cup {Nobody}, read : BOOLEAN]]
  BY <1>1 DEF SocketsInv, SocketsTypeOK
<1>5. CountMoved \subseteq Sides(k)
  BY <1>2, <1>3, CountsElsewhere
<1> QED BY <1>3, <1>4, <1>5

\* Sending moves the numbers of the two accounts; that of the other is pushed.
LEMMA SentStep ==
  ASSUME SocketsInv, NEW h \in Handler, NEW u \in Login, NEW k \in Chat, NEW l \in Letter,
         Send(h, u, k, l), NEW by \in {"socket", "rest"},
         heard' \subseteq {e \in [by : {by}, who : Login, what : {l}, own : BOOLEAN] :
                             <<e.who, k>> \in rooms},
         \A e \in heard' : e.by = "socket" => (e.own <=> RootOf[e.who] = RootOf[u])
  PROVE  SocketsInv'
<1>1. /\ push[h] = NoPush /\ MayReach(u, k) /\ Write(l, u, k)
      /\ Wrote(h, Pushed(u, k), IF BetweenAccounts(k) THEN {RootOf[u]} ELSE Login)
      /\ UNCHANGED <<online, rooms, granted, gone, shown>>
  BY DEF Send
<1>2. /\ letter' \in [Letter -> [chat : Chat \cup {NoChat}, from : Login \cup {Nobody},
                                 read : BOOLEAN]]
      /\ letter'[l].chat = k /\ letter'[l].from = u
      /\ CountMoved \subseteq Sides(k)
  BY <1>1, WrittenStep
<1>3. RootOf[u] \in Login /\ CountMoved \subseteq Login
  BY LoginAssumption DEF CountMoved
<1>4. PICK box \in Login \cup {Nobody} : box = Pushed(u, k)
  BY PushedToAccount
<1>5. PICK excused \in SUBSET Login : excused = IF BetweenAccounts(k) THEN {RootOf[u]} ELSE Login
  BY <1>3
<1>6. CountMoved \subseteq {box} \cup excused
  BY <1>1, <1>2, <1>3, <1>4, <1>5, PushedToOther
<1>7. /\ heard' \subseteq [by : {"socket", "rest"}, who : Login, what : Letter, own : BOOLEAN]
      /\ rooms' \subseteq Login \X Chat /\ granted' \subseteq Login \X Chat /\ gone' \subseteq Chat
  BY <1>1 DEF SocketsInv, SocketsTypeOK
<1>8. RoomsGranted'
  BY <1>1 DEF SocketsInv, RoomsGranted, Granted
<1>9. HeardRight'
  <2> SUFFICES ASSUME NEW e \in heard'
               PROVE  /\ MayReach(e.who, k)'
                      /\ e.by = "socket" => (e.own <=> RootOf[e.who] = RootOf[u])
    <3>1. \A e \in heard' : e.what = l
      OBVIOUS
    <3> QED BY <1>2, <3>1 DEF HeardRight, MayReach, Granted
  <2>1. e.who \in Login /\ <<e.who, k>> \in rooms
    OBVIOUS
  <2>2. k \notin gone /\ Granted(e.who, k)
    BY <1>1, <2>1 DEF SocketsInv, RoomsGranted, MayReach
  <2> QED BY <1>1, <2>2 DEF MayReach, Granted
<1> QED BY <1>1, <1>2, <1>4, <1>5, <1>6, <1>7, <1>8, <1>9, WroteStep

\* Forwarding pushes nothing, so whose number moves is counted as blurred.
LEMMA ForwardedStep ==
  ASSUME SocketsInv, NEW u \in Login, NEW k \in Chat, NEW m \in Letter, NEW l \in Letter,
         Forward(u, m, k, l)
  PROVE  SocketsInv'
<1>1. /\ Write(l, u, k) /\ Wrote(Nobody, Nobody, Login)
      /\ UNCHANGED <<online, rooms, granted, gone, shown>> /\ heard' = {}
  BY DEF Forward
<1>2. /\ letter' \in [Letter -> [chat : Chat \cup {NoChat}, from : Login \cup {Nobody},
                                 read : BOOLEAN]]
  BY <1>1, WrittenStep
<1>3. CountMoved \subseteq Login
  BY DEF CountMoved
<1>4. RoomsGranted' /\ HeardRight'
  BY <1>1 DEF SocketsInv, RoomsGranted, Granted, HeardRight
<1>5. rooms' \subseteq Login \X Chat /\ granted' \subseteq Login \X Chat /\ gone' \subseteq Chat
  BY <1>1 DEF SocketsInv, SocketsTypeOK
<1> QED BY <1>1, <1>2, <1>3, <1>4, <1>5, WroteStep

\* The same where a project is deleted: its rooms are left to a conversation that is gone.
LEMMA DeletedStep ==
  ASSUME SocketsInv, NEW k \in Chat, DeleteProject(k)
  PROVE  SocketsInv'
<1>1. /\ gone' = gone \cup {k} /\ granted' = {x \in granted : x[2] # k}
      /\ letter' = [l \in Letter |-> IF letter[l].chat = k THEN Blank ELSE letter[l]]
      /\ Wrote(Nobody, Nobody, Login) /\ UNCHANGED <<online, rooms, shown>> /\ heard' = {}
  BY DEF DeleteProject
<1>2. letter' \in [Letter -> [chat : Chat \cup {NoChat}, from : Login \cup {Nobody},
                              read : BOOLEAN]]
  BY <1>1 DEF SocketsInv, SocketsTypeOK, Blank, NoChat
<1>3. CountMoved \subseteq Login
  BY DEF CountMoved
<1>4. RoomsGranted'
  <2> SUFFICES ASSUME NEW u \in Login, NEW c \in Chat, <<u, c>> \in rooms, c \notin gone, c # k
               PROVE  Granted(u, c)'
    BY <1>1 DEF RoomsGranted
  <2>1. Granted(u, c)
    BY DEF SocketsInv, RoomsGranted
  <2>2. <<u, c>> \in granted => <<u, c>> \in granted'
    BY <1>1
  <2> QED BY <2>1, <2>2 DEF Granted
<1>5. HeardRight'
  BY <1>1 DEF HeardRight
<1>6. rooms' \subseteq Login \X Chat /\ granted' \subseteq Login \X Chat /\ gone' \subseteq Chat
  BY <1>1 DEF SocketsInv, SocketsTypeOK
<1> QED BY <1>1, <1>2, <1>3, <1>4, <1>5, <1>6, WroteStep

\* Reading moves the numbers of the two accounts; that of the reader is pushed.
LEMMA ReadStep ==
  ASSUME SocketsInv, NEW h \in Handler, NEW u \in Login, NEW k \in Chat, MarkAsRead(h, u, k)
  PROVE  SocketsInv'
<1> DEFINE news == {l \in Letter : letter[l].chat = k /\ letter[l].from # u /\ ~letter[l].read}
<1>1. /\ push[h] = NoPush /\ MayReach(u, k)
      /\ letter' = [l \in Letter |-> IF l \in news THEN [letter[l] EXCEPT !.read = TRUE] ELSE letter[l]]
      /\ Wrote(h, RootOf[u], IF BetweenAccounts(k) THEN Sides(k) \ {RootOf[u]} ELSE Login)
      /\ UNCHANGED <<online, rooms, granted, gone, shown>> /\ heard' = {}
  BY DEF MarkAsRead
<1>2. \A p \in [chat : Chat \cup {NoChat}, from : Login \cup {Nobody}, read : BOOLEAN] :
        LET q == [p EXCEPT !.read = TRUE]
        IN  /\ q \in [chat : Chat \cup {NoChat}, from : Login \cup {Nobody}, read : BOOLEAN]
            /\ q.chat = p.chat
  OBVIOUS
<1>3. ASSUME NEW m \in Letter
      PROVE  /\ letter'[m] \in [chat : Chat \cup {NoChat}, from : Login \cup {Nobody}, read : BOOLEAN]
             /\ \/ letter'[m] = letter[m]
                \/ {letter[m].chat, letter'[m].chat} \subseteq {k, NoChat}
  <2>1. letter[m] \in [chat : Chat \cup {NoChat}, from : Login \cup {Nobody}, read : BOOLEAN]
    BY DEF SocketsInv, SocketsTypeOK
  <2>2. CASE m \in news
    <3>1. letter'[m] = [letter[m] EXCEPT !.read = TRUE] /\ letter[m].chat = k
      BY <1>1, <2>2
    <3> HIDE DEF news
    <3> QED BY <1>2, <2>1, <3>1
  <2>3. CASE m \notin news
    <3>1. letter'[m] = letter[m]
      BY <1>1, <2>3
    <3> QED BY <2>1, <3>1
  <2> QED BY <2>2, <2>3
<1>4. letter' = [m \in Letter |-> letter'[m]]
  BY <1>1
<1> HIDE DEF news
<1>5. letter' \in [Letter -> [chat : Chat \cup {NoChat}, from : Login \cup {Nobody}, read : BOOLEAN]]
  BY <1>3, <1>4
<1>6. CountMoved \subseteq Sides(k) /\ CountMoved \subseteq Login
  BY <1>3, CountsElsewhere DEF CountMoved
<1>7. Sides(k) \subseteq Login
  BY ChatAssumption DEF Sides
<1>8. PICK excused \in SUBSET Login :
        excused = IF BetweenAccounts(k) THEN Sides(k) \ {RootOf[u]} ELSE Login
  BY <1>7
<1>9. RootOf[u] \in Login /\ CountMoved \subseteq {RootOf[u]} \cup excused
  BY <1>6, <1>8, LoginAssumption
<1>10. RoomsGranted' /\ HeardRight'
  BY <1>1 DEF SocketsInv, RoomsGranted, Granted, HeardRight
<1>11. rooms' \subseteq Login \X Chat /\ granted' \subseteq Login \X Chat /\ gone' \subseteq Chat
  BY <1>1 DEF SocketsInv, SocketsTypeOK
<1> QED BY <1>1, <1>5, <1>8, <1>9, <1>10, <1>11, WroteStep

\* Every step keeps it.
LEMMA SocketsInvStep == SocketsInv /\ [RoomStep \/ PushStep]_socketVars => SocketsInv'
<1> SUFFICES ASSUME SocketsInv, [RoomStep \/ PushStep]_socketVars PROVE SocketsInv'
  OBVIOUS
<1> USE DEF SocketsInv, SocketsTypeOK
<1>1. ASSUME NEW u \in Login, Connect(u) PROVE SocketsInv'
  <2>1. /\ online' = online \cup {u} /\ UNCHANGED <<rooms, shown, granted, gone, letter, push, blurred>>
        /\ heard' = {}
    BY <1>1 DEF Connect, Unchanged_Rows
  <2> QED BY <2>1, LineStep
<1>2. ASSUME NEW u \in Login, Disconnect(u) PROVE SocketsInv'
  <2>1. /\ online' = online \ {u} /\ rooms' \subseteq rooms /\ shown' = [shown EXCEPT ![u] = NoCount]
        /\ UNCHANGED <<granted, gone, letter, push, blurred>> /\ heard' = {}
    BY <1>2 DEF Disconnect, Unchanged_Rows
  <2>2. shown' \in [Login -> 0 .. Cardinality(Letter) \cup {NoCount}]
    BY <2>1
  <2>3. \A v \in Login : /\ shown'[v] = NoCount \/ (shown'[v] = shown[v] /\ v \in online)
                         /\ v \notin online' => shown'[v] = NoCount
    BY <2>1
  <2> QED BY <2>1, <2>2, <2>3, LineStep
<1>3. ASSUME NEW u \in Login, NEW k \in Chat, JoinConversation(u, k) \/ LeaveConversation(u, k)
      PROVE  SocketsInv'
  <2>1. /\ rooms' \subseteq rooms \cup {<<u, k>>} /\ (rooms' \subseteq rooms \/ Granted(u, k))
        /\ UNCHANGED <<online, shown, granted, gone, letter, push, blurred>> /\ heard' = {}
    BY <1>3 DEF JoinConversation, LeaveConversation, Unchanged_Rows, MayReach
  <2> QED BY <2>1, LineStep
<1>4. ASSUME NEW u \in Login, NEW k \in Chat, Assign(u, k) PROVE SocketsInv'
  <2>1. /\ granted' = granted \cup {<<u, k>>}
        /\ UNCHANGED <<online, rooms, gone, letter, push, shown, blurred>> /\ heard' = {}
    BY <1>4 DEF Assign
  <2> QED BY <2>1, LineStep
<1>5. ASSUME NEW h \in Handler, NEW u \in Login, NEW k \in Chat, NEW l \in Letter,
             SendBySocket(h, u, k, l)
      PROVE  SocketsInv'
  <2>1. /\ Send(h, u, k, l)
        /\ heard' = {[by |-> "socket", who |-> v, what |-> l, own |-> OwnTo(v, u)] : v \in InRoom(k)}
    BY <1>5 DEF SendBySocket
  <2>2. \A v \in Login : OwnTo(v, u) \in BOOLEAN
    BY DEF OwnTo, IsSub
  <2>3. ASSUME NEW e \in heard'
        PROVE  /\ e \in [by : {"socket"}, who : Login, what : {l}, own : BOOLEAN]
               /\ <<e.who, k>> \in rooms
               /\ e.own <=> RootOf[e.who] = RootOf[u]
    <3>1. PICK v \in InRoom(k) : e = [by |-> "socket", who |-> v, what |-> l, own |-> OwnTo(v, u)]
      BY <2>1
    <3>2. v \in Login /\ <<v, k>> \in rooms /\ OwnTo(v, u) \in BOOLEAN
      BY <2>2 DEF InRoom
    <3> QED BY <3>1, <3>2, OwnIsSameAccount
  <2>4. heard' \subseteq {e \in [by : {"socket"}, who : Login, what : {l}, own : BOOLEAN] :
                            <<e.who, k>> \in rooms}
    BY <2>3
  <2>5. \A e \in heard' : e.by = "socket" => (e.own <=> RootOf[e.who] = RootOf[u])
    BY <2>3
  <2> HIDE DEF SocketsInv, SocketsTypeOK
  <2> QED BY <2>1, <2>4, <2>5, SentStep
<1>6. ASSUME NEW h \in Handler, NEW u \in Login, NEW k \in Chat, NEW l \in Letter,
             SendByRest(h, u, k, l)
      PROVE  SocketsInv'
  <2>1. /\ Send(h, u, k, l)
        /\ heard' = {[by |-> "rest", who |-> v, what |-> l, own |-> OwnTo(u, u)] : v \in InRoom(k)}
    BY <1>6 DEF SendByRest
  <2>2. OwnTo(u, u) \in BOOLEAN
    BY DEF OwnTo, IsSub
  <2>3. ASSUME NEW e \in heard'
        PROVE  /\ e \in [by : {"rest"}, who : Login, what : {l}, own : BOOLEAN]
               /\ <<e.who, k>> \in rooms
    <3>1. PICK v \in InRoom(k) : e = [by |-> "rest", who |-> v, what |-> l, own |-> OwnTo(u, u)]
      BY <2>1
    <3>2. v \in Login /\ <<v, k>> \in rooms /\ OwnTo(u, u) \in BOOLEAN
      BY <2>2 DEF InRoom
    <3> QED BY <3>1, <3>2
  <2>4. heard' \subseteq {e \in [by : {"rest"}, who : Login, what : {l}, own : BOOLEAN] :
                            <<e.who, k>> \in rooms}
    BY <2>3
  <2>5. \A e \in heard' : e.by # "socket"
    BY <2>3
  <2> HIDE DEF SocketsInv, SocketsTypeOK
  <2> QED BY <2>1, <2>4, <2>5, SentStep
<1>7. ASSUME NEW h \in Handler, NEW u \in Login, NEW k \in Chat, MarkAsRead(h, u, k)
      PROVE  SocketsInv'
  BY <1>7, ReadStep
<1>8. ASSUME NEW h \in Handler, CountLetters(h) PROVE SocketsInv'
  <2>1. /\ push[h].at = "count" /\ UNCHANGED <<online, rooms, granted, gone, letter, shown, blurred>>
        /\ push' = [push EXCEPT ![h].at = "emit", ![h].count = Unread(push[h].box)]
        /\ heard' = {}
    BY <1>8 DEF CountLetters
  <2>2. PICK n \in 0 .. Cardinality(Letter) : n = Unread(push[h].box)
    BY UnreadNumber DEF Unread
  <2>4. /\ push' \in [Handler -> [at : {"idle", "count", "emit"}, box : Login \cup {Nobody},
                                  count : 0..Cardinality(Letter), late : BOOLEAN]]
        /\ push'[h].at = "emit" /\ push'[h].box = push[h].box /\ push'[h].count = Unread(push[h].box)
        /\ \A g \in Handler : g # h => push'[g] = push[g]
    <3> DEFINE p == push[h]
               q == [p EXCEPT !.at = "emit", !.count = n]
    <3>1. push' = [push EXCEPT ![h] = q]
      BY <2>1, <2>2
    <3>2. p \in [at : {"idle", "count", "emit"}, box : Login \cup {Nobody},
                count : 0..Cardinality(Letter), late : BOOLEAN]
      OBVIOUS
    <3>3. /\ q \in [at : {"idle", "count", "emit"}, box : Login \cup {Nobody},
                    count : 0..Cardinality(Letter), late : BOOLEAN]
          /\ q.at = "emit" /\ q.box = p.box /\ q.count = n
      <4> HIDE DEF p
      <4> QED BY <3>2
    <3> HIDE DEF q
    <3> QED BY <2>2, <3>1, <3>3
  <2>5. \A a : Unread(a)' = Unread(a)
    BY <2>1 DEF Unread
  <2>6. UnreadStaleOnlyInRace'
    BY <2>1, <2>4, <2>5 DEF UnreadStaleOnlyInRace
  <2>7. HeardRight'
    BY <2>1 DEF HeardRight
  <2>8. RoomsGranted'
    BY <2>1 DEF RoomsGranted, Granted
  <2>9. \A g \in Handler : push'[g].at = "idle" <=> push'[g].box = Nobody
    BY <2>1, <2>4
  <2>10. \A g \in Handler, a \in Login :
           push'[g].at = "emit" /\ push'[g].box = a /\ ~push'[g].late => push'[g].count = Unread(a)'
    BY <2>4, <2>5
  <2> QED BY <2>1, <2>4, <2>5, <2>6, <2>7, <2>8, <2>9, <2>10
<1>9. ASSUME NEW h \in Handler, EmitUnread(h) \/ LosePush(h) PROVE SocketsInv'
  <2>1. /\ push[h].at # "idle" /\ push[h].box \in Login
        /\ UNCHANGED <<online, rooms, granted, gone, letter>> /\ push' = [push EXCEPT ![h] = NoPush]
        /\ heard' = {}
    BY <1>9 DEF EmitUnread, LosePush
  <2>2. PICK a \in Login : a = push[h].box
    BY <2>1
  <2>3. 0 \in 0 .. Cardinality(Letter) /\ Nobody \notin Login
    BY ChatAssumption, LoginAssumption, FS_CardinalityType
  <2>4. NoPush \in [at : {"idle", "count", "emit"}, box : Login \cup {Nobody},
                    count : 0..Cardinality(Letter), late : BOOLEAN]
        /\ NoPush.at = "idle" /\ NoPush.box = Nobody
    BY <2>3 DEF NoPush
  <2>5. push' \in [Handler -> [at : {"idle", "count", "emit"}, box : Login \cup {Nobody},
                               count : 0..Cardinality(Letter), late : BOOLEAN]]
    BY <2>1, <2>4
  <2>6. push'[h] = NoPush /\ \A g \in Handler : g # h => push'[g] = push[g]
    BY <2>1
  <2>7. \A b : Unread(b)' = Unread(b)
    BY <2>1 DEF Unread
  <2>8. \/ /\ push[h].at = "emit"
           /\ shown' = IF a \in online THEN [shown EXCEPT ![a] = push[h].count] ELSE shown
           /\ blurred' = IF push[h].late THEN blurred \cup {a} ELSE blurred \ {a}
        \/ shown' = shown /\ blurred' = blurred \cup {a}
    BY <1>9, <2>2 DEF EmitUnread, LosePush
  <2>9. push[h].count \in 0 .. Cardinality(Letter)
    OBVIOUS
  <2>10. shown' \in [Login -> 0 .. Cardinality(Letter) \cup {NoCount}] /\ blurred' \subseteq Login
    BY <2>8, <2>9
  <2>11. \A u \in Login : u \notin online' => shown'[u] = NoCount
    BY <2>1, <2>8
  <2>12. UnreadStaleOnlyInRace'
    <3> SUFFICES ASSUME NEW b \in online, shown'[b] # NoCount, b \notin blurred',
                        \A g \in Handler : push'[g].box # b
                 PROVE  shown'[b] = Unread(b)
      BY <2>1, <2>7 DEF UnreadStaleOnlyInRace
    <3>1. CASE b # a
      <4>1. shown'[b] = shown[b] /\ b \notin blurred
        BY <2>8, <3>1
      <4>2. \A g \in Handler : push[g].box # b
        BY <2>2, <2>6, <3>1
      <4> QED BY <4>1, <4>2 DEF UnreadStaleOnlyInRace
    <3>2. CASE b = a
      <4>1. push[h].at = "emit" /\ ~push[h].late /\ shown'[a] = push[h].count
        BY <2>8, <3>2
      <4> QED BY <2>2, <3>2, <4>1
    <3> QED BY <3>1, <3>2
  <2>13. HeardRight'
    BY <2>1 DEF HeardRight
  <2>14. RoomsGranted'
    BY <2>1 DEF RoomsGranted, Granted
  <2>15. /\ \A g \in Handler : push'[g].at = "idle" <=> push'[g].box = Nobody
         /\ \A g \in Handler, b \in Login :
              push'[g].at = "emit" /\ push'[g].box = b /\ ~push'[g].late => push'[g].count = Unread(b)'
    BY <2>4, <2>6, <2>7
  <2> QED BY <2>1, <2>5, <2>10, <2>11, <2>12, <2>13, <2>14, <2>15
<1>10. CASE UNCHANGED socketVars
  <2>1. UNCHANGED <<online, rooms, granted, gone, letter, push, shown, blurred, heard>>
    BY <1>10 DEF socketVars
  <2>2. \A a : Unread(a)' = Unread(a)
    BY <2>1 DEF Unread
  <2>3. HeardRight' /\ UnreadStaleOnlyInRace'
    BY <2>1, <2>2 DEF HeardRight, UnreadStaleOnlyInRace, MayReach, Granted
  <2>4. RoomsGranted'
    BY <2>1 DEF RoomsGranted, Granted
  <2> QED BY <2>1, <2>2, <2>3, <2>4
<1>11. /\ \A u \in Login, k \in Chat, m \in Letter, l \in Letter : Forward(u, m, k, l) => SocketsInv'
       /\ \A k \in Chat : DeleteProject(k) => SocketsInv'
  BY ForwardedStep, DeletedStep
<1> QED
  BY <1>1, <1>2, <1>3, <1>4, <1>5, <1>6, <1>7, <1>8, <1>9, <1>10, <1>11 DEF RoomStep, PushStep, Line

\* Rooms are never left when rights change, and still nobody hears what it may not read;
\* who hears a message by socket is told rightly whether it is the account's own.
THEOREM HearsRight == SocketsSpec => [](SocketsTypeOK /\ HeardRight)
<1>1. SocketsInv => SocketsTypeOK /\ HeardRight
  BY DEF SocketsInv
<1> QED BY SocketsInvInit, SocketsInvStep, <1>1, PTL DEF SocketsSpec

\* However pushes overtake each other, the count on a screen is wrong only after one of
\* the races that are named.
THEOREM CountShownTrue == SocketsSpec => []UnreadStaleOnlyInRace
<1>1. SocketsInv => UnreadStaleOnlyInRace
  BY DEF SocketsInv
<1> QED BY SocketsInvInit, SocketsInvStep, <1>1, PTL DEF SocketsSpec
=============================================================================
