------------------------- MODULE Conversations_proofs -------------------------
(***************************************************************************)
(* Proofs about chat and its lists, for any number of users, projects,     *)
(* bookings, messages and requests in flight.                              *)
(***************************************************************************)
EXTENDS ChatLists, FiniteSetTheorems, TLAPS

(***************************************************************************)
(* Type correctness.                                                       *)
(***************************************************************************)

\* The keys the code forms are keys.
LEMMA KeysFormed ==
  /\ \A u \in User, other \in Named, p \in Project : <<p, {MainOf[u], other}>> \in Key
  /\ \A b \in Booking : KeyOf(b) \in Key
BY ConversationsAssumption DEF Key, Pair, KeyOf

\* A request in flight is what the requests in flight are.
Flights == [op : {"none", "open", "forward"}, user : User \cup {None}, conv : Key \cup {None}]
Jobs    == [at : {"none", "start", "find", "create", "post", "end", "done", "dead"},
            run : 0..MaxRuns, queued : BOOLEAN]

ConvChecked == \A r \in Request : flight[r].op # "none" => flight[r].conv \in Key
TypeInv == TypeOK /\ ConvChecked

\* A run that is started over keeps its job a job.
LEMMA JobUpdates ==
  ASSUME NEW j \in Jobs
  PROVE  j.run < MaxRuns => [j EXCEPT !.at = "start", !.run = j.run + 1] \in Jobs
<1>1. j.run < MaxRuns => j.run + 1 \in 0..MaxRuns
  BY ConversationsAssumption DEF Jobs
<1> QED BY <1>1 DEF Jobs

\* The first state is well-typed.
LEMMA TypeInit == Init => TypeInv
<1>1. NoMessage \in MessageRow /\ Idle \in Flights
  BY DEF NoMessage, MessageRow, Idle, Flights
<1>2. NoJob \in Jobs
  BY ConversationsAssumption DEF NoJob, Jobs
<1> QED BY <1>1, <1>2 DEF Init, TypeInv, TypeOK, ConvChecked, Idle, Flights, Jobs

\* Every step writes well-typed values.
LEMMA TypeStep == TypeInv /\ [Next]_vars => TypeInv'
<1> SUFFICES ASSUME TypeInv, [Next]_vars PROVE TypeInv'
  OBVIOUS
<1>t. /\ status \in [User -> {"active", "inactive", "deleted"}]
      /\ assigned \subseteq User \X Project
      /\ booking \in [Booking -> {"none", "live", "ended"}]
      /\ removed \subseteq Project /\ convs \subseteq Key
      /\ msgs \in [Message \cup Summary -> MessageRow]
      /\ flight \in [Request -> Flights] /\ job \in [Booking -> Jobs]
      /\ told \subseteq Booking /\ lost \subseteq Booking
      /\ \A r \in Request : flight[r].op # "none" => flight[r].conv \in Key
  BY DEF TypeInv, TypeOK, ConvChecked, Flights, Jobs
<1> DEFINE Typed == /\ status' \in [User -> {"active", "inactive", "deleted"}]
                    /\ assigned' \subseteq User \X Project
                    /\ booking' \in [Booking -> {"none", "live", "ended"}]
                    /\ removed' \subseteq Project /\ convs' \subseteq Key
                    /\ msgs' \in [Message \cup Summary -> MessageRow]
                    /\ flight' \in [Request -> Flights] /\ job' \in [Booking -> Jobs]
                    /\ told' \subseteq Booking /\ lost' \subseteq Booking
                    /\ \A r \in Request : flight'[r].op # "none" => flight'[r].conv \in Key
<1> SUFFICES Typed
  BY DEF TypeInv, TypeOK, ConvChecked, Flights, Jobs
<1>i. Idle \in Flights /\ NoMessage \in MessageRow
  BY DEF Idle, Flights, NoMessage, MessageRow
<1>m. \A u \in User, k \in convs : NewMessage(u, k) \in MessageRow
  BY <1>t DEF NewMessage, MessageRow
<1>e. \A m \in Message \cup Summary, u \in User :
        /\ [msgs[m] EXCEPT !.reader = u] \in MessageRow
        /\ [msgs[m] EXCEPT !.deleted = TRUE] \in MessageRow
  BY <1>t DEF MessageRow
<1> USE DEF Unchanged_Accounts, Unchanged_Job, Unchanged_Chat
<1>1. ASSUME NEW r \in Request, NEW u \in User, NEW other \in Named, NEW p \in Project,
             Open(r, u, other, p)
      PROVE  Typed
  <2> DEFINE k == <<p, {MainOf[u], other}>>
  <2>1. [op |-> "open", user |-> None, conv |-> k] \in Flights
    BY KeysFormed DEF Flights
  <2>2. k \in Key
    BY KeysFormed
  <2>3. flight' = [flight EXCEPT ![r] = [op |-> "open", user |-> None, conv |-> k]]
    BY <1>1 DEF Open
  <2>4. /\ flight' \in [Request -> Flights]
        /\ \A g \in Request : flight'[g].op # "none" => flight'[g].conv \in Key
    <3> HIDE DEF k
    <3> QED BY <1>t, <2>1, <2>2, <2>3
  <2> QED BY <1>1, <1>t, <2>4 DEF Open
<1>2. ASSUME NEW r \in Request, Create(r) PROVE Typed
  <2>1. convs' \subseteq Key
    BY <1>2, <1>t DEF Create
  <2> QED BY <1>2, <1>t, <1>i, <2>1 DEF Create, Idle
<1>3. ASSUME NEW u \in User, NEW k \in convs, NEW m \in Message, SendMessage(u, k, m)
      PROVE  Typed
  BY <1>3, <1>t, <1>m DEF SendMessage
<1>4. ASSUME NEW u \in User, NEW other \in Named, NEW m \in Message, SendToUser(u, other, m)
      PROVE  Typed
  BY <1>4, <1>3 DEF SendToUser, Shared
<1>5. ASSUME NEW u \in User, NEW k \in convs, MarkAsRead(u, k) PROVE Typed
  BY <1>5, <1>t, <1>e DEF MarkAsRead
<1>6. ASSUME NEW u \in User, NEW m \in Message, DeleteMessage(u, m) PROVE Typed
  BY <1>6, <1>t, <1>e DEF DeleteMessage
<1>7. ASSUME NEW r \in Request, NEW u \in User, NEW m \in DOMAIN msgs, NEW k \in convs,
             Forward(r, u, m, k)
      PROVE  Typed
  <2>1. [op |-> "forward", user |-> u, conv |-> k] \in Flights
    BY <1>t DEF Flights
  <2> QED BY <1>7, <1>t, <2>1 DEF Forward
<1>8. ASSUME NEW r \in Request, NEW m \in Message, Copy(r, m) PROVE Typed
  <2>1. flight[r].user \in User \cup {None}
    BY <1>t DEF Flights
  <2>2. flight[r].conv \in convs => NewMessage(flight[r].user, flight[r].conv) \in MessageRow
    BY <1>t, <2>1 DEF NewMessage, MessageRow
  <2> QED BY <1>8, <1>t, <1>i, <2>2 DEF Copy, Idle
<1>9. ASSUME NEW u \in User, SetStatus(u) \/ DeleteSubUser(u) PROVE Typed
  BY <1>9, <1>t DEF SetStatus, DeleteSubUser
<1>10. ASSUME NEW u \in User, NEW p \in Project, Assign(u, p) PROVE Typed
  BY <1>10, <1>t DEF Assign
<1>11. ASSUME NEW b \in Booking, NEW q \in BOOLEAN, CreateRequest(b, q) PROVE Typed
  <2>1. [at |-> "start", run |-> 1, queued |-> q] \in Jobs
    BY ConversationsAssumption DEF Jobs
  <2> QED BY <1>11, <1>t, <2>1 DEF CreateRequest
<1>12. ASSUME NEW b \in Booking, EndBooking(b) PROVE Typed
  BY <1>12, <1>t DEF EndBooking
<1>13. ASSUME NEW p \in Project, RemoveProject(p) PROVE Typed
  <2>1. booking' \in [Booking -> {"none", "live", "ended"}]
    BY <1>13, <1>t DEF RemoveProject
  <2>2. msgs' \in [Message \cup Summary -> MessageRow]
    BY <1>13, <1>t, <1>i DEF RemoveProject
  <2> QED BY <1>13, <1>t, <2>1, <2>2 DEF RemoveProject
<1>14. ASSUME NEW b \in Booking, JobStep(b) \/ Crash(b) PROVE Typed
  <2>1. \A a \in {"start", "find", "create", "post", "end", "done", "dead"} :
          Go(b, a) => job' \in [Booking -> Jobs]
    BY <1>t DEF Go, Jobs
  <2>2. \A a \in {"done", "dead"} : Over(b, a) => job' \in [Booking -> Jobs]
    <3>1. 0 \in 0 .. MaxRuns
      BY ConversationsAssumption
    <3>2. \A a \in {"done", "dead"} : [NoJob EXCEPT !.at = a] \in Jobs
      BY <3>1 DEF NoJob, Jobs
    <3> QED BY <3>2, <1>t DEF Over
  <2>3. CASE Notify(b)
    BY <2>1, <2>3, <1>t DEF Notify
  <2>4. CASE FindConversation(b)
    BY <2>1, <2>4, <1>t DEF FindConversation
  <2>5. CASE CreateConversation(b)
    BY <2>1, <2>5, <1>t, KeysFormed DEF CreateConversation, GiveUp
  <2>6. CASE PostSummary(b)
    <3>1. KeyOf(b) \in convs => NewMessage(RequesterOf[b], KeyOf(b)) \in MessageRow
      BY <1>m, ConversationsAssumption
    <3> QED BY <2>1, <2>6, <3>1, <1>t DEF PostSummary, GiveUp
  <2>7. CASE Acknowledge(b)
    BY <2>2, <2>7, <1>t DEF Acknowledge
  <2>8. CASE Crash(b)
    <3>1. job[b] \in Jobs
      BY <1>t
    <3>2. CASE job[b].queued /\ job[b].run < MaxRuns
      <4>1. job' = [job EXCEPT ![b] = [job[b] EXCEPT !.at = "start", !.run = job[b].run + 1]]
        BY <2>8, <3>1, <3>2, <1>t DEF Crash, Jobs
      <4>2. [job[b] EXCEPT !.at = "start", !.run = job[b].run + 1] \in Jobs
        BY Zenon, <3>1, <3>2, JobUpdates
      <4> QED BY <2>8, <4>1, <4>2, <1>t DEF Crash
    <3>3. CASE ~(job[b].queued /\ job[b].run < MaxRuns)
      BY <2>2, <2>8, <3>3, <1>t DEF Crash
    <3> QED BY <3>2, <3>3
  <2> QED BY <1>14, <2>3, <2>4, <2>5, <2>6, <2>7, <2>8 DEF JobStep
<1>15. CASE UNCHANGED vars
  BY <1>15, <1>t DEF vars
<1> QED
  BY <1>1, <1>2, <1>3, <1>4, <1>5, <1>6, <1>7, <1>8, <1>9, <1>10, <1>11, <1>12, <1>13, <1>14,
     <1>15
  DEF Next, UserStep, OtherStep

(***************************************************************************)
(* Who wrote and read.  A forward under way was checked before: its writer *)
(* still has a place in the conversation, or the conversation is gone with *)
(* its project and does not come back.                                     *)
(***************************************************************************)
Admitted(u, k) == u # None => CanAccess(u, k)

AccessInv ==
  /\ TypeInv
  /\ \A k \in convs : ProjectIn(k) \notin removed
  /\ \A m \in Message \cup Summary : Sent(m) =>
       /\ msgs[m].conv \in convs
       /\ Admitted(msgs[m].sender, msgs[m].conv) /\ Admitted(msgs[m].reader, msgs[m].conv)
  /\ \A r \in Request : flight[r].op = "forward" =>
       Admitted(flight[r].user, flight[r].conv) \/ ProjectIn(flight[r].conv) \in removed

\* Access is taken away only with the project.
LEMMA AccessKept ==
  ASSUME NEW u, NEW k, \A v : <<v, ProjectIn(k)>> \in assigned => <<v, ProjectIn(k)>> \in assigned',
         CanAccess(u, k)
  PROVE  CanAccess(u, k)'
BY DEF CanAccess

\* Both ends of a booking take part in its conversation.
LEMMA RequesterAdmitted == \A b \in Booking : CanAccess(RequesterOf[b], KeyOf(b))
BY DEF CanAccess, KeyOf, Participants

\* It holds at first: there are no messages.
LEMMA AccessInit == Init => AccessInv
<1> SUFFICES ASSUME Init PROVE AccessInv
  OBVIOUS
<1>1. /\ convs = {} /\ msgs = [m \in Message \cup Summary |-> NoMessage]
      /\ flight = [r \in Request |-> Idle]
  BY DEF Init
<1> QED BY <1>1, TypeInit DEF AccessInv, Sent, NoMessage, Idle

\* Every step keeps it.
LEMMA AccessStep == AccessInv /\ [Next]_vars => AccessInv'
<1> SUFFICES ASSUME AccessInv, [Next]_vars
             PROVE  /\ \A k \in convs' : ProjectIn(k) \notin removed'
                    /\ \A m \in Message \cup Summary : Sent(m)' =>
                         /\ msgs'[m].conv \in convs'
                         /\ Admitted(msgs[m].sender, msgs[m].conv)'
                         /\ Admitted(msgs[m].reader, msgs[m].conv)'
                    /\ \A r \in Request : flight'[r].op = "forward" =>
                         Admitted(flight[r].user, flight[r].conv)' \/ ProjectIn(flight[r].conv)' \in removed'
  BY TypeStep DEF AccessInv
<1> DEFINE Rooms == \A k \in convs' : ProjectIn(k) \notin removed'
           Kept == \A m \in Message \cup Summary : Sent(m)' =>
                     /\ msgs'[m].conv \in convs'
                     /\ Admitted(msgs[m].sender, msgs[m].conv)'
                     /\ Admitted(msgs[m].reader, msgs[m].conv)'
           Going == \A r \in Request : flight'[r].op = "forward" =>
                      Admitted(flight[r].user, flight[r].conv)' \/ ProjectIn(flight[r].conv)' \in removed'
<1> SUFFICES Rooms /\ Kept /\ Going
  OBVIOUS
<1>t. /\ msgs \in [Message \cup Summary -> MessageRow]
      /\ flight \in [Request -> Flights] /\ convs \subseteq Key
  BY DEF AccessInv, TypeInv, TypeOK, Flights
<1> USE DEF AccessInv, Unchanged_Accounts, Unchanged_Job, Unchanged_Chat
<1>a. ASSUME assigned \subseteq assigned', NEW u, NEW k, Admitted(u, k) PROVE Admitted(u, k)'
  BY <1>a, AccessKept DEF Admitted
<1>r. ASSUME convs' = convs, removed' = removed PROVE Rooms
  BY <1>r
<1>m. ASSUME msgs' = msgs, convs \subseteq convs', assigned \subseteq assigned' PROVE Kept
  BY <1>m, <1>a DEF Sent, Admitted, CanAccess
<1>g. ASSUME flight' = flight, removed \subseteq removed', assigned \subseteq assigned' PROVE Going
  BY <1>g, <1>a DEF Admitted, CanAccess
<1>1. ASSUME NEW r \in Request, NEW u \in User, NEW other \in Named, NEW p \in Project,
             Open(r, u, other, p)
      PROVE  Rooms /\ Kept /\ Going
  <2>1. \A g \in Request : flight'[g].op = "forward" => flight'[g] = flight[g]
    BY <1>1, <1>t DEF Open
  <2>2. Going
    BY <1>1, <2>1 DEF Open, Admitted, CanAccess
  <2> QED BY <1>1, <2>2, <1>r, <1>m DEF Open
<1>2. ASSUME NEW r \in Request, Create(r) PROVE Rooms /\ Kept /\ Going
  <2>1. \A g \in Request : flight'[g].op = "forward" => flight'[g] = flight[g]
    BY <1>2, <1>t DEF Create, Idle
  <2>2. Going
    BY <1>2, <2>1 DEF Create, Admitted, CanAccess
  <2>3. Rooms /\ convs \subseteq convs'
    BY <1>2 DEF Create
  <2> QED BY <1>2, <2>2, <2>3, <1>m DEF Create
<1>3. ASSUME NEW u \in User, NEW k \in convs, NEW m \in Message, SendMessage(u, k, m)
      PROVE  Rooms /\ Kept /\ Going
  <2>1. CanAccess(u, k) /\ msgs' = [msgs EXCEPT ![m] = NewMessage(u, k)]
        /\ UNCHANGED <<convs, flight, assigned, removed>>
    BY <1>3 DEF SendMessage
  <2>2. msgs'[m].conv = k /\ msgs'[m].sender = u /\ msgs'[m].reader = None
    BY <2>1, <1>t DEF NewMessage
  <2>3. \A n \in Message \cup Summary : n # m => msgs'[n] = msgs[n]
    BY <2>1, <1>t
  <2>4. Kept
    BY <2>1, <2>2, <2>3 DEF Sent, Admitted, CanAccess
  <2> QED BY <2>1, <2>4, <1>r, <1>g
<1>4. ASSUME NEW u \in User, NEW other \in Named, NEW m \in Message, SendToUser(u, other, m)
      PROVE  Rooms /\ Kept /\ Going
  BY <1>4, <1>3 DEF SendToUser, Shared
<1>5. ASSUME NEW u \in User, NEW k \in convs, MarkAsRead(u, k) PROVE Rooms /\ Kept /\ Going
  <2>1. CanAccess(u, k) /\ UNCHANGED <<convs, flight, assigned, removed>>
    BY <1>5 DEF MarkAsRead
  <2>2. ASSUME NEW n \in Message \cup Summary
        PROVE  /\ msgs'[n].conv = msgs[n].conv /\ msgs'[n].sender = msgs[n].sender
               /\ msgs'[n].reader = msgs[n].reader \/ (msgs[n].conv = k /\ msgs'[n].reader = u)
    <3>1. msgs'[n] = IF n \in Unread(u, k) THEN [msgs[n] EXCEPT !.reader = u] ELSE msgs[n]
      BY <1>5, <1>t DEF MarkAsRead
    <3>2. n \in Unread(u, k) => msgs[n].conv = k
      BY DEF Unread
    <3>3. msgs[n] \in MessageRow
      BY <1>t
    <3>4. \A x \in MessageRow : LET y == [x EXCEPT !.reader = u]
                                IN  y.conv = x.conv /\ y.sender = x.sender /\ y.reader = u
      BY DEF MessageRow
    <3> QED BY <3>1, <3>2, <3>3, <3>4
  <2>3. Kept
    BY <2>1, <2>2 DEF Sent, Admitted, CanAccess
  <2> QED BY <2>1, <2>3, <1>r, <1>g
<1>6. ASSUME NEW u \in User, NEW m \in Message, DeleteMessage(u, m) PROVE Rooms /\ Kept /\ Going
  <2>1. UNCHANGED <<convs, flight, assigned, removed>>
    BY <1>6 DEF DeleteMessage
  <2>2. ASSUME NEW n \in Message \cup Summary
        PROVE  /\ msgs'[n].conv = msgs[n].conv /\ msgs'[n].sender = msgs[n].sender
               /\ msgs'[n].reader = msgs[n].reader
    BY <1>6, <1>t DEF DeleteMessage, MessageRow
  <2>3. Kept
    BY <2>1, <2>2 DEF Sent, Admitted, CanAccess
  <2> QED BY <2>1, <2>3, <1>r, <1>g
<1>7. ASSUME NEW r \in Request, NEW u \in User, NEW m \in DOMAIN msgs, NEW k \in convs,
             Forward(r, u, m, k)
      PROVE  Rooms /\ Kept /\ Going
  <2>1. CanAccess(u, k) /\ UNCHANGED <<convs, msgs, assigned, removed>>
    BY <1>7 DEF Forward, MayForward
  <2>2. flight'[r].user = u /\ flight'[r].conv = k /\ \A g \in Request : g # r => flight'[g] = flight[g]
    BY <1>7, <1>t DEF Forward
  <2>3. Going
    BY <2>1, <2>2 DEF Admitted, CanAccess
  <2> QED BY <2>1, <2>3, <1>r, <1>m
<1>8. ASSUME NEW r \in Request, NEW m \in Message, Copy(r, m) PROVE Rooms /\ Kept /\ Going
  <2>1. UNCHANGED <<convs, assigned, removed>>
    BY <1>8 DEF Copy
  <2>2. \A g \in Request : flight'[g].op = "forward" => flight'[g] = flight[g]
    BY <1>8, <1>t DEF Copy, Idle
  <2>3. Going
    BY <2>1, <2>2 DEF Admitted, CanAccess
  <2>4. CASE flight[r].conv \notin convs
    <3>1. msgs' = msgs
      BY <1>8, <2>4 DEF Copy
    <3> QED BY <2>1, <2>3, <3>1, <1>r, <1>m
  <2>5. CASE flight[r].conv \in convs
    <3>1. msgs' = [msgs EXCEPT ![m] = NewMessage(flight[r].user, flight[r].conv)]
      BY <1>8, <2>5 DEF Copy
    <3>2. /\ msgs'[m].conv = flight[r].conv /\ msgs'[m].sender = flight[r].user
          /\ msgs'[m].reader = None
      BY <3>1, <1>t DEF NewMessage
    <3>3. \A n \in Message \cup Summary : n # m => msgs'[n] = msgs[n]
      BY <3>1, <1>t
    <3>4. Admitted(flight[r].user, flight[r].conv)
      BY <1>8, <2>5 DEF Copy
    <3>5. Kept
      BY <2>1, <2>5, <3>2, <3>3, <3>4 DEF Sent, Admitted, CanAccess
    <3> QED BY <2>1, <2>3, <3>5, <1>r
  <2> QED BY <2>4, <2>5
<1>9. ASSUME NEW u \in User, SetStatus(u) \/ DeleteSubUser(u) \/ \E p \in Project : Assign(u, p)
      PROVE  Rooms /\ Kept /\ Going
  <2>1. UNCHANGED <<convs, msgs, flight, removed>> /\ assigned \subseteq assigned'
    BY <1>9 DEF SetStatus, DeleteSubUser, Assign
  <2> QED BY <2>1, <1>r, <1>m, <1>g
<1>10. ASSUME NEW b \in Booking, EndBooking(b) \/ (\E q \in BOOLEAN : CreateRequest(b, q))
       PROVE  Rooms /\ Kept /\ Going
  <2>1. UNCHANGED <<convs, msgs, flight, removed, assigned>>
    BY <1>10 DEF EndBooking, CreateRequest
  <2> QED BY <2>1, <1>r, <1>m, <1>g
<1>11. ASSUME NEW p \in Project, RemoveProject(p) PROVE Rooms /\ Kept /\ Going
  <2>1. /\ removed' = removed \cup {p} /\ convs' = {k \in convs : ProjectIn(k) # p}
        /\ assigned' = {a \in assigned : a[2] # p} /\ flight' = flight
    BY <1>11 DEF RemoveProject
  <2>2. ASSUME NEW u, NEW k, ProjectIn(k) # p, Admitted(u, k) PROVE Admitted(u, k)'
    <3>1. \A v : <<v, ProjectIn(k)>> \in assigned => <<v, ProjectIn(k)>> \in assigned'
      BY <2>1, <2>2
    <3> QED BY <2>2, <3>1, AccessKept DEF Admitted
  <2>3. ASSUME NEW m \in Message \cup Summary, Sent(m)'
        PROVE  msgs'[m] = msgs[m] /\ ProjectIn(msgs[m].conv) # p /\ Sent(m)
    BY <1>11, <1>t, <2>3 DEF RemoveProject, Sent, NoMessage
  <2>4. Rooms
    BY <2>1
  <2>5. Kept
    <3> SUFFICES ASSUME NEW m \in Message \cup Summary, Sent(m)'
                 PROVE  /\ msgs'[m].conv \in convs'
                        /\ Admitted(msgs[m].sender, msgs[m].conv)'
                        /\ Admitted(msgs[m].reader, msgs[m].conv)'
      OBVIOUS
    <3>1. msgs'[m] = msgs[m] /\ ProjectIn(msgs[m].conv) # p /\ msgs[m].conv \in convs
          /\ Admitted(msgs[m].sender, msgs[m].conv) /\ Admitted(msgs[m].reader, msgs[m].conv)
      BY <2>3
    <3>2. ASSUME NEW x, NEW k, k = msgs[m].conv, x = msgs[m].sender \/ x = msgs[m].reader
          PROVE  Admitted(x, k)'
      BY <3>1, <3>2, <2>2
    <3> QED BY <2>1, <3>1, <3>2 DEF Admitted, CanAccess
  <2>6. Going
    <3> SUFFICES ASSUME NEW r \in Request, flight[r].op = "forward", ProjectIn(flight[r].conv) \notin removed'
                 PROVE  Admitted(flight[r].user, flight[r].conv)'
      BY <2>1 DEF ProjectIn
    <3>1. ProjectIn(flight[r].conv) # p /\ Admitted(flight[r].user, flight[r].conv)
      BY <2>1
    <3>2. ASSUME NEW x, NEW k, k = flight[r].conv, x = flight[r].user PROVE Admitted(x, k)'
      BY <3>1, <3>2, <2>2
    <3> QED BY <2>1, <3>2 DEF Admitted, CanAccess
  <2> QED BY <2>4, <2>5, <2>6
<1>12. ASSUME NEW b \in Booking, JobStep(b) \/ Crash(b) PROVE Rooms /\ Kept /\ Going
  <2>1. CASE Notify(b) \/ FindConversation(b) \/ Acknowledge(b) \/ Crash(b)
    <3>1. UNCHANGED <<convs, msgs, flight, removed, assigned>>
      BY <2>1 DEF Notify, FindConversation, Acknowledge, Crash
    <3> QED BY <3>1, <1>r, <1>m, <1>g
  <2>2. CASE CreateConversation(b)
    <3>1. UNCHANGED <<msgs, flight, removed, assigned>> /\ convs \subseteq convs'
      BY <2>2 DEF CreateConversation
    <3>2. Rooms
      BY <2>2 DEF CreateConversation, KeyOf, ProjectIn
    <3> QED BY <3>1, <3>2, <1>m, <1>g
  <2>3. CASE PostSummary(b)
    <3>1. UNCHANGED <<convs, flight, removed, assigned>>
      BY <2>3 DEF PostSummary
    <3>2. CASE KeyOf(b) \notin convs
      <4>1. msgs' = msgs
        BY <2>3, <3>2 DEF PostSummary
      <4> QED BY <3>1, <4>1, <1>r, <1>m, <1>g
    <3>3. CASE KeyOf(b) \in convs
      <4> DEFINE m == <<b, job[b].run>>
      <4>1. msgs' = [msgs EXCEPT ![m] = NewMessage(RequesterOf[b], KeyOf(b))]
        BY <2>3, <3>3 DEF PostSummary
      <4>2. \A n \in Message \cup Summary :
              \/ msgs'[n] = msgs[n]
              \/ /\ msgs'[n].conv = KeyOf(b) /\ msgs'[n].sender = RequesterOf[b]
                 /\ msgs'[n].reader = None
        BY <4>1, <1>t DEF NewMessage
      <4>3. Kept
        BY <3>1, <3>3, <4>2, RequesterAdmitted DEF Sent, Admitted, CanAccess
      <4> QED BY <3>1, <4>3, <1>r, <1>g
    <3> QED BY <3>2, <3>3
  <2> QED BY <1>12, <2>1, <2>2, <2>3 DEF JobStep
<1>13. CASE UNCHANGED vars
  BY <1>13, <1>r, <1>m, <1>g DEF vars
<1> QED
  BY <1>1, <1>2, <1>3, <1>4, <1>5, <1>6, <1>7, <1>8, <1>9, <1>10, <1>11, <1>12, <1>13
  DEF Next, UserStep, OtherStep

\* Every variable of chat keeps its type.
THEOREM ChatTyped == Spec => []TypeOK
<1>1. TypeInv => TypeOK
  BY DEF TypeInv
<1> QED BY <1>1, TypeInit, TypeStep, PTL DEF Spec

\* Whatever is open, assigned, forwarded, crashed or deleted in between, whoever wrote or
\* read a message has a place in its conversation, and no message outlives it.
THEOREM ChatAdmits == Spec => []OnlyAdmitted
<1>1. AccessInv => OnlyAdmitted
  <2> SUFFICES ASSUME AccessInv PROVE OnlyAdmitted
    OBVIOUS
  <2>1. DOMAIN msgs = Message \cup Summary
    BY DEF AccessInv, TypeInv, TypeOK
  <2> QED BY <2>1 DEF AccessInv, OnlyAdmitted, Admitted
<1> QED BY AccessInit, AccessStep, <1>1, PTL DEF Spec

(***************************************************************************)
(* Companies and their stake.  What a request in flight was checked for    *)
(* stays true, for a booking leaves its row behind however it ends.        *)
(***************************************************************************)
Staked(k) ==
  (\A a \in Participants(k) : RoleOf[a] = "company") =>
    \E a \in Participants(k) : Stake(a, ProjectIn(k))

StakeInv ==
  /\ TypeInv
  /\ \A k \in convs : Staked(k)
  /\ \A r \in Request : flight[r].op = "open" => Staked(flight[r].conv)
  /\ \A b \in Booking : job[b].at # "none" => booking[b] # "none"

\* A stake is not lost.
LEMMA StakeKept ==
  ASSUME \A b \in Booking : booking[b] # "none" => booking'[b] # "none"
  PROVE  \A k : Staked(k) => Staked(k)'
BY DEF Staked, Stake, Participants, ProjectIn

\* What createOrGetConversation checks gives the caller's account a stake, unless its
\* account is no company's.
LEMMA OpenedWithStake ==
  ASSUME NEW u \in User, NEW other \in Named, NEW p \in Project, NEW k,
         k = <<p, {MainOf[u], other}>>, MayOpen(u, k), k \notin convs
  PROVE  Staked(k)
<1>0. /\ MainOf[u] \in User /\ MainOf[MainOf[u]] = MainOf[u] /\ RoleOf[MainOf[u]] = RoleOf[u]
      /\ \A b \in Booking : MainOf[RequesterOf[b]] = RequesterOf[b] /\ MainOf[TargetOf[b]] = TargetOf[b]
  BY ConversationsAssumption DEF IsMain
<1>1. ProjectIn(k) = p /\ MainOf[u] \in Participants(k)
  BY DEF ProjectIn, Participants
<1>2. CASE OwnsProject(u, p)
  BY <1>0, <1>1, <1>2 DEF OwnsProject, Staked, Stake
<1>3. CASE HasBooking(BookingActor(u), p)
  <2>1. PICK b \in Booking : /\ booking[b] = "live" /\ ProjectOf[b] = p
                             /\ BookingActor(u) \in {RequesterOf[b], TargetOf[b]}
    BY <1>3 DEF HasBooking
  <2>2. MainOf[u] \in {RequesterOf[b], TargetOf[b]}
    BY <2>1, <1>0 DEF BookingActor
  <2>3. Stake(MainOf[u], p)
    BY <2>1, <2>2, <1>0 DEF Stake
  <2> QED BY <2>3, <1>1 DEF Staked
<1>4. CASE RoleOf[u] # "company"
  BY <1>0, <1>1, <1>4 DEF Staked
<1> QED BY <1>1, <1>2, <1>3, <1>4 DEF MayOpen, Accounts

\* The job's conversation is that of the two ends of a booking.
LEMMA JobHasStake == \A b \in Booking : booking[b] # "none" => Staked(KeyOf(b))
<1> SUFFICES ASSUME NEW b \in Booking, booking[b] # "none" PROVE Staked(KeyOf(b))
  OBVIOUS
<1>1. ProjectIn(KeyOf(b)) = ProjectOf[b] /\ RequesterOf[b] \in Participants(KeyOf(b))
  BY DEF KeyOf, ProjectIn, Participants
<1>2. Stake(RequesterOf[b], ProjectOf[b])
  BY ConversationsAssumption DEF Stake, IsMain
<1> QED BY <1>1, <1>2 DEF Staked

\* It holds at first: there is no conversation.
LEMMA StakeInit == Init => StakeInv
<1> SUFFICES ASSUME Init PROVE StakeInv
  OBVIOUS
<1>1. /\ convs = {} /\ flight = [r \in Request |-> Idle] /\ job = [b \in Booking |-> NoJob]
  BY DEF Init
<1> QED BY <1>1, TypeInit DEF StakeInv, NoJob, Idle

\* Every step keeps it.
LEMMA StakeStep == StakeInv /\ [Next]_vars => StakeInv'
<1> SUFFICES ASSUME StakeInv, [Next]_vars
             PROVE  /\ \A k \in convs' : Staked(k)'
                    /\ \A r \in Request : flight'[r].op = "open" => \A k : k = flight'[r].conv => Staked(k)'
                    /\ \A b \in Booking : job'[b].at # "none" => booking'[b] # "none"
  BY TypeStep DEF StakeInv, Staked, Stake
<1> DEFINE Rooms == \A k \in convs' : Staked(k)'
           Going == \A r \in Request : flight'[r].op = "open" => \A k : k = flight'[r].conv => Staked(k)'
           Jobbed == \A b \in Booking : job'[b].at # "none" => booking'[b] # "none"
<1> SUFFICES Rooms /\ Going /\ Jobbed
  OBVIOUS
<1>t. /\ flight \in [Request -> Flights] /\ job \in [Booking -> Jobs]
      /\ booking \in [Booking -> {"none", "live", "ended"}]
  BY DEF StakeInv, TypeInv, TypeOK, Flights, Jobs
<1> USE DEF StakeInv, Unchanged_Accounts, Unchanged_Job, Unchanged_Chat
<1>b. ASSUME booking' = booking PROVE \A k : Staked(k) => Staked(k)'
  BY <1>b, StakeKept
<1>1. ASSUME NEW r \in Request, NEW u \in User, NEW other \in Named, NEW p \in Project,
             Open(r, u, other, p)
      PROVE  Rooms /\ Going /\ Jobbed
  <2> DEFINE key == <<p, {MainOf[u], other}>>
  <2>1. Staked(key)
    BY <1>1, OpenedWithStake DEF Open
  <2>2. UNCHANGED <<booking, convs, job>>
        /\ flight' = [flight EXCEPT ![r] = [op |-> "open", user |-> None, conv |-> key]]
    BY <1>1 DEF Open
  <2> HIDE DEF key
  <2>3. flight'[r].conv = key /\ \A g \in Request : g # r => flight'[g] = flight[g]
    BY <2>2, <1>t
  <2> QED BY <2>1, <2>2, <2>3, <1>b
<1>2. ASSUME NEW r \in Request, Create(r) PROVE Rooms /\ Going /\ Jobbed
  <2>1. UNCHANGED <<booking, job>> /\ flight[r].op = "open"
        /\ flight' = [flight EXCEPT ![r] = Idle]
        /\ convs' \subseteq convs \cup {flight[r].conv}
    BY <1>2 DEF Create
  <2>2. \A g \in Request : flight'[g].op = "open" => flight'[g] = flight[g]
    BY <2>1, <1>t DEF Idle
  <2> QED BY <2>1, <2>2, <1>b
<1>3. ASSUME NEW u \in User,
             \/ \E k \in convs : MarkAsRead(u, k) \/ \E m \in Message : SendMessage(u, k, m)
             \/ \E other \in Named, m \in Message : SendToUser(u, other, m)
             \/ \E m \in Message : DeleteMessage(u, m)
             \/ SetStatus(u) \/ DeleteSubUser(u) \/ \E p \in Project : Assign(u, p)
      PROVE  Rooms /\ Going /\ Jobbed
  <2>1. UNCHANGED <<booking, convs, job, flight>>
    BY <1>3 DEF MarkAsRead, SendMessage, SendToUser, DeleteMessage, SetStatus, DeleteSubUser, Assign
  <2> QED BY <2>1, <1>b
<1>4. ASSUME NEW r \in Request,
             \/ \E u \in User, m \in DOMAIN msgs, k \in convs : Forward(r, u, m, k)
             \/ \E m \in Message : Copy(r, m)
      PROVE  Rooms /\ Going /\ Jobbed
  <2>1. UNCHANGED <<booking, convs, job>>
    BY <1>4 DEF Forward, Copy
  <2>2. \A g \in Request : flight'[g].op = "open" => flight'[g] = flight[g]
    BY <1>4, <1>t DEF Forward, Copy, Idle
  <2> QED BY <2>1, <2>2, <1>b
<1>5. ASSUME NEW b \in Booking, EndBooking(b) \/ \E q \in BOOLEAN : CreateRequest(b, q)
      PROVE  Rooms /\ Going /\ Jobbed
  <2>1. UNCHANGED <<convs, flight>>
    BY <1>5 DEF EndBooking, CreateRequest
  <2>2. \A c \in Booking : booking[c] # "none" => booking'[c] # "none"
    BY <1>5, <1>t DEF EndBooking, CreateRequest
  <2>3. booking'[b] # "none" /\ \A c \in Booking : c # b => job'[c] = job[c]
    BY <1>5, <1>t DEF EndBooking, CreateRequest
  <2> QED BY <2>1, <2>2, <2>3, StakeKept
<1>6. ASSUME NEW p \in Project, RemoveProject(p) PROVE Rooms /\ Going /\ Jobbed
  <2>1. convs' \subseteq convs /\ UNCHANGED <<flight, job>>
    BY <1>6 DEF RemoveProject
  <2>2. \A c \in Booking : booking[c] # "none" => booking'[c] # "none"
    BY <1>6, <1>t DEF RemoveProject
  <2> QED BY <2>1, <2>2, StakeKept
<1>7. ASSUME NEW b \in Booking, JobStep(b) \/ Crash(b) PROVE Rooms /\ Going /\ Jobbed
  <2>1. UNCHANGED <<booking, flight>> /\ job[b].at # "none"
    BY <1>7 DEF JobStep, Notify, FindConversation, CreateConversation, PostSummary, Acknowledge,
                Crash, At
  <2>2. \A c \in Booking : c # b => job'[c] = job[c]
    BY <1>7, <1>t DEF JobStep, Notify, FindConversation, CreateConversation, PostSummary,
                      Acknowledge, Crash, Go, Over, GiveUp
  <2>3. convs' \subseteq convs \cup {KeyOf(b)}
    BY <1>7 DEF JobStep, Notify, FindConversation, CreateConversation, PostSummary, Acknowledge,
                Crash
  <2>4. Staked(KeyOf(b))
    BY <2>1, JobHasStake
  <2> QED BY <2>1, <2>2, <2>3, <2>4, <1>b
<1>8. CASE UNCHANGED vars
  BY <1>8, <1>b DEF vars
<1> QED
  BY <1>1, <1>2, <1>3, <1>4, <1>5, <1>6, <1>7, <1>8 DEF Next, UserStep, OtherStep

\* No company reaches another one about a project that neither owns nor was booked on,
\* whichever requests and jobs overlap.
THEOREM NoProbing == Spec => []CompaniesHaveStake
<1>1. StakeInv => CompaniesHaveStake
  BY DEF StakeInv, CompaniesHaveStake, Staked
<1> QED BY StakeInit, StakeStep, <1>1, PTL DEF Spec

(***************************************************************************)
(* Liveness of the job.  A run that is not cut short goes from stage to    *)
(* stage and ends with the target told; one that is cut short is followed  *)
(* by another or was the last.  The prover knows the rules of weak         *)
(* fairness but not ENABLED: JobCanGoOn is a hypothesis, which the model   *)
(* checker can evaluate in every state.  How many runs there may be is a   *)
(* number, and an induction over it inside a temporal formula is out of    *)
(* the prover's reach: TargetToldInTime is about the one or two runs BullMQ *)
(* allows.                                                                 *)
(***************************************************************************)

\* The conversation of a booking is there, or its project is gone.
HasRoom(b) == KeyOf(b) \in convs \/ ProjectOf[b] \in removed

\* A run has told the target before it looks for the conversation, and posts only
\* into a conversation it found or made.
RunInv ==
  /\ StakeInv
  /\ \A b \in Booking :
       /\ job[b].at \in {"start", "find", "create", "post", "end"} => job[b].run >= 1
       /\ job[b].at \in {"find", "create", "post"} => b \in told
       /\ job[b].at = "post" => HasRoom(b)

\* How the story of a booking's summary may end.
Settled(b) ==
  \/ b \in told /\ (HasSummary(b) \/ (b \in lost /\ KeyOf(b) \in convs))
  \/ job[b].at = "dead"
  \/ ProjectOf[b] \in removed

\* The stages of a run, and those one step of the job leads to.
Stage(b, a, n) == job[b].at = a /\ job[b].run = n
After(a) == CASE a = "start" -> {"find"} [] a = "find" -> {"create", "post"}
              [] a = "create" -> {"post"} [] a = "post" -> {}

\* Notifications and deletions of projects stay, and a conversation goes only with its
\* project.
LEMMA JobFactsStay ==
  ASSUME TypeInv, [Next]_vars
  PROVE  /\ told \subseteq told' /\ removed \subseteq removed'
         /\ \A b \in Booking : HasRoom(b) => HasRoom(b)'
<1> USE DEF Unchanged_Accounts, Unchanged_Job, Unchanged_Chat
<1>1. ASSUME told \subseteq told', removed \subseteq removed', convs \subseteq convs'
      PROVE  /\ told \subseteq told' /\ removed \subseteq removed'
             /\ \A b \in Booking : HasRoom(b) => HasRoom(b)'
  BY <1>1 DEF HasRoom
<1>2. CASE UserStep
  BY <1>1, <1>2 DEF UserStep, Open, Create, Forward, Copy, MarkAsRead, SendMessage, SendToUser,
                    DeleteMessage
<1>3. CASE OtherStep
  <2>1. ASSUME NEW p \in Project, RemoveProject(p)
        PROVE  /\ told \subseteq told' /\ removed \subseteq removed'
               /\ \A b \in Booking : HasRoom(b) => HasRoom(b)'
    BY <2>1 DEF RemoveProject, HasRoom, KeyOf, ProjectIn
  <2> QED BY <1>1, <1>3, <2>1
          DEF OtherStep, SetStatus, DeleteSubUser, Assign, EndBooking, CreateRequest
<1>4. ASSUME NEW b \in Booking, JobStep(b) \/ Crash(b)
      PROVE  told \subseteq told' /\ removed \subseteq removed' /\ convs \subseteq convs'
  BY <1>4 DEF JobStep, Notify, FindConversation, CreateConversation, PostSummary, Acknowledge,
              Crash
<1>5. CASE UNCHANGED vars
  BY <1>1, <1>5 DEF vars
<1> QED BY <1>1, <1>2, <1>3, <1>4, <1>5 DEF Next

\* Only the job itself, its crash and its creation change a job.
LEMMA JobAlone ==
  ASSUME TypeInv, [Next]_vars, NEW b \in Booking
  PROVE  \/ job'[b] = job[b]
         \/ JobStep(b) \/ Crash(b)
         \/ \E q \in BOOLEAN : CreateRequest(b, q)
<1> USE DEF Unchanged_Accounts, Unchanged_Job, Unchanged_Chat
<1>t. job \in [Booking -> Jobs]
  BY DEF TypeInv, TypeOK, Jobs
<1>1. CASE UserStep
  BY <1>1 DEF UserStep, Open, Create, Forward, Copy, MarkAsRead, SendMessage, SendToUser,
              DeleteMessage
<1>2. CASE OtherStep
  <2>1. ASSUME NEW c \in Booking, NEW q \in BOOLEAN, CreateRequest(c, q), c # b
        PROVE  job'[b] = job[b]
    BY <2>1, <1>t DEF CreateRequest
  <2> QED BY <1>2, <2>1 DEF OtherStep, SetStatus, DeleteSubUser, Assign, EndBooking, RemoveProject
<1>3. ASSUME NEW c \in Booking, JobStep(c) \/ Crash(c), c # b PROVE job'[b] = job[b]
  BY <1>3, <1>t DEF JobStep, Notify, FindConversation, CreateConversation, PostSummary,
                    Acknowledge, Crash, Go, Over, GiveUp
<1>4. CASE UNCHANGED vars
  BY <1>4 DEF vars
<1> QED BY <1>1, <1>2, <1>3, <1>4 DEF Next

\* A step of the job leads to the next stage or settles the matter.
LEMMA JobMoves ==
  ASSUME RunInv, NEW b \in Booking, NEW a \in {"start", "find", "create", "post"}, job[b].at = a,
         JobStep(b)
  PROVE  \/ Settled(b)'
         \/ \E c \in After(a) : /\ job'[b].at = c /\ job'[b].run = job[b].run
                                /\ b \in told' /\ (c = "post" => HasRoom(b)')
<1> DEFINE Reached(c) == /\ job'[b].at = c /\ job'[b].run = job[b].run
                         /\ b \in told' /\ (c = "post" => HasRoom(b)')
<1> SUFFICES Settled(b)' \/ \E c \in After(a) : Reached(c)
  OBVIOUS
<1>t. job \in [Booking -> Jobs] /\ msgs \in [Message \cup Summary -> MessageRow]
  BY DEF RunInv, StakeInv, TypeInv, TypeOK, Jobs
<1>g. ASSUME NEW c, Go(b, c) PROVE job'[b].at = c /\ job'[b].run = job[b].run
  BY <1>g, <1>t DEF Go, Jobs
<1>1. ASSUME Notify(b) PROVE Settled(b)' \/ \E c \in After(a) : Reached(c)
  <2>1. a = "start" /\ removed' = removed
    BY <1>1 DEF Notify, At, Unchanged_Accounts
  <2>2. ASSUME ProjectOf[b] \in removed PROVE Settled(b)'
    BY <2>1, <2>2 DEF Settled
  <2>3. ASSUME ProjectOf[b] \notin removed PROVE Reached("find")
    BY <1>1, <1>g, <2>3 DEF Notify
  <2> QED BY <2>1, <2>2, <2>3 DEF After
<1>2. ASSUME FindConversation(b) PROVE Settled(b)' \/ \E c \in After(a) : Reached(c)
  <2>1. a = "find" /\ b \in told /\ UNCHANGED <<told, convs, removed>>
    BY <1>2 DEF FindConversation, At, RunInv, Unchanged_Accounts, Unchanged_Chat
  <2>2. ASSUME KeyOf(b) \in convs PROVE Reached("post")
    BY <1>2, <1>g, <2>1, <2>2 DEF FindConversation, HasRoom
  <2>3. ASSUME KeyOf(b) \notin convs PROVE Reached("create")
    BY <1>2, <1>g, <2>1, <2>3 DEF FindConversation
  <2> QED BY <2>1, <2>2, <2>3 DEF After
<1>3. ASSUME CreateConversation(b) PROVE Settled(b)' \/ \E c \in After(a) : Reached(c)
  <2>1. a = "create" /\ b \in told /\ UNCHANGED <<told, removed>>
    BY <1>3 DEF CreateConversation, At, RunInv, Unchanged_Accounts
  <2>2. ASSUME KeyOf(b) \in convs \/ ProjectOf[b] \in removed PROVE Settled(b)'
    BY <1>3, <2>1, <2>2 DEF CreateConversation, GiveUp, Settled, KeyOf
  <2>3. ASSUME ~(KeyOf(b) \in convs \/ ProjectOf[b] \in removed) PROVE Reached("post")
    BY <1>3, <1>g, <2>1, <2>3 DEF CreateConversation, HasRoom, KeyOf
  <2> QED BY <2>1, <2>2, <2>3 DEF After
<1>4. ASSUME PostSummary(b) PROVE Settled(b)'
  <2>1. a = "post" /\ b \in told /\ HasRoom(b) /\ UNCHANGED <<told, convs, removed>>
    BY <1>4 DEF PostSummary, At, RunInv, Unchanged_Accounts
  <2>2. CASE KeyOf(b) \in convs
    <3> DEFINE m == <<b, job[b].run>>
    <3>1. job[b].run \in 1..MaxRuns
      <4>1. job[b].run >= 1 /\ job[b].run \in 0..MaxRuns
        BY <1>t, <2>1 DEF RunInv, Jobs
      <4> QED BY <4>1, ConversationsAssumption
    <3>2. KeyOf(b) # None
      BY KeysFormed, ConversationsAssumption DEF Key, Pair
    <3>3. m \in Summary
      BY <3>1 DEF Summary
    <3>4. msgs'[m] = NewMessage(RequesterOf[b], KeyOf(b))
      BY <1>4, <1>t, <2>2, <3>3 DEF PostSummary
    <3>5. HasSummary(b)'
      BY <3>1, <3>2, <3>4 DEF HasSummary, Sent, NewMessage
    <3> QED BY <2>1, <3>5 DEF Settled
  <2>3. CASE KeyOf(b) \notin convs
    BY <2>1, <2>3 DEF HasRoom, Settled
  <2> QED BY <2>2, <2>3
<1>5. ~Acknowledge(b)
  BY DEF Acknowledge, At
<1> QED BY <1>1, <1>2, <1>3, <1>4, <1>5 DEF JobStep

\* A crash ends the job or starts its next run.
LEMMA CrashMoves ==
  ASSUME TypeInv, NEW b \in Booking, Crash(b)
  PROVE  \/ job'[b].at = "dead"
         \/ job'[b].at = "start" /\ job'[b].run = job[b].run + 1
<1>t. job \in [Booking -> Jobs]
  BY DEF TypeInv, TypeOK, Jobs
<1>1. CASE job[b].queued /\ job[b].run < MaxRuns
  <2>1. job' = [job EXCEPT ![b] = [job[b] EXCEPT !.at = "start", !.run = job[b].run + 1]]
    BY <1>1, <1>t DEF Crash, Jobs
  <2> QED BY <1>t, <2>1 DEF Jobs
<1>2. CASE ~(job[b].queued /\ job[b].run < MaxRuns)
  BY <1>2, <1>t DEF Crash, Over, NoJob, Jobs
<1> QED BY <1>1, <1>2

\* At the start there is no job.
LEMMA RunInit == Init => RunInv
BY StakeInit DEF Init, RunInv, NoJob

\* Every step keeps the runs as they should be.
LEMMA RunStep == RunInv /\ [Next]_vars => RunInv'
<1> SUFFICES ASSUME RunInv, [Next]_vars PROVE RunInv'
  OBVIOUS
<1> DEFINE Sound(b) ==
             /\ job[b].at \in {"start", "find", "create", "post", "end"} => job[b].run >= 1
             /\ job[b].at \in {"find", "create", "post"} => b \in told
             /\ job[b].at = "post" => HasRoom(b)
<1>t. TypeInv /\ StakeInv'
  BY StakeStep DEF RunInv, StakeInv
<1>1. ASSUME NEW b \in Booking PROVE Sound(b)'
  <2>1. told \subseteq told' /\ (HasRoom(b) => HasRoom(b)')
    BY <1>t, JobFactsStay
  <2>2. Sound(b)
    BY DEF RunInv
  <2>3. job \in [Booking -> Jobs]
    BY <1>t DEF TypeInv, TypeOK, Jobs
  <2>4. CASE job'[b] = job[b]
    BY <2>1, <2>2, <2>4
  <2>5. ASSUME NEW q \in BOOLEAN, CreateRequest(b, q) PROVE Sound(b)'
    BY <2>3, <2>5 DEF CreateRequest
  <2>6. CASE Crash(b)
    <3>1. job[b].run >= 1
      BY <2>2, <2>6 DEF Crash
    <3>2. job[b].run \in Nat
      BY <2>3, ConversationsAssumption DEF Jobs
    <3> QED BY <1>t, <2>6, <3>1, <3>2, CrashMoves
  <2>7. CASE JobStep(b)
    <3>1. job[b].at \in {"start", "find", "create", "post", "end"}
      BY <2>7 DEF JobStep, Notify, FindConversation, CreateConversation, PostSummary,
                  Acknowledge, At
    <3>2. CASE job[b].at = "end"
      BY <2>3, <2>7, <3>2 DEF JobStep, Notify, FindConversation, CreateConversation, PostSummary,
                              Acknowledge, At, Over, NoJob, Jobs
    <3>3. CASE job[b].at = "start"
      <4>1. Notify(b)
        BY <2>7, <3>3 DEF JobStep, FindConversation, CreateConversation, PostSummary,
                          Acknowledge, At
      <4> QED BY <2>2, <2>3, <3>3, <4>1 DEF Notify, Go, Jobs
    <3>4. CASE job[b].at = "find"
      <4>1. FindConversation(b) /\ told' = told /\ convs' = convs /\ removed' = removed
        BY <2>7, <3>4 DEF JobStep, Notify, FindConversation, CreateConversation, PostSummary,
                          Acknowledge, At, Unchanged_Chat, Unchanged_Accounts
      <4> QED BY <2>2, <2>3, <3>4, <4>1 DEF FindConversation, Go, HasRoom, KeyOf, Jobs
    <3>5. CASE job[b].at = "create"
      <4>1. CreateConversation(b) /\ told' = told
        BY <2>7, <3>5 DEF JobStep, Notify, FindConversation, CreateConversation, PostSummary,
                          Acknowledge, At
      <4> QED BY <2>2, <2>3, <3>5, <4>1
              DEF CreateConversation, Go, GiveUp, HasRoom, KeyOf, Jobs
    <3>6. CASE job[b].at = "post"
      <4>1. PostSummary(b)
        BY <2>7, <3>6 DEF JobStep, Notify, FindConversation, CreateConversation, Acknowledge, At
      <4> QED BY <2>2, <2>3, <3>6, <4>1 DEF PostSummary, Go, GiveUp, Jobs
    <3> QED BY <3>1, <3>2, <3>3, <3>4, <3>5, <3>6
  <2> QED BY <1>t, <2>4, <2>5, <2>6, <2>7, JobAlone
<1> QED BY <1>t, <1>1 DEF RunInv

\* A job stays in its stage, goes to the next, is settled, or starts its next run.
LEMMA StageMoves ==
  ASSUME RunInv, [Next]_vars, NEW b \in Booking, NEW n \in Nat,
         NEW a \in {"start", "find", "create", "post"}, Stage(b, a, n)
  PROVE  \/ Stage(b, a, n)' \/ Settled(b)' \/ Stage(b, "start", n + 1)'
         \/ \E c \in After(a) : Stage(b, c, n)'
<1>t. TypeInv /\ job[b].at = a /\ job[b].run = n
  BY DEF RunInv, StakeInv, Stage
<1>1. CASE job'[b] = job[b]
  BY <1>1, <1>t DEF Stage
<1>2. ASSUME NEW q \in BOOLEAN, CreateRequest(b, q) PROVE FALSE
  BY <1>2, <1>t DEF CreateRequest, RunInv, StakeInv
<1>3. CASE Crash(b)
  BY <1>3, <1>t, CrashMoves DEF Stage, Settled
<1>4. CASE JobStep(b)
  <2>1. Settled(b)' \/ \E c \in After(a) : job'[b].at = c /\ job'[b].run = job[b].run
    BY <1>4, <1>t, JobMoves
  <2> QED BY <1>t, <2>1 DEF Stage
<1> QED BY <1>t, <1>1, <1>2, <1>3, <1>4, JobAlone

\* Run n comes to an end: the matter is settled, or run m starts.
Ends(b, n, m) == Stage(b, "start", n) ~> (Settled(b) \/ Stage(b, "start", m))

\* Every run ends, and the one after it is the next.
LEMMA RunEnds ==
  ASSUME NEW b \in Booking, NEW n \in Nat, NEW m \in Nat, m = n + 1
  PROVE  Spec /\ []JobCanGoOn => Ends(b, n, m)
<1> DEFINE S == Stage(b, "start", n)
           F == Stage(b, "find", n)
           C == Stage(b, "create", n)
           P == Stage(b, "post", n)
           X == Settled(b) \/ Stage(b, "start", m)
           J == JobStep(b)
<1>1. RunInv /\ [Next]_vars /\ S => S' \/ F' \/ X'
  BY StageMoves DEF After
<1>2. RunInv /\ [Next]_vars /\ F => F' \/ C' \/ P' \/ X'
  BY StageMoves DEF After
<1>3. RunInv /\ [Next]_vars /\ C => C' \/ P' \/ X'
  BY StageMoves DEF After
<1>4. RunInv /\ [Next]_vars /\ P => P' \/ X'
  BY StageMoves DEF After
<1>5. RunInv /\ J /\ S => F' \/ X'
  BY JobMoves DEF After, Stage
<1>6. RunInv /\ J /\ F => C' \/ P' \/ X'
  BY JobMoves DEF After, Stage
<1>7. RunInv /\ J /\ C => P' \/ X'
  BY JobMoves DEF After, Stage
<1>8. RunInv /\ J /\ P => X'
  BY JobMoves DEF After, Stage
<1>9. JobCanGoOn => (S \/ F \/ C \/ P => ENABLED <<J>>_vars)
  BY DEF JobCanGoOn, Stage
<1>10. Spec => Worked(b)
  BY DEF Spec
<1>11. Spec => WF_vars(J)
  BY <1>10, PTL DEF Worked
<1>12. Init => RunInv
  BY RunInit
<1>13. RunInv /\ [Next]_vars => RunInv'
  BY RunStep
<1> HIDE DEF S, F, C, P, X, J
<1>14. Spec /\ []JobCanGoOn => (S ~> X)
  BY <1>1, <1>2, <1>3, <1>4, <1>5, <1>6, <1>7, <1>8, <1>9, <1>11, <1>12, <1>13, PTL DEF Spec
<1> QED BY <1>14 DEF Ends, S, X

\* The target of a booking is told of it and finds the summary, or the project was
\* deleted, or the process died too often: whenever a job starts, with the two runs at
\* most that BullMQ gives it, from weak fairness of its steps, which JobCanGoOn says can
\* be taken.
THEOREM TargetToldInTime ==
  ASSUME MaxRuns \in {1, 2}
  PROVE  Spec /\ []JobCanGoOn => TargetIsTold
<1>1. ASSUME NEW b \in Booking
      PROVE  Spec /\ []JobCanGoOn => (job[b].at = "start" ~> Settled(b))
  <2> DEFINE A == job[b].at = "start"
             S1 == Stage(b, "start", 1)
             S2 == Stage(b, "start", 2)
             S3 == Stage(b, "start", 3)
             X == Settled(b)
  <2>1. RunInv => (A => S1 \/ S2) /\ ~S3
    <3> SUFFICES ASSUME RunInv PROVE (A => S1 \/ S2) /\ ~S3
      OBVIOUS
    <3>1. job \in [Booking -> Jobs]
      BY DEF RunInv, StakeInv, TypeInv, TypeOK, Jobs
    <3>2. job[b].run \in 0..2 /\ (A => job[b].run >= 1)
      BY <3>1 DEF RunInv, Jobs
    <3> QED BY <3>2 DEF Stage
  <2>2. Init => RunInv
    BY RunInit
  <2>3. RunInv /\ [Next]_vars => RunInv'
    BY RunStep
  <2>4. Spec /\ []JobCanGoOn => Ends(b, 1, 2)
    BY RunEnds, 2 = 1 + 1
  <2>5. Spec /\ []JobCanGoOn => Ends(b, 2, 3)
    BY RunEnds, 3 = 2 + 1
  <2>6. Spec /\ []JobCanGoOn => (S1 ~> (X \/ S2))
    BY <2>4 DEF Ends
  <2>7. Spec /\ []JobCanGoOn => (S2 ~> (X \/ S3))
    BY <2>5 DEF Ends
  <2> HIDE DEF A, S1, S2, S3, X
  <2>8. Spec /\ []JobCanGoOn => (A ~> X)
    BY <2>1, <2>2, <2>3, <2>6, <2>7, PTL DEF Spec
  <2> QED BY <2>8 DEF A, X
<1> QED BY <1>1 DEF TargetIsTold, Settled

(***************************************************************************)
(* Lists.  Every message has a sender, a login: what "one's own" and the   *)
(* account of a sender mean depends on it.                                 *)
(***************************************************************************)

\* Senders are logins, those of the copies under way included.
SenderInv ==
  /\ TypeInv
  /\ \A m \in Message \cup Summary : Sent(m) => msgs[m].sender \in User
  /\ \A r \in Request : flight[r].op = "forward" => flight[r].user \in User

\* At the start there is no message.
LEMMA SenderInit == Init => SenderInv
BY TypeInit DEF Init, SenderInv, Sent, NoMessage, Idle

\* Every step that writes a message writes its sender.
LEMMA SenderStep == SenderInv /\ [Next]_vars => SenderInv'
<1> SUFFICES ASSUME SenderInv, [Next]_vars
             PROVE  /\ \A m \in Message \cup Summary :
                         msgs'[m].conv # None => msgs'[m].sender \in User
                    /\ \A r \in Request :
                         flight'[r].op = "forward" => flight'[r].user \in User
  BY TypeStep DEF SenderInv, Sent
<1> DEFINE Signed == \A m \in Message \cup Summary :
                       msgs'[m].conv # None => msgs'[m].sender \in User
           Going == \A r \in Request : flight'[r].op = "forward" => flight'[r].user \in User
<1> SUFFICES Signed /\ Going
  OBVIOUS
<1>t. /\ msgs \in [Message \cup Summary -> MessageRow] /\ flight \in [Request -> Flights]
      /\ \A m \in Message \cup Summary : msgs[m].conv # None => msgs[m].sender \in User
      /\ \A r \in Request : flight[r].op = "forward" => flight[r].user \in User
  BY DEF SenderInv, TypeInv, TypeOK, Flights, Sent
<1> USE DEF Unchanged_Accounts, Unchanged_Job, Unchanged_Chat
<1>m. ASSUME msgs' = msgs PROVE Signed
  BY <1>m, <1>t
<1>w. ASSUME NEW m \in Message \cup Summary, NEW u \in User, NEW k,
             msgs' = [msgs EXCEPT ![m] = NewMessage(u, k)]
      PROVE  Signed
  BY <1>w, <1>t DEF NewMessage
<1>1. ASSUME NEW r \in Request,
             \/ \E u \in User, other \in Named, p \in Project : Open(r, u, other, p)
             \/ Create(r)
             \/ \E u \in User, m \in DOMAIN msgs, k \in convs : Forward(r, u, m, k)
      PROVE  Signed /\ Going
  <2>1. msgs' = msgs
    BY <1>1 DEF Open, Create, Forward
  <2>2. CASE \E u \in User, other \in Named, p \in Project : Open(r, u, other, p)
    BY <2>2, <1>t, <1>m, <2>1 DEF Open
  <2>3. CASE Create(r)
    BY <2>3, <1>t, <1>m, <2>1 DEF Create, Idle
  <2>4. CASE \E u \in User, m \in DOMAIN msgs, k \in convs : Forward(r, u, m, k)
    BY <2>4, <1>t, <1>m, <2>1 DEF Forward
  <2> QED BY <1>1, <2>2, <2>3, <2>4
<1>2. ASSUME NEW r \in Request, NEW m \in Message, Copy(r, m) PROVE Signed /\ Going
  <2>1. Going
    BY <1>2, <1>t DEF Copy, Idle
  <2>2. Signed
    <3>1. CASE flight[r].conv \in convs
      BY <1>2, <3>1, <1>t, <1>w DEF Copy
    <3>2. CASE flight[r].conv \notin convs
      BY <1>2, <3>2, <1>m DEF Copy
    <3> QED BY <3>1, <3>2
  <2> QED BY <2>1, <2>2
<1>3. ASSUME NEW u \in User, NEW k \in convs, NEW m \in Message, SendMessage(u, k, m)
      PROVE  Signed /\ Going
  BY <1>3, <1>t, <1>w DEF SendMessage
<1>4. ASSUME NEW u \in User, NEW other \in Named, NEW m \in Message, SendToUser(u, other, m)
      PROVE  Signed /\ Going
  BY <1>4, <1>3 DEF SendToUser, Shared
<1>5. ASSUME NEW u \in User, NEW k \in convs, MarkAsRead(u, k) PROVE Signed /\ Going
  <2>1. flight' = flight
    BY <1>5 DEF MarkAsRead
  <2>2. ASSUME NEW m \in Message \cup Summary
        PROVE  msgs'[m].conv = msgs[m].conv /\ msgs'[m].sender = msgs[m].sender
    <3>1. msgs'[m] \in {msgs[m], [msgs[m] EXCEPT !.reader = u]}
      BY <1>5, <1>t DEF MarkAsRead
    <3>2. msgs[m] \in MessageRow
      BY <1>t
    <3> QED BY <3>1, <3>2 DEF MessageRow
  <2> QED BY <2>1, <2>2, <1>t
<1>6. ASSUME NEW u \in User, NEW m \in Message, DeleteMessage(u, m) PROVE Signed /\ Going
  <2>1. flight' = flight
    BY <1>6 DEF DeleteMessage
  <2>2. \A n \in Message \cup Summary :
          msgs'[n].conv = msgs[n].conv /\ msgs'[n].sender = msgs[n].sender
    BY <1>6, <1>t DEF DeleteMessage, MessageRow
  <2> QED BY <2>1, <2>2, <1>t
<1>7. CASE OtherStep
  <2>1. flight' = flight
    BY <1>7 DEF OtherStep, SetStatus, DeleteSubUser, Assign, EndBooking, CreateRequest,
                RemoveProject
  <2>2. ASSUME NEW m \in Message \cup Summary PROVE msgs'[m] \in {msgs[m], NoMessage}
    BY <1>7, <1>t DEF OtherStep, SetStatus, DeleteSubUser, Assign, EndBooking, CreateRequest,
                      RemoveProject
  <2> QED BY <2>1, <2>2, <1>t DEF NoMessage
<1>8. ASSUME NEW b \in Booking, JobStep(b) \/ Crash(b) PROVE Signed /\ Going
  <2>1. CASE Notify(b) \/ FindConversation(b) \/ CreateConversation(b) \/ Acknowledge(b) \/ Crash(b)
    BY <2>1, <1>t, <1>m DEF Notify, FindConversation, CreateConversation, Acknowledge, Crash
  <2>2. CASE PostSummary(b)
    <3>1. job[b].run \in 0..MaxRuns /\ flight' = flight /\ RequesterOf[b] \in User
      BY <2>2, ConversationsAssumption DEF PostSummary, SenderInv, TypeInv, TypeOK
    <3>2. CASE KeyOf(b) \in convs
      <4>1. msgs' = [msgs EXCEPT ![<<b, job[b].run>>] = NewMessage(RequesterOf[b], KeyOf(b))]
        BY <2>2, <3>2 DEF PostSummary
      <4>2. \A n \in Message \cup Summary :
              \/ msgs'[n] = msgs[n]
              \/ msgs'[n].sender = RequesterOf[b]
        BY <4>1, <1>t DEF NewMessage
      <4> QED BY <3>1, <4>2, <1>t
    <3>3. CASE KeyOf(b) \notin convs
      BY <2>2, <3>1, <3>3, <1>t, <1>m DEF PostSummary
    <3> QED BY <3>2, <3>3
  <2> QED BY <1>8, <2>1, <2>2 DEF JobStep
<1>9. CASE UNCHANGED vars
  BY <1>9, <1>t, <1>m DEF vars
<1> QED BY <1>1, <1>2, <1>3, <1>4, <1>5, <1>6, <1>7, <1>8, <1>9 DEF Next, UserStep

\* conversationWhereForUser picks exactly what canAccessConversation admits.
LEMMA ListedIsAccessible ==
  ASSUME TypeInv, NEW u \in User
  PROVE  Listed(u) = {k \in convs : CanAccess(u, k)}
<1>1. \A p : p \in AssignedProjects(u) <=> <<u, p>> \in assigned
  <2>1. assigned \subseteq User \X Project
    BY DEF TypeInv, TypeOK
  <2>2. ASSUME NEW a \in assigned, a[1] = u PROVE a = <<u, a[2]>>
    BY <2>1, <2>2
  <2> QED BY <2>2 DEF AssignedProjects
<1>2. CASE IsMain(u)
  BY <1>2 DEF Listed, OfLogin, CanAccess, IsMain
<1>3. CASE ~IsMain(u) /\ RoleOf[u] = "vendor"
  BY <1>3 DEF Listed, OfLogin, CanAccess
<1>4. CASE ~IsMain(u) /\ RoleOf[u] # "vendor"
  BY <1>1, <1>4 DEF Listed, OfLogin, CanAccess
<1> QED BY <1>2, <1>3, <1>4

\* Two logins of one account are not two accounts.
LEMMA OneAccount ==
  ASSUME NEW k, NEW a, NEW b, Participants(k) = {a, b}, TwoAccounts(k)
  PROVE  MainOf[a] # MainOf[b]
<1> SUFFICES ASSUME MainOf[a] = MainOf[b] PROVE FALSE
  OBVIOUS
<1>1. {MainOf[x] : x \in Participants(k)} = {MainOf[a]}
  OBVIOUS
<1>2. Cardinality({MainOf[a]}) = 1
  BY FS_Singleton
<1> QED BY <1>1, <1>2 DEF TwoAccounts

\* The partner shown is the other of the two who talk: the login or its account is one.
LEMMA PartnerIsOther ==
  ASSUME TypeInv, NEW u \in User, NEW k \in Listed(u), NEW other \in ListRow(u, k).with
  PROVE  \E me \in {u, MainOf[u]} : Participants(k) = {me, other}
<1>1. k \in convs /\ (u \in Participants(k) \/ (~IsMain(u) /\ MainOf[u] \in Participants(k)))
  BY DEF Listed, OfLogin
<1>2. PICK a \in User, b \in User : Participants(k) = {a, b}
  BY <1>1 DEF TypeInv, TypeOK, Key, Pair, Participants
<1>3. ASSUME NEW me \in Participants(k), NEW x \in Apart(k, me) PROVE Participants(k) = {me, x}
  BY <1>2, <1>3 DEF Apart
<1>4. other \in Partners(u, IF IsMain(u) THEN None ELSE MainOf[u], k)
  BY DEF ListRow
<1>5. CASE u \in Participants(k)
  BY <1>3, <1>4, <1>5 DEF Partners
<1>6. CASE u \notin Participants(k)
  BY <1>1, <1>3, <1>4, <1>6 DEF Partners
<1> QED BY <1>5, <1>6

\* A message is one's own exactly if it comes from one's account.
LEMMA OwnIsOfAccount ==
  ASSUME NEW u \in User, NEW m, msgs[m].sender \in User
  PROVE  SameAccount(u, m) <=> MainOf[msgs[m].sender] = MainOf[u]
<1> DEFINE s == msgs[m].sender
<1>1. MainOf[MainOf[u]] = MainOf[u] /\ MainOf[MainOf[s]] = MainOf[s]
  BY ConversationsAssumption DEF IsMain
<1> QED BY <1>1 DEF SameAccount, IsMain

\* Where two accounts talk, the partner listed is the one of the two outside the login's
\* account, and the same in every conversation shared with it.
LEMMA PartnerNamed ==
  ASSUME TypeInv, NEW u \in User, NEW other, MainOf[other] # MainOf[u],
         NEW k \in convs, NEW me \in {u, MainOf[u]}, Participants(k) = {me, other}, CanAccess(u, k)
  PROVE  k \in Listed(u) /\ ListRow(u, k).with = {other}
<1>1. k \in Listed(u)
  BY ListedIsAccessible
<1>2. MainOf[me] = MainOf[u] /\ MainOf[MainOf[u]] = MainOf[u]
  BY ConversationsAssumption DEF IsMain
<1>3. me # other /\ u # other /\ MainOf[u] # other
  BY <1>2
<1>4. Apart(k, me) = {other}
  BY <1>3 DEF Apart
<1>5. IsMain(u) => me = u
  BY DEF IsMain
<1>6. Partners(u, IF IsMain(u) THEN None ELSE MainOf[u], k) = {other}
  <2>1. CASE me = u
    BY <1>4, <2>1 DEF Partners
  <2>2. CASE me # u
    BY <1>3, <1>4, <1>5, <2>2 DEF Partners
  <2> QED BY <2>1, <2>2
<1> QED BY <1>1, <1>6 DEF ListRow

\* A login is listed exactly the conversations it may use, each under a partner who leads
\* to it or to a later one under the same partner, and is told which of the messages are
\* its account's.
THEOREM ListsLead == Spec => []ListLeadsToChat
<1>1. SenderInv => ListLeadsToChat
  <2> SUFFICES ASSUME SenderInv, NEW u \in User
               PROVE  /\ Listed(u) = {k \in convs : CanAccess(u, k)}
                      /\ \A row \in ConversationList(u) : \A other \in row.with :
                           /\ row.conv \in MayAnswer(u, other)
                           /\ TwoAccounts(row.conv) =>
                                /\ MainOf[other] # MainOf[u]
                                /\ \A k \in MayAnswer(u, other) :
                                     k \in Listed(u) /\ ListRow(u, k).with = {other}
                      /\ \A m \in DOMAIN msgs : Read(u, m) =>
                           (SameAccount(u, m) <=> MainOf[msgs[m].sender] = MainOf[u])
    BY DEF ListLeadsToChat
  <2>1. Listed(u) = {k \in convs : CanAccess(u, k)}
    BY ListedIsAccessible DEF SenderInv
  <2>2. ASSUME NEW row \in ConversationList(u), NEW other \in row.with
        PROVE  /\ row.conv \in MayAnswer(u, other)
               /\ TwoAccounts(row.conv) =>
                    /\ MainOf[other] # MainOf[u]
                    /\ \A k \in MayAnswer(u, other) :
                         k \in Listed(u) /\ ListRow(u, k).with = {other}
    <3>1. PICK k \in Listed(u) : row = ListRow(u, k)
      BY DEF ConversationList
    <3>2. row.conv = k /\ other \in ListRow(u, k).with
      BY <3>1 DEF ListRow
    <3>3. PICK me \in {u, MainOf[u]} : Participants(k) = {me, other}
      BY <3>2, PartnerIsOther DEF SenderInv
    <3>4. MainOf[me] = MainOf[u]
      BY ConversationsAssumption DEF IsMain
    <3>5. TwoAccounts(k) => MainOf[other] # MainOf[u]
      BY <3>3, <3>4, OneAccount
    <3>6. k \in MayAnswer(u, other)
      BY <2>1, <3>3 DEF MayAnswer, Shared
    <3>7. ASSUME TwoAccounts(k), NEW j \in MayAnswer(u, other)
          PROVE  j \in Listed(u) /\ ListRow(u, j).with = {other}
      <4>1. /\ j \in convs /\ CanAccess(u, j)
            /\ \E i \in {u, MainOf[u]} : Participants(j) = {i, other}
        BY DEF MayAnswer, Shared
      <4> QED BY <3>5, <3>7, <4>1, PartnerNamed DEF SenderInv
    <3> QED BY <3>2, <3>5, <3>6, <3>7
  <2>3. ASSUME NEW m \in DOMAIN msgs, Read(u, m)
        PROVE  SameAccount(u, m) <=> MainOf[msgs[m].sender] = MainOf[u]
    <3>1. msgs[m].sender \in User
      BY <2>3 DEF SenderInv, TypeInv, TypeOK, Read
    <3> QED BY <3>1, OwnIsOfAccount
  <2> QED BY <2>1, <2>2, <2>3
<1> QED BY <1>1, SenderInit, SenderStep, PTL DEF Spec

\* The search and the day panel, written apart from the chat, agree with it on what they
\* show: conversations go with their project, so that what the panel refuses is not there.
THEOREM QueriesAgree == Spec => []SearchAndPanelAgree
<1>1. SenderInv /\ AccessInv => SearchAndPanelAgree
  <2> SUFFICES ASSUME SenderInv, AccessInv, NEW u \in User, NEW m \in DOMAIN msgs, Sent(m)
               PROVE  LET k == msgs[m].conv
                          readable == Read(u, m) /\ ~msgs[m].deleted IN
                      /\ IsMain(u) => (Found(u, m) <=> readable)
                      /\ OwnProjectChat(u, k) /\ IsActive(u) =>
                           /\ OnPanel(u, m) <=> readable
                           /\ OnPanel(u, m) => /\ PanelPartners(u, m) = ListRow(u, k).with
                                              /\ PanelOwn(u, m) <=> SameAccount(u, m)
    BY DEF SearchAndPanelAgree
  <2> DEFINE k == msgs[m].conv
             p == ProjectIn(k)
             readable == Read(u, m) /\ ~msgs[m].deleted
  <2>1. m \in Message \cup Summary /\ k \in convs /\ p \notin removed /\ msgs[m].sender \in User
    BY DEF SenderInv, AccessInv, TypeInv, TypeOK
  <2>2. /\ MainOf[u] \in User /\ MainOf[MainOf[u]] = MainOf[u]
        /\ MainOf[MainOf[msgs[m].sender]] = MainOf[msgs[m].sender]
    BY <2>1, ConversationsAssumption DEF IsMain
  <2>3. readable <=> CanAccess(u, k) /\ ~msgs[m].deleted
    BY <2>1 DEF Read
  <2>4. IsMain(u) => (Found(u, m) <=> readable)
    BY <2>3 DEF Found, Legible, CanAccess, IsMain
  <2>5. ASSUME OwnProjectChat(u, k), IsActive(u)
        PROVE  /\ OnPanel(u, m) <=> readable
               /\ OnPanel(u, m) => /\ PanelPartners(u, m) = ListRow(u, k).with
                                   /\ PanelOwn(u, m) <=> SameAccount(u, m)
    <3>1. Owner[p] = MainOf[u] /\ MainOf[u] \in Participants(k) /\ TwoAccounts(k)
      BY <2>5 DEF OwnProjectChat
    <3>2. p \in Project
      BY <2>1 DEF SenderInv, TypeInv, TypeOK, Key, ProjectIn
    <3>3. RoleOf[u] = "company"
      BY <3>1, <3>2, ConversationsAssumption
    <3>4. PICK other \in User : Participants(k) = {MainOf[u], other}
      <4>1. PICK a \in User, b \in User : Participants(k) = {a, b}
        BY <2>1 DEF SenderInv, TypeInv, TypeOK, Key, Pair, Participants
      <4> QED BY <3>1, <4>1
    <3>5. MainOf[other] # MainOf[u]
      BY <2>2, <3>1, <3>4, OneAccount
    <3>6. ~IsMain(u) => u \notin Participants(k)
      BY <3>4, <3>5 DEF IsMain
    <3>7. CanAccess(u, k) <=> IsMain(u) \/ <<u, p>> \in assigned
      BY <3>1, <3>3, <3>6 DEF CanAccess, IsMain
    <3>8. OnPanel(u, m) <=> ~msgs[m].deleted /\ (IsMain(u) \/ <<u, p>> \in assigned)
      BY <2>1, <2>5, <3>1, <3>3 DEF OnPanel, Legible, MayPanel
    <3>9. ASSUME OnPanel(u, m)
          PROVE  PanelPartners(u, m) = ListRow(u, k).with
      <4>1. CanAccess(u, k)
        BY <3>7, <3>8, <3>9
      <4>2. ListRow(u, k).with = {other}
        BY <2>1, <3>4, <3>5, <4>1, PartnerNamed DEF SenderInv
      <4>3. PanelPartners(u, m) = {other}
        BY <2>2, <3>4, <3>5 DEF PanelPartners, Apart
      <4> QED BY <4>2, <4>3
    <3>10. PanelOwn(u, m) <=> SameAccount(u, m)
      BY <2>1, <2>2, OwnIsOfAccount DEF PanelOwn
    <3> QED BY <2>3, <3>7, <3>8, <3>9, <3>10
  <2> QED BY <2>4, <2>5
<1> QED BY <1>1, SenderInit, SenderStep, AccessInit, AccessStep, PTL DEF Spec
=============================================================================
