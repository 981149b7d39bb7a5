----------------------------- MODULE Conversations -----------------------------
(***************************************************************************)
(* Chat: the conversations of projects, who may open, read and write them, *)
(* and the booking-created job, which notifies the target of a booking and *)
(* posts a summary into the conversation of its two accounts.              *)
(*                                                                         *)
(* A conversation is identified by its unique key, the project and the     *)
(* pair of participants.  Access is granted by rows that are not taken     *)
(* away again (participants, assignments to sub-users), so sending and     *)
(* marking as read, which check and then write, are single steps.  Opening *)
(* a conversation, forwarding a message and the job are split where what   *)
(* they read can change before they write.                                 *)
(*                                                                         *)
(* Handlers do not ask whether the caller is still active: the identity    *)
(* cache admits requests for a minute after a deactivation, and a socket   *)
(* stays connected.  What a message says, pins and replies are left out,   *)
(* and so are the socket events, which no handler reads back.              *)
(***************************************************************************)
EXTENDS Integers, FiniteSets

CONSTANTS
  User,         \* logins
  RoleOf,       \* their role
  MainOf,       \* the account a login belongs to (its main login)
  Project,
  Owner,        \* companyUserId of a project
  Booking,
  ProjectOf, RequesterOf, TargetOf,   \* the columns of a booking the chat reads
  Message,      \* ids of messages that users send
  Request,      \* requests that may be in flight at a time (bound)
  Named,        \* logins that requests name as the other side (bound)
  Suspendable,  \* logins that are deactivated, reactivated or deleted (bound)
  MaxConvs,     \* number of conversations users open (bound)
  MaxRuns,      \* runs of a job: BullMQ starts a stalled job over once
  None

Roles == {"company", "vendor", "individual", "cast", "location"}
IsMain(u) == MainOf[u] = u

ASSUME ConversationsAssumption ==
  /\ RoleOf \in [User -> Roles] /\ MainOf \in [User -> User]
  /\ \A u \in User : IsMain(MainOf[u]) /\ RoleOf[MainOf[u]] = RoleOf[u]
  /\ \A u \in User : ~IsMain(u) => RoleOf[u] \in {"company", "vendor"}
  /\ Owner \in [Project -> User]
  /\ \A p \in Project : IsMain(Owner[p]) /\ RoleOf[Owner[p]] = "company"
  /\ ProjectOf \in [Booking -> Project]
  /\ RequesterOf \in [Booking -> User] /\ TargetOf \in [Booking -> User]
  /\ \A b \in Booking : IsMain(RequesterOf[b]) /\ IsMain(TargetOf[b])
  /\ Named \subseteq User /\ Suspendable \subseteq User
  /\ MaxConvs \in Nat /\ MaxRuns \in Nat \ {0}
  /\ None \notin User \cup Message \cup (Project \X SUBSET User)

VARIABLES
  status,    \* isActive and deletedAt of a login
  assigned,  \* projects assigned to sub-users
  booking,   \* whether a booking exists, and is still neither declined,
             \* expired nor cancelled
  removed,   \* projects that were deleted
  convs,     \* keys of the conversation rows
  msgs,      \* the message rows
  flight,    \* what the requests in flight have checked
  job,       \* the booking-created job of each booking
  told,      \* bookings whose target has a notification
  lost       \* history: bookings whose summary could not be posted
vars == <<status, assigned, booking, removed, convs, msgs, flight, job, told, lost>>

Pair == {{a, b} : a, b \in User}
Key == Project \X Pair
ProjectIn(k) == k[1]
Participants(k) == k[2]

\* The summary of a booking has an id for each run of its job.
Summary == Booking \X (1..MaxRuns)
MessageRow == [conv : Key \cup {None}, sender : User \cup {None},
               reader : User \cup {None}, deleted : BOOLEAN]
NoMessage == [conv |-> None, sender |-> None, reader |-> None, deleted |-> FALSE]
\* isRead is that somebody marked it; who did is a history column.
NewMessage(u, k) == [conv |-> k, sender |-> u, reader |-> None, deleted |-> FALSE]
Sent(m) == msgs[m].conv # None
IsRead(m) == msgs[m].reader # None

Idle == [op |-> "none", user |-> None, conv |-> None]
NoJob == [at |-> "none", run |-> 0, queued |-> FALSE]

\* Some projects may be gone from the start.
Init ==
  /\ status = [u \in User |-> "active"]
  /\ assigned = {}
  /\ booking = [b \in Booking |-> "none"]
  /\ removed \in SUBSET Project
  /\ convs = {}
  /\ msgs = [m \in Message \cup Summary |-> NoMessage]
  /\ flight = [r \in Request |-> Idle]
  /\ job = [b \in Booking |-> NoJob]
  /\ told = {}
  /\ lost = {}

(***************************************************************************)
(* Access.                                                                 *)
(***************************************************************************)
IsActive(u) == status[u] = "active"
Accounts == {"company", "vendor"}

\* The account whose bookings count for a login: company and vendor logins stand for
\* their main account, unless the lookup of an active login fails.
BookingActor(u) == IF RoleOf[u] \in Accounts /\ IsActive(u) THEN MainOf[u] ELSE u
HasBooking(a, p) ==
  \E b \in Booking :
    booking[b] = "live" /\ ProjectOf[b] = p /\ a \in {RequesterOf[b], TargetOf[b]}
OwnsProject(u, p) ==
  RoleOf[u] = "company" /\ IsActive(u) /\ Owner[p] = MainOf[u]

\* Mutant of MayOpen: any company may write to anyone on any project.
MayOpenAny(u, k) ==
  LET p == ProjectIn(k) IN
  IF OwnsProject(u, p)
  THEN IsMain(u) \/ <<u, p>> \in assigned
  ELSE \/ HasBooking(BookingActor(u), p)
       \/ RoleOf[u] = "vendor" /\ IsMain(u)
       \/ RoleOf[u] # "vendor"

\* createOrGetConversation.  The owner's sub-users need the assignment; everybody else
\* a booking, except that main vendor logins and people may write to anyone, and a
\* company may enter a conversation that is there.
MayOpen(u, k) ==
  LET p == ProjectIn(k) IN
  IF OwnsProject(u, p)
  THEN IsMain(u) \/ <<u, p>> \in assigned
  ELSE \/ HasBooking(BookingActor(u), p)
       \/ RoleOf[u] = "vendor" /\ IsMain(u)
       \/ RoleOf[u] \notin Accounts
       \/ RoleOf[u] = "company" /\ k \in convs

\* canAccessConversation.
CanAccess(u, k) ==
  \/ u \in Participants(k)
  \/ /\ MainOf[u] \in Participants(k)
     /\ RoleOf[u] = "vendor" \/ <<u, ProjectIn(k)>> \in assigned

(***************************************************************************)
(* Requests of users.                                                      *)
(***************************************************************************)
Unchanged_Accounts == UNCHANGED <<status, assigned, booking, removed>>
Unchanged_Job == UNCHANGED <<job, told, lost>>

\* A sub-user takes part under its main account; the other side is whoever the request
\* names.  An existing conversation is returned as it is.
Open(r, u, other, p) ==
  LET k == <<p, {MainOf[u], other}>> IN
  /\ flight[r] = Idle
  /\ IsActive(other) /\ p \notin removed
  /\ MayOpen(u, k)
  /\ k \notin convs
  /\ flight' = [flight EXCEPT ![r] = [op |-> "open", user |-> None, conv |-> k]]
  /\ UNCHANGED <<convs, msgs>> /\ Unchanged_Accounts /\ Unchanged_Job

\* The insert.  If another request or a job has created the conversation by now the
\* unique key refuses it, if the project is gone the foreign key does: the request
\* fails and changes nothing.
Create(r) ==
  LET k == flight[r].conv IN
  /\ flight[r].op = "open"
  /\ \/ k \notin convs /\ ProjectIn(k) \notin removed
        /\ Cardinality(convs) < MaxConvs
        /\ convs' = convs \cup {k}
     \/ (k \in convs \/ ProjectIn(k) \in removed) /\ UNCHANGED convs
  /\ flight' = [flight EXCEPT ![r] = Idle]
  /\ UNCHANGED msgs /\ Unchanged_Accounts /\ Unchanged_Job

\* By REST or by socket.
SendMessage(u, k, m) ==
  /\ k \in convs /\ CanAccess(u, k)
  /\ ~Sent(m)
  /\ msgs' = [msgs EXCEPT ![m] = NewMessage(u, k)]
  /\ UNCHANGED <<convs, flight>> /\ Unchanged_Accounts /\ Unchanged_Job

\* Sending to a user goes into a conversation of the caller or its account with that
\* user: the most recent one, which is any here, for times are left out.
Shared(u, other) ==
  {k \in convs : Participants(k) \in {{u, other}, {MainOf[u], other}} /\ CanAccess(u, k)}
SendToUser(u, other, m) == \E k \in Shared(u, other) : SendMessage(u, k, m)

\* markAsRead takes every unread message the caller did not send, deleted ones too.
Unread(u, k) == {m \in DOMAIN msgs : msgs[m].conv = k /\ msgs[m].sender # u /\ ~IsRead(m)}
MarkAsRead(u, k) ==
  /\ k \in convs /\ CanAccess(u, k)
  /\ Unread(u, k) # {}
  /\ msgs' = [m \in DOMAIN msgs |->
                IF m \in Unread(u, k) THEN [msgs[m] EXCEPT !.reader = u] ELSE msgs[m]]
  /\ UNCHANGED <<convs, flight>> /\ Unchanged_Accounts /\ Unchanged_Job

\* Only by its sender.  Summaries, which have the requester as sender, are not deleted
\* here (bound).
DeleteMessage(u, m) ==
  /\ Sent(m) /\ msgs[m].sender = u /\ ~msgs[m].deleted
  /\ msgs' = [msgs EXCEPT ![m].deleted = TRUE]
  /\ UNCHANGED <<convs, flight>> /\ Unchanged_Accounts /\ Unchanged_Job

\* Mutant of MayForward: only the source is checked.
MayForwardAnywhere(u, m, k) == CanAccess(u, msgs[m].conv) /\ k \in convs /\ ~msgs[m].deleted

\* The check on both conversations and on the original, then the copy, of which the
\* original may have been deleted meanwhile.
MayForward(u, m, k) ==
  /\ CanAccess(u, msgs[m].conv)
  /\ k \in convs /\ CanAccess(u, k)
  /\ ~msgs[m].deleted
Forward(r, u, m, k) ==
  /\ flight[r] = Idle
  /\ Sent(m) /\ MayForward(u, m, k)
  /\ flight' = [flight EXCEPT ![r] = [op |-> "forward", user |-> u, conv |-> k]]
  /\ UNCHANGED <<convs, msgs>> /\ Unchanged_Accounts /\ Unchanged_Job
Copy(r, m) ==
  LET k == flight[r].conv IN
  /\ flight[r].op = "forward"
  /\ IF k \in convs
     THEN ~Sent(m) /\ msgs' = [msgs EXCEPT ![m] = NewMessage(flight[r].user, k)]
     ELSE UNCHANGED msgs
  /\ flight' = [flight EXCEPT ![r] = Idle]
  /\ UNCHANGED convs /\ Unchanged_Accounts /\ Unchanged_Job

(***************************************************************************)
(* What other components do to the rows the chat reads.                    *)
(***************************************************************************)
Unchanged_Chat == UNCHANGED <<convs, msgs, flight>>

\* updateUserStatus of an administrator; deleteSubUser and assignProjectToSubUser of the
\* main login.  A vendor assigns projects it has a live booking on; that one with a
\* pending cancellation does not count there is left out.
SetStatus(u) ==
  /\ u \in Suspendable /\ status[u] # "deleted"
  /\ status' = [status EXCEPT ![u] = IF @ = "active" THEN "inactive" ELSE "active"]
  /\ UNCHANGED <<assigned, booking, removed>> /\ Unchanged_Chat /\ Unchanged_Job
DeleteSubUser(u) ==
  /\ u \in Suspendable /\ ~IsMain(u) /\ status[u] # "deleted"
  /\ status' = [status EXCEPT ![u] = "deleted"]
  /\ UNCHANGED <<assigned, booking, removed>> /\ Unchanged_Chat /\ Unchanged_Job
Assign(u, p) ==
  /\ ~IsMain(u) /\ status[u] # "deleted"
  /\ p \notin removed
  /\ IF RoleOf[u] = "company" THEN Owner[p] = MainOf[u]
     ELSE \E b \in Booking :
            booking[b] = "live" /\ ProjectOf[b] = p /\ TargetOf[b] = MainOf[u]
  /\ assigned' = assigned \cup {<<u, p>>}
  /\ UNCHANGED <<status, booking, removed>> /\ Unchanged_Chat /\ Unchanged_Job

\* createRequest, with the job queued, or run inline when the queue is off or refuses it.
CreateRequest(b, queued) ==
  /\ booking[b] = "none" /\ ProjectOf[b] \notin removed
  /\ booking' = [booking EXCEPT ![b] = "live"]
  /\ job' = [job EXCEPT ![b] = [at |-> "start", run |-> 1, queued |-> queued]]
  /\ UNCHANGED <<status, assigned, removed, told, lost>> /\ Unchanged_Chat

\* A booking is declined, expires or is cancelled.
EndBooking(b) ==
  /\ booking[b] = "live"
  /\ booking' = [booking EXCEPT ![b] = "ended"]
  /\ UNCHANGED <<status, assigned, removed>> /\ Unchanged_Chat /\ Unchanged_Job

\* Deleting a project takes its bookings, assignments, conversations and messages along.
RemoveProject(p) ==
  /\ p \notin removed
  /\ removed' = removed \cup {p}
  /\ booking' = [b \in Booking |-> IF ProjectOf[b] = p /\ booking[b] = "live"
                                   THEN "ended" ELSE booking[b]]
  /\ assigned' = {a \in assigned : a[2] # p}
  /\ convs' = {k \in convs : ProjectIn(k) # p}
  /\ msgs' = [m \in DOMAIN msgs |->
                IF Sent(m) /\ ProjectIn(msgs[m].conv) = p THEN NoMessage ELSE msgs[m]]
  /\ UNCHANGED <<status, flight>> /\ Unchanged_Job

(***************************************************************************)
(* The booking-created job.                                                *)
(***************************************************************************)
KeyOf(b) == <<ProjectOf[b], {RequesterOf[b], TargetOf[b]}>>
At(b, a) == job[b].at = a
Go(b, a) == job' = [job EXCEPT ![b].at = a]

\* The job looks its booking up, and is done if the project took it along; run inline
\* the booking is at hand.
Notify(b) ==
  /\ At(b, "start")
  /\ IF job[b].queued /\ ProjectOf[b] \in removed
     THEN Go(b, "end") /\ UNCHANGED told
     ELSE Go(b, "find") /\ told' = told \cup {b}
  /\ UNCHANGED lost /\ Unchanged_Accounts /\ Unchanged_Chat

\* What chat throws is caught and logged: the summary is lost.
GiveUp(b) == Go(b, "end") /\ lost' = lost \cup {b}

\* Mutant of FindConversation: without a conversation there is nothing to post.
FindOrStop(b) ==
  /\ At(b, "find")
  /\ Go(b, IF KeyOf(b) \in convs THEN "post" ELSE "end")
  /\ UNCHANGED <<told, lost>> /\ Unchanged_Accounts /\ Unchanged_Chat
FindConversation(b) ==
  /\ At(b, "find")
  /\ Go(b, IF KeyOf(b) \in convs THEN "post" ELSE "create")
  /\ UNCHANGED <<told, lost>> /\ Unchanged_Accounts /\ Unchanged_Chat

CreateConversation(b) ==
  /\ At(b, "create")
  /\ IF KeyOf(b) \in convs \/ ProjectOf[b] \in removed
     THEN GiveUp(b) /\ UNCHANGED convs
     ELSE Go(b, "post") /\ convs' = convs \cup {KeyOf(b)} /\ UNCHANGED lost
  /\ UNCHANGED <<told, msgs, flight>> /\ Unchanged_Accounts

PostSummary(b) ==
  /\ At(b, "post")
  /\ IF KeyOf(b) \in convs
     THEN /\ msgs' = [msgs EXCEPT ![<<b, job[b].run>>] = NewMessage(RequesterOf[b], KeyOf(b))]
          /\ Go(b, "end") /\ UNCHANGED lost
     ELSE GiveUp(b) /\ UNCHANGED msgs
  /\ UNCHANGED <<told, convs, flight>> /\ Unchanged_Accounts

\* Nothing is kept of a job that was done or given up.
Over(b, a) == job' = [job EXCEPT ![b] = [NoJob EXCEPT !.at = a]]

Acknowledge(b) ==
  /\ At(b, "end") /\ Over(b, "done")
  /\ UNCHANGED <<told, lost>> /\ Unchanged_Accounts /\ Unchanged_Chat

\* Mutant of Crash: one run too many.
CrashOnceMore(b) ==
  /\ job[b].at \in {"start", "find", "create", "post", "end"}
  /\ IF job[b].queued /\ job[b].run <= MaxRuns
     THEN job' = [job EXCEPT ![b].at = "start", ![b].run = @ + 1]
     ELSE Over(b, "dead")
  /\ UNCHANGED <<told, lost>> /\ Unchanged_Accounts /\ Unchanged_Chat
\* The process dies before the job is acknowledged, perhaps with everything done.  A
\* queued job is started over; one run inline dies with its request.
Crash(b) ==
  /\ job[b].at \in {"start", "find", "create", "post", "end"}
  /\ IF job[b].queued /\ job[b].run < MaxRuns
     THEN job' = [job EXCEPT ![b].at = "start", ![b].run = @ + 1]
     ELSE Over(b, "dead")
  /\ UNCHANGED <<told, lost>> /\ Unchanged_Accounts /\ Unchanged_Chat

(***************************************************************************)
(* The system.                                                             *)
(***************************************************************************)
UserStep ==
  \/ \E r \in Request :
       \/ \E u \in User, other \in Named, p \in Project : Open(r, u, other, p)
       \/ Create(r)
       \/ \E u \in User, m \in DOMAIN msgs, k \in convs : Forward(r, u, m, k)
       \/ \E m \in Message : Copy(r, m)
  \/ \E u \in User, k \in convs :
       MarkAsRead(u, k) \/ \E m \in Message : SendMessage(u, k, m)
  \/ \E u \in User, other \in Named, m \in Message : SendToUser(u, other, m)
  \/ \E u \in User, m \in Message : DeleteMessage(u, m)
OtherStep ==
  \/ \E u \in User : SetStatus(u) \/ DeleteSubUser(u) \/ \E p \in Project : Assign(u, p)
  \/ \E b \in Booking : EndBooking(b) \/ \E q \in BOOLEAN : CreateRequest(b, q)
  \/ \E p \in Project : RemoveProject(p)
JobStep(b) ==
  \/ Notify(b) \/ FindConversation(b) \/ CreateConversation(b)
  \/ PostSummary(b) \/ Acknowledge(b)

Next == UserStep \/ OtherStep \/ \E b \in Booking : JobStep(b) \/ Crash(b)

\* Workers take jobs as long as there are any, and an inline run goes on until its
\* process dies; nobody has to do anything else.
Worked(b) == WF_vars(JobStep(b))
Spec == Init /\ [][Next]_vars /\ \A b \in Booking : Worked(b)

(***************************************************************************)
(* Properties.                                                             *)
(***************************************************************************)

\* The shape of the rows, of the requests in flight and of the jobs.
TypeOK ==
  /\ status \in [User -> {"active", "inactive", "deleted"}]
  /\ assigned \subseteq User \X Project
  /\ booking \in [Booking -> {"none", "live", "ended"}]
  /\ removed \subseteq Project
  /\ convs \subseteq Key
  /\ msgs \in [Message \cup Summary -> MessageRow]
  /\ flight \in [Request -> [op : {"none", "open", "forward"}, user : User \cup {None},
                             conv : Key \cup {None}]]
  /\ job \in [Booking -> [at : {"none", "start", "find", "create", "post", "end", "done", "dead"},
                          run : 0..MaxRuns, queued : BOOLEAN]]
  /\ told \subseteq Booking /\ lost \subseteq Booking

\* Whoever wrote or read a message, by sending, forwarding, reading or through the job,
\* has a place in its conversation: as a participant, as a vendor's sub-user, or as a
\* company's sub-user whom the project is assigned to.  No message outlives its
\* conversation.
OnlyAdmitted ==
  \A m \in DOMAIN msgs : Sent(m) =>
    /\ msgs[m].conv \in convs
    /\ \A u \in {msgs[m].sender, msgs[m].reader} \ {None} : CanAccess(u, msgs[m].conv)

\* "never to arbitrary companies probing projects they aren't party to": a conversation
\* between company accounts is about a project that one of them owns or was booked on.
Stake(a, p) ==
  \/ Owner[p] = MainOf[a]
  \/ \E b \in Booking : /\ booking[b] # "none" /\ ProjectOf[b] = p
                        /\ MainOf[a] \in {RequesterOf[b], TargetOf[b]}
CompaniesHaveStake ==
  \A k \in convs :
    (\A a \in Participants(k) : RoleOf[a] = "company") =>
      \E a \in Participants(k) : Stake(a, ProjectIn(k))

\* The target of a booking is notified and finds the summary, unless the project is
\* deleted or the process died too often.  The job starts over after a crash, wherever it
\* was.  A summary is lost only to somebody who created the conversation at the same
\* moment, so that the target still finds a conversation.
HasSummary(b) == \E n \in 1..MaxRuns : Sent(<<b, n>>)
TargetIsTold ==
  \A b \in Booking :
    job[b].at = "start" ~> \/ b \in told /\ (HasSummary(b) \/ (b \in lost /\ KeyOf(b) \in convs))
                           \/ job[b].at = "dead"
                           \/ ProjectOf[b] \in removed

\* A job that is not over can always be worked on: the one fact about ENABLED that
\* TargetIsTold rests on.
JobCanGoOn ==
  \A b \in Booking :
    job[b].at \in {"start", "find", "create", "post", "end"} => ENABLED <<JobStep(b)>>_vars

\* A claim of a comment in the code that does not hold (see the README): markAsRead is
\* "for current user as recipient", so that in a conversation of two accounts a message
\* is marked as read only by the account it was sent to.
TwoAccounts(k) == Cardinality({MainOf[a] : a \in Participants(k)}) = 2
ReadByRecipient ==
  \A m \in DOMAIN msgs :
    IsRead(m) /\ TwoAccounts(msgs[m].conv) => MainOf[msgs[m].reader] # MainOf[msgs[m].sender]
=============================================================================
