------------------------------- MODULE Bookings -------------------------------
(***************************************************************************)
(* The booking engine, one request at a time: every handler of             *)
(* BookingsService, AvailabilityService and ProjectsService that changes a *)
(* booking, a calendar slot or the state of a project is one action, and   *)
(* so is one run of the expiry job.  Requests that overlap are the subject *)
(* of `BookingRaces'.                                                      *)
(*                                                                         *)
(* `disturbed' and `asked' are history variables: no guard reads them.     *)
(* disturbed holds <<resource, day>> pairs on which one of the events took *)
(* place after which the code no longer defends the day: a cancellation    *)
(* was asked for, dates were rewritten in place, or the target closed the  *)
(* booking.  asked holds the bookings whose cancellation was ever asked    *)
(* for.                                                                    *)
(***************************************************************************)
EXTENDS BookingRows

CONSTANTS             \* what clients send
  SettableStatus,     \* to ProjectsService.update: a status,
  NewDays,            \* a list of shoot dates
  LockDays,           \* to lock and lockAll: shoot dates, or None to keep them
  QueueEnabled        \* the QUEUE_ENABLED flag: whether the expiry job runs

ASSUME InputAssumption ==
  /\ SettableStatus \subseteq ProjectStatus \ {"absent"}
  /\ NewDays \subseteq SUBSET Date
  /\ LockDays \subseteq ((SUBSET Date) \ {{}}) \cup {None}
  /\ QueueEnabled \in BOOLEAN

VARIABLES
  rows,       \* booking_requests
  slot,       \* availability_slots; a missing row reads as "available"
  stage,      \* projects.status
  disturbed,
  asked
vars == <<rows, slot, stage, disturbed, asked>>

Init ==
  /\ rows = [b \in Booking |-> NoRow]
  /\ slot = [u \in User |-> [d \in Date |-> "available"]]
  /\ stage = [p \in Project |-> "absent"]
  /\ disturbed = {}
  /\ asked = {}

Put(b, r) == rows' = [rows EXCEPT ![b] = r]
Days(r, D) == {ResourceOf(r)} \X D
DaySets == (SUBSET Date) \ {{}}

(***************************************************************************)
(* Projects.                                                               *)
(***************************************************************************)
CreateProject(u, p) ==
  /\ stage[p] = "absent"
  /\ u = Owner[p] /\ u \in Companies
  /\ stage' = [stage EXCEPT ![p] = "active"]
  /\ UNCHANGED <<rows, slot, disturbed, asked>>

\* Only the main user of the owning account may update or delete a project.
OwnsProject(u, p) == u = Owner[p] /\ u \in Companies /\ stage[p] # "absent"

\* update without shootDates: the status is whatever the request carries.
UpdateProject(u, p, st) ==
  /\ OwnsProject(u, p)
  /\ stage' = [stage EXCEPT ![p] = st]
  /\ UNCHANGED <<rows, slot, disturbed, asked>>

OpenOn(p) == {b \in Booking : Exists(rows[b]) /\ ~Closed(rows[b]) /\ rows[b].project = p}
ActiveOn(p) == {b \in OpenOn(p) : Active(rows[b])}

\* The calendar after the accepted and locked bookings of people move to days D.
RedatedSlots(p, D) ==
  [u \in User |-> [d \in Date |->
     LET mine == {b \in ActiveOn(p) : rows[b].target = u /\ RoleOf[u] \in Person} IN
     IF \E b \in mine : d \in D \ rows[b].dates THEN "booked"
     ELSE IF slot[u][d] = "booked" /\ \E b \in mine : d \in rows[b].dates \ D
          THEN "available"
     ELSE slot[u][d]]]

\* update with shootDates, with or without a status: every booking of the project
\* that is still open gets the project's new days, whatever else its target has on
\* them.
RedateProject(u, p, st, D) ==
  /\ OwnsProject(u, p)
  /\ stage' = [stage EXCEPT ![p] = st]
  /\ rows' = [b \in Booking |-> IF b \in OpenOn(p) THEN [rows[b] EXCEPT !.dates = D]
                                ELSE rows[b]]
  /\ slot' = RedatedSlots(p, D)
  /\ disturbed' = disturbed \cup
       UNION {Days(rows[b], D \cup rows[b].dates) : b \in OpenOn(p)}
  /\ UNCHANGED asked

\* Mutant of ReleasedSlots: leaves out the locked bookings.
ReleasedSlotsUnlocked(p) ==
  [u \in User |-> [d \in Date |->
     IF /\ slot[u][d] = "booked"
        /\ \E b \in OpenOn(p) : /\ rows[b].status = "accepted"
                               /\ rows[b].target = u /\ d \in rows[b].dates
     THEN "available" ELSE slot[u][d]]]

\* The calendar after the project's accepted and locked bookings let go of it.
ReleasedSlots(p) ==
  [u \in User |-> [d \in Date |->
     IF /\ slot[u][d] = "booked"
        /\ \E b \in ActiveOn(p) : rows[b].target = u /\ d \in rows[b].dates
     THEN "available" ELSE slot[u][d]]]

\* Refusal because of paid invoices is a choice of the environment here.
RemoveProject(u, p) ==
  /\ OwnsProject(u, p)
  /\ stage[p] # "completed"
  /\ stage' = [stage EXCEPT ![p] = "absent"]
  /\ rows' = [b \in Booking |-> IF rows[b].project = p THEN NoRow ELSE rows[b]]
  /\ asked' = {b \in asked : rows[b].project # p}
  /\ slot' = ReleasedSlots(p)
  /\ UNCHANGED disturbed

(***************************************************************************)
(* Requests and their answers.                                             *)
(***************************************************************************)
CreateRequest(u, p, t, i, D, b) ==
  /\ rows[b].status = "absent"
  /\ stage[p] \notin {"absent", "completed", "cancelled"}
  /\ MayRequest(rows, u, p)
  /\ t # MainOf[u]
  /\ i \in ItemsOf(t) \cup {None}
  /\ InTheWay(rows, p, t, i) = {}
  /\ Put(b, NewRow(p, MainOf[u], t, i, D))
  /\ UNCHANGED <<slot, stage, disturbed, asked>>

Accept(u, b) ==
  LET r == rows[b] IN
  /\ MayAnswer(rows[b], u)
  /\ ~r.overdue
  /\ r.dates # {}
  /\ ~Conflict(rows, slot, b)
  /\ slot' = IF r.target \in Persons THEN SetDays(slot, r.target, r.dates, "booked")
             ELSE slot
  /\ Put(b, Accepted(r))
  /\ UNCHANGED <<stage, disturbed, asked>>

\* accept on a request past its expiresAt marks it expired and reports an error.
AcceptTooLate(u, b) ==
  /\ MayAnswer(rows[b], u)
  /\ rows[b].overdue
  /\ Put(b, Expired(rows[b]))
  /\ UNCHANGED <<slot, stage, disturbed, asked>>

Decline(u, b) ==
  /\ MayAnswer(rows[b], u)
  /\ Put(b, Declined(rows[b]))
  /\ UNCHANGED <<slot, stage, disturbed, asked>>

\* Withdrawing a request nobody answered yet.
Cancel(u, b) ==
  /\ MayWithdraw(rows[b], u)
  /\ Put(b, Cancelled(rows[b], u))
  /\ UNCHANGED <<slot, stage, disturbed, asked>>

\* 48 hours pass without an answer.
TimePasses(b) ==
  /\ rows[b].status = "pending" /\ ~rows[b].overdue
  /\ Put(b, [rows[b] EXCEPT !.overdue = TRUE])
  /\ UNCHANGED <<slot, stage, disturbed, asked>>

Overdue(r) == r.status = "pending" /\ r.overdue

\* One run of the bookings.expire job.
ExpireTick ==
  /\ QueueEnabled
  /\ \E b \in Booking : Overdue(rows[b])
  /\ rows' = [b \in Booking |-> IF Overdue(rows[b]) THEN Expired(rows[b]) ELSE rows[b]]
  /\ UNCHANGED <<slot, stage, disturbed, asked>>

(***************************************************************************)
(* Accepted bookings.  An override D of None leaves the booked days alone. *)
(***************************************************************************)
KeptOr(r, D) == IF D = None THEN r.dates ELSE D
DaysRewritten(r, D) == IF D = None THEN {} ELSE Days(r, D \cup r.dates)

Lock(u, b, D) ==
  /\ MayLock(rows[b], u)
  /\ Put(b, Locked(rows[b], KeptOr(rows[b], D)))
  /\ disturbed' = disturbed \cup DaysRewritten(rows[b], D)
  /\ UNCHANGED <<slot, stage, asked>>

AcceptedOn(p) == {b \in Booking : rows[b].status = "accepted" /\ rows[b].project = p}

\* The owner locks every accepted booking of the project, its hired casting
\* director's ones included.
LockAll(u, p, D) ==
  /\ u \in Companies /\ Owner[p] = MainOf[u] /\ Admitted(u, p)
  /\ AcceptedOn(p) # {}
  /\ rows' = [b \in Booking |-> IF b \in AcceptedOn(p)
                                THEN Locked(rows[b], KeptOr(rows[b], D)) ELSE rows[b]]
  /\ disturbed' = disturbed \cup UNION {DaysRewritten(rows[b], D) : b \in AcceptedOn(p)}
  /\ UNCHANGED <<slot, stage, asked>>

\* markBookingComplete by the target: its booked days become past work.
CompleteByTarget(u, b) ==
  LET r == rows[b] IN
  /\ MayClose(r, u)
  /\ Put(b, [r EXCEPT !.doneByTarget = TRUE])
  /\ slot' = Sweep(slot, r.target, r.dates, "past_work")
  /\ disturbed' = disturbed \cup Days(r, r.dates)
  /\ UNCHANGED <<stage, asked>>

CompleteByRequester(u, b) ==
  /\ MayCloseAsRequester(rows[b], u)
  /\ Put(b, [rows[b] EXCEPT !.doneByRequester = TRUE])
  /\ UNCHANGED <<slot, stage, disturbed, asked>>

(***************************************************************************)
(* Cancelling what was agreed: one side asks, the other one answers.       *)
(***************************************************************************)
RequestCancellation(u, b) ==
  LET r == rows[b] IN
  /\ MayAsk(r, u)
  /\ Put(b, CancelAsked(r, u))
  /\ disturbed' = disturbed \cup Days(r, r.dates)
  /\ asked' = asked \cup {b}
  /\ UNCHANGED <<slot, stage>>

\* Agreeing frees every day of the booking, whatever its slot says.
AgreeToCancel(u, b) ==
  LET r == rows[b] IN
  /\ MayRespond(r, u)
  /\ slot' = SetDays(slot, r.target, r.dates, "available")
  /\ Put(b, Cancelled(r, u))
  /\ UNCHANGED <<stage, disturbed, asked>>

RefuseToCancel(u, b) ==
  /\ MayRespond(rows[b], u)
  /\ Put(b, CancelDenied(rows[b], rows[b].locked))
  /\ UNCHANGED <<slot, stage, disturbed, asked>>

(***************************************************************************)
(* The calendar.                                                           *)
(***************************************************************************)
\* Days an accepted or locked booking of u covers.
TrueBooked(u) ==
  {d \in Date : \E b \in Booking : rows[b].target = u /\ Active(rows[b]) /\ d \in rows[b].dates}
Stale(u) == {d \in Date : slot[u][d] = "booked"} \ TrueBooked(u)

\* Reading a calendar, one's own or another user's, writes its stale days back.
HealCalendar(u) ==
  /\ Stale(u) # {}
  /\ slot' = SetDays(slot, u, Stale(u), "available")
  /\ UNCHANGED <<rows, stage, disturbed, asked>>

\* bulkSet: days the bookings manage are skipped.
BulkSet(u, D, s) ==
  /\ RoleOf[u] # "company"
  /\ slot' = SetDays(slot, u, {d \in D : slot[u][d] \in UserSettable}, s)
  /\ UNCHANGED <<rows, stage, disturbed, asked>>

(***************************************************************************)
(* The engine.                                                             *)
(***************************************************************************)
ProjectStep(u, p) ==
  \/ CreateProject(u, p)
  \/ \E st \in SettableStatus : UpdateProject(u, p, st)
  \/ \E st \in SettableStatus \cup {stage[p]}, D \in NewDays : RedateProject(u, p, st, D)
  \/ RemoveProject(u, p)
  \/ \E D \in LockDays : LockAll(u, p, D)
  \/ \E t \in Account, i \in Item \cup {None}, D \in DaySets, b \in Booking :
       CreateRequest(u, p, t, i, D, b)

BookingStep(u, b) ==
  \/ Accept(u, b)
  \/ AcceptTooLate(u, b)
  \/ Decline(u, b)
  \/ Cancel(u, b)
  \/ \E D \in LockDays : Lock(u, b, D)
  \/ CompleteByTarget(u, b)
  \/ CompleteByRequester(u, b)
  \/ RequestCancellation(u, b)
  \/ AgreeToCancel(u, b)
  \/ RefuseToCancel(u, b)

CalendarStep(u) ==
  \/ HealCalendar(u)
  \/ \E D \in DaySets, s \in UserSettable : BulkSet(u, D, s)

Next ==
  \/ \E u \in User, p \in Project : ProjectStep(u, p)
  \/ \E u \in User, b \in Booking : BookingStep(u, b)
  \/ \E u \in User : CalendarStep(u)
  \/ \E b \in Booking : TimePasses(b)
  \/ ExpireTick

\* The expiry job is a repeatable queue job: it keeps running.  Nothing obliges a
\* user to do anything.
Spec == Init /\ [][Next]_vars /\ WF_vars(ExpireTick)

(***************************************************************************)
(* Properties.                                                             *)
(***************************************************************************)

\* Every variable has its type.
TypeOK ==
  /\ rows \in [Booking -> Row]
  /\ slot \in [User -> [Date -> SlotStatus]]
  /\ stage \in [Project -> ProjectStatus]
  /\ disturbed \subseteq (Resource \cup {None}) \X Date
  /\ asked \subseteq Booking

\* accept's conflict checks do their work: on a day where no cancellation was
\* asked for, no dates were rewritten and nobody closed a booking, a person has
\* at most one accepted or locked booking, a property at most one and an
\* equipment item at most quantityTotal of them.
CapacityRespected ==
  \A x \in Resource, d \in Date :
    <<x, d>> \notin disturbed => Cardinality(Users(rows, x, d)) <= Capacity(x)

\* The two records of a person's day agree on undisturbed days: the slot is
\* "booked" exactly when an accepted or locked booking covers the day, through
\* accepting, locking, calendar reads, bulkSet and the removal of projects.
CalendarAgrees ==
  \A u \in Persons, d \in Date :
    <<u, d>> \notin disturbed => (slot[u][d] = "booked" <=> d \in TrueBooked(u))

\* Two live requests for the same target (and item) of one project exist only when
\* the cancellation of one of them was once asked for: createRequest's search for
\* an existing request overlooks cancel_requested rows, which refusing revives.
SameRequest(r, s) == r.project = s.project /\ r.target = s.target /\ r.item = s.item
DuplicateOnlyAfterAsk ==
  \A b, c \in Booking :
    b # c /\ InWay(rows[b]) /\ InWay(rows[c]) /\ SameRequest(rows[b], rows[c])
      => b \in asked \/ c \in asked

\* An agreed booking is cancelled only with both sides: never straight from
\* accepted or locked, and the login that agrees acts for another account than
\* the one that asked.
CancellationNeedsBothSides ==
  [][\A b \in Booking :
       rows'[b].status = "cancelled" =>
         /\ ~Active(rows[b])
         /\ rows[b].status = "cancel_requested" =>
              MainOf[rows'[b].cancelledBy] # MainOf[rows[b].cancelledBy]]_vars

\* A request nobody answers within 48 hours does not stay pending for ever.
OverdueSettled == \A b \in Booking : Overdue(rows[b]) ~> ~Overdue(rows[b])

\* The job has something to do whenever a request is overdue: the one fact about ENABLED
\* that OverdueSettled rests on.
JobCanRun ==
  QueueEnabled /\ (\E b \in Booking : Overdue(rows[b])) => ENABLED <<ExpireTick>>_vars

\* The lifecycle promised for a booking, `BookingLifecycle', which knows two kinds
\* of cancellation request: of an accepted and of a locked booking.
Lifecycle == INSTANCE BookingLifecycle WITH
  point <- [b \in Booking |->
              IF rows[b].status = "cancel_requested"
              THEN IF rows[b].locked THEN "asked_locked" ELSE "asked_accepted"
              ELSE rows[b].status]
LifecycleSpec == Lifecycle!Spec

\* Claims of comments in the code that do not hold (see the README).

\* "they ARE single people with a personal calendar": nobody is on two accepted or
\* locked bookings, not yet closed by them, for the same day.
NoDoubleBooking ==
  \A u \in Persons, d \in Date :
    Cardinality({b \in Users(rows, u, d) : ~rows[b].doneByTarget}) <= 1

\* ProjectsService.remove frees slots "so the crew's calendar isn't stuck booked
\* for a project that no longer exists": after the removal, a booked day of one of
\* its people is backed by a booking of another project.
RemovalFreesCalendar ==
  [][\A p \in Project, b \in Booking :
       stage[p] # "absent" /\ stage'[p] = "absent" /\ rows[b].project = p =>
         \A d \in rows[b].dates :
           slot'[rows[b].target][d] = "booked" => d \in TrueBooked(rows[b].target)']_vars
=============================================================================
