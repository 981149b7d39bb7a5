------------------------------- MODULE Listings -------------------------------
(***************************************************************************)
(* The lists a login is shown: bookings (BookingsService.listIncoming,     *)
(* listPastBookings, listOutgoing, listCancelRequests), projects           *)
(* (ProjectsService.listOwn, listUserProjectsWithStats, getOne,            *)
(* listProjectBookings) and its calendar (AvailabilityService), read from  *)
(* the rows of the booking engine.  Projects a login sees only because of  *)
(* a conversation, and the order and pages of the lists, are left out.     *)
(***************************************************************************)
EXTENDS Bookings

(***************************************************************************)
(* Bookings.                                                               *)
(***************************************************************************)
Ongoing(r) == r.status \in {"pending", "accepted", "locked", "cancel_requested"}

\* Mutant of Incoming: sub-users see what was addressed to them alone.
IncomingOwn(u) ==
  {b \in Booking : /\ rows[b].target = u
                   /\ Ongoing(rows[b]) \/ rows[b].status = "cancelled"
                   /\ stage[rows[b].project] # "cancelled"}

Incoming(u) ==
  {b \in Booking : /\ rows[b].target = Answers(u)
                   /\ Ongoing(rows[b]) \/ rows[b].status = "cancelled"
                   /\ stage[rows[b].project] # "cancelled"}

Past(u) ==
  {b \in Booking : /\ rows[b].target = Answers(u) /\ Active(rows[b])
                   /\ stage[rows[b].project] = "completed" \/ rows[b].doneByTarget}

Outgoing(u) ==
  {b \in Booking : Exists(rows[b]) /\ RequesterSide(rows[b], u) /\ Admitted(u, rows[b].project)}

CancelRequests(u) ==
  {b \in Booking : /\ rows[b].status = "cancel_requested"
                   /\ RequesterSide(rows[b], u) /\ AskedByTarget(rows[b])}

\* attachEquipmentAlreadyBookedFor: the warning a vendor sees on a request, counted over
\* the bookings of the same kit on other projects.
Elsewhere(b, d) ==
  {c \in Users(rows, rows[b].item, d) :
     rows[c].project # rows[b].project /\ rows[c].target = rows[b].target}

OfKit(b) == rows[b].item \in Item /\ RoleOf[ItemOwner[rows[b].item]] = "vendor"

\* Mutant of Warned: warns as soon as one unit is taken.
WarnedEarly(b) == OfKit(b) /\ \E d \in rows[b].dates : Elsewhere(b, d) # {}

Warned(b) ==
  OfKit(b) /\ \E d \in rows[b].dates : Cardinality(Elsewhere(b, d)) >= Capacity(rows[b].item)

(***************************************************************************)
(* Projects.                                                               *)
(***************************************************************************)
HasProject(u, p) == u \in Companies /\ Owner[p] = MainOf[u] /\ Admitted(u, p)

HiredOn(u, p) ==
  \E b \in Booking : /\ rows[b].project = p /\ rows[b].target = Answers(u) /\ Active(rows[b])

BookedOn(u, p) ==
  \E b \in Booking : /\ rows[b].project = p /\ rows[b].target = Answers(u) /\ Ongoing(rows[b])

\* getOne.
MayOpen(u, p) == stage[p] # "absent" /\ (HasProject(u, p) \/ HiredOn(u, p))

\* listProjectBookings, for whoever getOne lets in.
ProjectBookings(u, p) ==
  IF MayOpen(u, p) THEN {b \in Booking : Exists(rows[b]) /\ rows[b].project = p} ELSE {}

\* listOwn: a casting director's main login sees the projects it is hired on, too.
OwnProjects(u) ==
  {p \in Project : /\ stage[p] # "absent"
                   /\ HasProject(u, p) \/ (u \in CastingDirectors /\ HiredOn(u, p))}

\* listUserProjectsWithStats
ListedProjects(u) ==
  {p \in Project : stage[p] # "absent" /\ (HasProject(u, p) \/ BookedOn(u, p))}

(***************************************************************************)
(* The own calendar (AvailabilityService.getMyCalendar).                   *)
(***************************************************************************)
\* getBookingForDate answers any one of these.
DayBookings(u, d) ==
  {b \in Booking : /\ u \in {rows[b].requester, rows[b].target}
                   /\ Active(rows[b]) \/ rows[b].status = "cancel_requested"
                   /\ d \in rows[b].dates}

\* A booked slot that no accepted booking backs is shown as free, and a free one that
\* an accepted booking covers as booked.
DayShown(u, d) ==
  IF slot[u][d] \in {"booked", "available"}
  THEN IF d \in TrueBooked(u) THEN "booked" ELSE "available"
  ELSE slot[u][d]

(***************************************************************************)
(* Properties.                                                             *)
(***************************************************************************)
MayActAsTarget(u, b) ==
  \/ MayAnswer(rows[b], u) \/ MayClose(rows[b], u)
  \/ /\ TargetSide(rows[b], u) /\ ~RequesterSide(rows[b], u)
     /\ MayAsk(rows[b], u) \/ MayRespond(rows[b], u)

\* Not to close the requester's end: any sub-user of the company may do that, also on
\* projects it is not assigned to and bookings it is not shown.
MayActAsRequester(u, b) ==
  \/ MayLock(rows[b], u)
  \/ RequesterSide(rows[b], u) /\ (MayAsk(rows[b], u) \/ MayRespond(rows[b], u))

\* Whatever the handlers would let a login do with a booking, a list leads it there:
\* the target's logins find the booking among the incoming ones, unless the company
\* called the project off, and its project among theirs; the requester's find it among
\* the outgoing ones or the cancellations to answer; whoever is on an accepted or
\* locked booking, or may book others for a project, can open that project and finds
\* the booking there.  A person's calendar never shows a day of an accepted or
\* locked booking as free, and names a booking for every day it shows as booked.
WorkIsListed ==
  /\ \A u \in User, p \in Project : stage[p] # "absent" /\ MayRequest(rows, u, p) =>
       /\ MayOpen(u, p) /\ p \in ListedProjects(u)
       /\ MainOf[u] = u => p \in OwnProjects(u)
  /\ \A u \in User, b \in Booking : Exists(rows[b]) =>
       LET p == rows[b].project IN
       /\ MayActAsTarget(u, b) =>
            /\ b \in Incoming(u) \/ stage[p] = "cancelled"
            /\ p \in ListedProjects(u)
            /\ Active(rows[b]) => b \in ProjectBookings(u, p)
       /\ MayActAsRequester(u, b) => b \in Outgoing(u) \cup CancelRequests(u)
       /\ Active(rows[b]) /\ u = rows[b].target /\ u \in Persons =>
            \A d \in rows[b].dates : DayShown(u, d) # "available"
  /\ \A u \in User \cap Persons, d \in Date :
       DayShown(u, d) = "booked" => DayBookings(u, d) # {}

\* The warning on a request tells what accepting it would run into: a request with a
\* warning is refused, and one without can be accepted, unless the same project holds
\* the kit a second time.
WarningTrue ==
  \A b \in Booking :
    LET r == rows[b]
        again == \E c \in Booking \ {b} : Active(rows[c]) /\ SameRequest(r, rows[c]) IN
    r.status = "pending" /\ OfKit(b) =>
      /\ Warned(b) => CapacityReached(rows, b, r.dates)
      /\ CapacityReached(rows, b, r.dates) => Warned(b) \/ again
=============================================================================
