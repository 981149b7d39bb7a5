------------------------------ MODULE BookingRows ------------------------------
(***************************************************************************)
(* The rows the booking engine works on (booking_requests,                 *)
(* availability_slots, projects), the questions its handlers ask of them   *)
(* before acting, and the column updates they issue.  The module has no    *)
(* variables: `Bookings' runs every handler as one step, `BookingRaces'    *)
(* splits the same handlers at their awaits, and both use these            *)
(* definitions.  `rows' stands for the booking_requests table, `r' for one *)
(* row of it, `slot' for the availability_slots table.                     *)
(***************************************************************************)
EXTENDS Naturals, FiniteSets

CONSTANTS
  Booking,          \* ids a booking_requests row may get
  Project,          \* ids a projects row may get
  User,             \* logins: main users and their sub-users
  Item,             \* vendor equipment and location properties
  Date,             \* calendar days (UTC)
  None,             \* SQL NULL
  RoleOf,           \* the role column of a user
  MainOf,           \* mainUserId ?? id, the account a login acts for
  Owner,            \* the companyUserId of a project
  CastingDirectors, \* company accounts whose companyType is casting_director
  ItemOwner,        \* the provider that lists an item
  Quantity,         \* quantityTotal of an equipment row; 1 for a property
  Assigned          \* sub_user_project_assignments: <<sub-user, project>>

Person   == {"individual", "cast"}   \* roles with a personal calendar
Provider == {"vendor", "location"}   \* roles booked item by item
Role     == Person \cup Provider \cup {"company"}

Account     == {u \in User : MainOf[u] = u}
Companies   == {u \in User : RoleOf[u] = "company"}
ItemsOf(t)  == {i \in Item : ItemOwner[i] = t}
Persons     == {u \in Account : RoleOf[u] \in Person}

ASSUME NoneAssumption == None \notin User \cup Item
ASSUME FiniteAssumption == IsFiniteSet(Booking)
ASSUME UserAssumption ==
  /\ RoleOf \in [User -> Role]
  /\ MainOf \in [User -> User]
  /\ \A u \in User : MainOf[MainOf[u]] = MainOf[u] /\ RoleOf[MainOf[u]] = RoleOf[u]
  /\ CastingDirectors \subseteq Account
  /\ Assigned \subseteq User \X Project
ASSUME OwnerAssumption == Owner \in [Project -> Account]
ASSUME ItemAssumption ==
  /\ User \cap Item = {}
  /\ ItemOwner \in [Item -> {u \in Account : RoleOf[u] \in Provider}]
  /\ Quantity \in [Item -> Nat]

(***************************************************************************)
(* Columns.  "absent" marks an id no row has.  `overdue' is the comparison *)
(* expiresAt < now; `locked' says lockedAt is set; doneByTarget and        *)
(* doneByRequester say the two completion stamps are set.                  *)
(***************************************************************************)
Status == {"absent", "pending", "accepted", "declined", "locked",
           "cancel_requested", "cancelled", "expired"}
SlotStatus   == {"available", "booked", "blocked", "past_work"}
UserSettable == {"available", "blocked"}
ProjectStatus == {"absent", "draft", "open", "active", "completed", "cancelled"}

Row == [status : Status, project : Project \cup {None},
        requester : User \cup {None}, target : User \cup {None},
        item : Item \cup {None}, dates : SUBSET Date, overdue : BOOLEAN,
        locked : BOOLEAN, cancelledBy : User \cup {None},
        doneByTarget : BOOLEAN, doneByRequester : BOOLEAN]

NoRow == [status |-> "absent", project |-> None, requester |-> None,
          target |-> None, item |-> None, dates |-> {}, overdue |-> FALSE,
          locked |-> FALSE, cancelledBy |-> None,
          doneByTarget |-> FALSE, doneByRequester |-> FALSE]

\* The row createRequest inserts: pending, expiring 48 hours from now.
NewRow(p, req, t, i, D) ==
  [NoRow EXCEPT !.status = "pending", !.project = p, !.requester = req,
                !.target = t, !.item = i, !.dates = D]

Exists(r)   == r.status # "absent"
Active(r)   == r.status \in {"accepted", "locked"}
InWay(r)    == r.status \in {"pending", "accepted", "locked"}
Closed(r)   == r.status \in {"declined", "expired", "cancelled"}

(***************************************************************************)
(* Who may act.                                                            *)
(***************************************************************************)

\* accept, decline and markBookingComplete: vendor and company logins act for
\* their account owner, the other roles only for themselves.
Answers(u) == IF RoleOf[u] \in {"vendor", "company"} THEN MainOf[u] ELSE u

\* A company login on a project: the main user, or a sub-user assigned to it.
Admitted(u, p) == MainOf[u] = u \/ <<u, p>> \in Assigned

\* A company may request bookings on a project it owns, and a casting director
\* on a project it is hired onto.
Hired(rows, c, p) ==
  \E b \in Booking : rows[b].project = p /\ rows[b].target = c /\ Active(rows[b])

MayRequest(rows, u, p) ==
  /\ u \in Companies
  /\ \/ Owner[p] = MainOf[u] /\ Admitted(u, p)
     \/ Owner[p] # MainOf[u] /\ MainOf[u] \in CastingDirectors /\ Hired(rows, MainOf[u], p)

\* Mutant of InTheWay: looks for pending requests only.
InTheWayPendingOnly(rows, p, t, i) ==
  {b \in Booking : /\ rows[b].project = p /\ rows[b].target = t /\ rows[b].status = "pending"
                   /\ (RoleOf[t] \in Provider /\ i # None) => rows[b].item = i}

\* The row a second request for the same target of the same project runs into;
\* naming an item narrows the search to that item.
InTheWay(rows, p, t, i) ==
  {b \in Booking : /\ rows[b].project = p /\ rows[b].target = t /\ InWay(rows[b])
                   /\ (RoleOf[t] \in Provider /\ i # None) => rows[b].item = i}

RequesterSide(r, u) == RoleOf[u] = "company" /\ r.requester = MainOf[u]
TargetSide(r, u)    == r.target \in {Answers(u), u}

\* Mutant of AskedByTarget: compares the login only, not its main user.
AskedByTargetLogin(r) == r.cancelledBy # None /\ r.target = r.cancelledBy

\* isCancellationRequestedByTarget: the asking login, or its main user, is the target.
AskedByTarget(r) == r.cancelledBy # None /\ r.target \in {r.cancelledBy, MainOf[r.cancelledBy]}

\* The checks of each handler on the row it reads.
MayAnswer(r, u) == r.status = "pending" /\ Answers(u) = r.target   \* accept, decline

\* Mutant of MayWithdraw: withdraws an accepted booking as well.
MayWithdrawAccepted(r, u) ==
  /\ r.status \in {"pending", "accepted"}
  /\ RequesterSide(r, u) /\ Admitted(u, r.project)

\* cancel: a company login counts as requester through its account; as target
\* only a vendor login does.
MayWithdraw(r, u) ==
  /\ r.status = "pending"
  /\ \/ RequesterSide(r, u) /\ Admitted(u, r.project)
     \/ r.target = u
     \/ RoleOf[u] = "vendor" /\ r.target = MainOf[u]

MayLock(r, u) == r.status = "accepted" /\ RequesterSide(r, u) /\ Admitted(u, r.project)

\* markBookingComplete: a login of both sides counts as the target.
MayClose(r, u) == Active(r) /\ r.target = Answers(u) /\ ~r.doneByTarget
MayCloseAsRequester(r, u) ==
  Active(r) /\ RequesterSide(r, u) /\ r.target # Answers(u) /\ ~r.doneByRequester

\* Mutant of MayAsk: also asks to cancel a request nobody answered.
MayAskPending(r, u) ==
  /\ InWay(r)
  /\ IF RequesterSide(r, u) THEN Admitted(u, r.project) ELSE TargetSide(r, u)

\* requestCancellation
MayAsk(r, u) ==
  /\ Active(r)
  /\ IF RequesterSide(r, u) THEN Admitted(u, r.project) ELSE TargetSide(r, u)

\* respondToCancellation is the requester's answer to the target, and
\* respondToCompanyCancellation the target's answer to the requester.
MayRespond(r, u) ==
  /\ r.status = "cancel_requested"
  /\ IF AskedByTarget(r) THEN RequesterSide(r, u) ELSE TargetSide(r, u)

(***************************************************************************)
(* What a booking takes up: a person's day, or one unit of an item's day.  *)
(* A company target and a provider booked without an item take up nothing. *)
(***************************************************************************)
Resource == Persons \cup Item

ResourceOf(r) == IF r.target \in Persons THEN r.target ELSE r.item

Capacity(x) == IF x \in Item THEN IF Quantity[x] > 1 THEN Quantity[x] ELSE 1 ELSE 1

Users(rows, x, d) ==
  {b \in Booking : Active(rows[b]) /\ ResourceOf(rows[b]) = x /\ d \in rows[b].dates}

\* Mutants of CapacityReached: off by one; blind to locked bookings.
CapacityExceeded(rows, b, D) ==
  LET x == ResourceOf(rows[b]) IN
  x # None /\ \E d \in D : Cardinality(Users(rows, x, d) \ {b}) > Capacity(x)

CapacityReachedUnlocked(rows, b, D) ==
  LET x == ResourceOf(rows[b])
      rivals(d) == {c \in Users(rows, x, d) \ {b} : rows[c].status = "accepted"} IN
  x # None /\ \E d \in D : Cardinality(rivals(d)) >= Capacity(x)

\* accept's conflict check for booking b on days D.  A person's other bookings are
\* looked at only when some slot of those days is already booked or blocked.
SlotTaken(slot, u, D) == \E d \in D : slot[u][d] \in {"booked", "blocked"}

CapacityReached(rows, b, D) ==
  LET x == ResourceOf(rows[b]) IN
  x # None /\ \E d \in D : Cardinality(Users(rows, x, d) \ {b}) >= Capacity(x)

Conflict(rows, slot, b) ==
  /\ rows[b].target \in Persons => SlotTaken(slot, rows[b].target, rows[b].dates)
  /\ CapacityReached(rows, b, rows[b].dates)

(***************************************************************************)
(* Column updates of one row.                                              *)
(***************************************************************************)
Accepted(r) == [r EXCEPT !.status = "accepted"]
\* Mutant of Declined: a status the enum does not have.
DeclinedAsRejected(r) == [r EXCEPT !.status = "rejected"]
Declined(r) == [r EXCEPT !.status = "declined"]
Expired(r)  == [r EXCEPT !.status = "expired"]
Locked(r, D) == [r EXCEPT !.status = "locked", !.locked = TRUE, !.dates = D]
CancelAsked(r, u) == [r EXCEPT !.status = "cancel_requested", !.cancelledBy = u]
Cancelled(r, u)   == [r EXCEPT !.status = "cancelled", !.cancelledBy = u]
\* Mutant of CancelDenied: forgets that the booking was locked.
CancelDeniedToAccepted(r, lockedAt) ==
  [r EXCEPT !.status = "accepted", !.cancelledBy = None]

\* Denying returns the row to what lockedAt, as the handler read it, says it was.
CancelDenied(r, lockedAt) ==
  [r EXCEPT !.status = IF lockedAt THEN "locked" ELSE "accepted", !.cancelledBy = None]

(***************************************************************************)
(* Updates of the calendar.                                                *)
(***************************************************************************)
SetDays(slot, x, D, s) ==
  [slot EXCEPT ![x] = [d \in Date |-> IF d \in D THEN s ELSE slot[x][d]]]

\* updateMany ... where status = 'booked'
Sweep(slot, x, D, s) == SetDays(slot, x, {d \in D : slot[x][d] = "booked"}, s)
=============================================================================
