-------------------------- MODULE BookingRaces_proofs --------------------------
(***************************************************************************)
(* Proofs about requests in flight at the same time.  The first part is    *)
(* about any number of workers next to the expiry job: every row written   *)
(* is a row, nobody is held to what they did not accept, the job takes     *)
(* nothing back.  The second part is about one request at a time, which    *)
(* may die at any of its awaits.                                           *)
(***************************************************************************)
EXTENDS BookingRaces, Bookings_proofs

(***************************************************************************)
(* What is in flight.                                                      *)
(***************************************************************************)

\* A request about a booking, as opposed to one that makes a row or reads a calendar.
OnBooking(q) == q.op \in Op \ {"create", "heal"}

\* The row createRequest is about to insert.
Fresh(r) ==
  \E p \in Project, c \in Account, t \in Account, i \in Item \cup {None}, D \in DaySets :
    t # c /\ r = NewRow(p, c, t, i, D)

\* What a request knows at each of its awaits: it passed the checks of its handler on
\* the row it read, and has written no day before the checks of accept are over.
InFlight(q) ==
  /\ q.at = "idle" => q = Idle
  /\ q.op = "none" => q = Idle
  /\ OnBooking(q) => q.booking \in Booking /\ q.user \in User /\ Passes(q.op, q.seen, q.user)
  /\ q.op = "create" => q.at = "write" /\ Fresh(q.seen)
  /\ q.op = "heal" => q.user \in User /\ q.at \in {"bookings", "write"}
  /\ q.at \in {"slots", "rivals"} => q.op = "accept" /\ q.days = q.seen.dates
  /\ q.at = "days" => q.op \in {"accept", "agree"}
  /\ q.at = "bookings" => q.op = "heal"

\* So does every request.
FlightOK == \A w \in Worker : InFlight(flight[w])

\* A worker at rest serves a request like any other, as far as its type goes.
LEMMA IdleType == Idle \in Request /\ InFlight(Idle)
<1>1. NoRow \in Row
  BY DEF NoRow, Row, Status
<1>2. Idle \in Request
  BY <1>1 DEF Idle, Request, At
<1>3. InFlight(Idle)
  BY DEF Idle, InFlight, OnBooking, Op
<1> QED BY <1>2, <1>3

\* A step of a worker that leaves it with a well-formed request leaves all of them
\* with one.
LEMMA ServeStep ==
  ASSUME RaceTypeOK, FlightOK, NEW w \in Worker, NEW q \in Request, InFlight(q), Serve(w, q)
  PROVE  /\ flight' \in [Worker -> Request] /\ FlightOK'
         /\ flight'[w] = q
         /\ \A v \in Worker \ {w} : flight'[v] = flight[v]
<1>1. flight' = [flight EXCEPT ![w] = q] /\ flight \in [Worker -> Request]
  BY DEF Serve, RaceTypeOK
<1>2. \A v \in Worker : flight'[v] = IF v = w THEN q ELSE flight[v]
  BY <1>1
<1> QED BY <1>1, <1>2 DEF FlightOK

\* createRequest inserts a row.
LEMMA FreshType == ASSUME NEW r, Fresh(r) PROVE r \in Row /\ r.status = "pending"
<1>1. PICK p \in Project, c \in Account, t \in Account, i \in Item \cup {None}, D \in DaySets :
        r = NewRow(p, c, t, i, D)
  BY DEF Fresh
<1>2. r \in Row
  BY <1>1, NewRowType DEF Account, DaySets
<1>3. r.status = "pending"
  BY <1>1 DEF NewRow, NoRow
<1> QED BY <1>2, <1>3

\* What a request writes over its row is a row, with the status its handler is for, and
\* nothing else about the booking changes but who cancelled it and the two stamps.
LEMMA WrittenRow ==
  ASSUME NEW q \in Request, InFlight(q), OnBooking(q), NEW r \in Row
  PROVE  /\ Written(q, r) \in Row
         /\ Written(q, r).dates = r.dates /\ ResourceOf(Written(q, r)) = ResourceOf(r)
         /\ Written(q, r).target = r.target
         /\ q.op = "accept" => Written(q, r) = Accepted(r) /\ Written(q, r).status = "accepted"
         /\ q.op \in {"expire", "decline", "cancel", "agree"} =>
              Closed(Written(q, r))
         /\ q.op = "lock" => Written(q, r).status = "locked"
         /\ q.op = "close" => Written(q, r).status = r.status
         /\ q.op = "ask" => Written(q, r).status = "cancel_requested"
         /\ q.op = "refuse" => Active(Written(q, r))
<1>1. q.user \in User /\ q.seen \in Row /\ q.seen.locked \in BOOLEAN
  BY DEF InFlight, Request, Row
<1>2. KeptOr(r, None) = r.dates
  BY DEF KeptOr
<1> USE DEF Written, ResourceOf, Row, Status, Closed, Active
<1>3. CASE q.op = "accept"
  BY <1>1, <1>3 DEF Accepted
<1>4. CASE q.op = "expire"
  BY <1>1, <1>4 DEF Expired
<1>5. CASE q.op = "decline"
  BY <1>1, <1>5 DEF Declined
<1>6. CASE q.op = "cancel"
  BY <1>1, <1>6 DEF Cancelled
<1>11. CASE q.op = "agree"
  BY <1>1, <1>11 DEF Cancelled
<1>7. CASE q.op = "lock"
  BY <1>1, <1>2, <1>7 DEF Locked
<1>8. CASE q.op = "close"
  BY <1>1, <1>8
<1>9. CASE q.op = "ask"
  BY <1>1, <1>9 DEF CancelAsked
<1>10. CASE q.op = "refuse"
  BY <1>1, <1>10 DEF CancelDenied
<1> HIDE DEF Written, ResourceOf, Row, Status, Closed, Active
<1> QED BY <1>3, <1>4, <1>5, <1>6, <1>7, <1>8, <1>9, <1>10, <1>11 DEF OnBooking, Op

(***************************************************************************)
(* Every step keeps the types and what the requests know.                  *)
(***************************************************************************)

\* A step of a worker does.
LEMMA WorkerFlight ==
  ASSUME RaceTypeOK, FlightOK, NEW w \in Worker, WorkerStep(w)
  PROVE  RaceTypeOK' /\ FlightOK'
<1> DEFINE q == flight[w]
<1>q. q \in Request /\ InFlight(q)
  BY DEF RaceTypeOK, FlightOK
<1>r. \A b \in Booking : rows[b] \in Row /\ rows[b].dates \in SUBSET Date
  BY DEF RaceTypeOK, TypeOK, Row
<1>s. ASSUME NEW n \in Request, InFlight(n), Serve(w, n), TypeOK', UNCHANGED tick,
             agreed' \subseteq Booking
      PROVE  RaceTypeOK' /\ FlightOK'
  BY <1>s, ServeStep DEF RaceTypeOK
<1>t. ASSUME UNCHANGED <<rows, slot, stage, disturbed, asked>> PROVE TypeOK'
  BY <1>t DEF RaceTypeOK, TypeOK
<1>c. ASSUME NEW D, NEW v \in SlotStatus, NEW x, slot' = SetDays(slot, x, D, v),
             UNCHANGED <<rows, stage, disturbed, asked>>
      PROVE  TypeOK'
  BY <1>c, SetDaysType DEF RaceTypeOK, TypeOK
<1>v. {"available", "booked", "past_work"} \subseteq SlotStatus
  BY DEF SlotStatus
<1>a. agreed \subseteq Booking
  BY DEF RaceTypeOK
<1>1. ASSUME NEW op \in Op, NEW u \in User, NEW b \in Booking, Begin(w, op, u, b)
      PROVE  RaceTypeOK' /\ FlightOK'
  <2> DEFINE n == [op |-> op, at |-> Next1(op, rows[b]), user |-> u, booking |-> b,
                   seen |-> rows[b], days |-> rows[b].dates]
  <2>0. /\ Passes(op, rows[b], u) /\ Serve(w, n)
        /\ UNCHANGED <<rows, slot, stage, disturbed, asked, tick, agreed>>
    BY <1>1 DEF Begin
  <2>1. op \notin {"create", "heal", "none"}
    BY <2>0 DEF Passes, Op
  <2>2. /\ Next1(op, rows[b]) \in {"slots", "rivals", "days", "write"}
        /\ Next1(op, rows[b]) \in {"slots", "rivals"} => op = "accept"
        /\ Next1(op, rows[b]) = "days" => op = "agree"
    BY DEF Next1
  <2>3. n \in Request
    BY <2>2, <1>r DEF Request, At
  <2>4. InFlight(n)
    BY <2>0, <2>1, <2>2 DEF InFlight, OnBooking
  <2> HIDE DEF n
  <2> QED BY <2>0, <2>3, <2>4, <1>s, <1>t, <1>a
<1>2. ASSUME NEW u \in User, NEW p \in Project, NEW t \in Account, NEW i \in Item \cup {None},
             NEW D \in (SUBSET Date) \ {{}}, BeginCreate(w, u, p, t, i, D)
      PROVE  RaceTypeOK' /\ FlightOK'
  <2> DEFINE r == NewRow(p, MainOf[u], t, i, D)
             n == [Idle EXCEPT !.op = "create", !.at = "write", !.user = u, !.seen = r]
  <2>1. Serve(w, n) /\ t # MainOf[u] /\ UNCHANGED <<rows, slot, stage, disturbed, asked, tick, agreed>>
    BY <1>2 DEF BeginCreate
  <2>2. Fresh(r)
    <3>1. MainOf[u] \in Account
      BY UserAssumption DEF Account
    <3> QED BY <2>1, <3>1 DEF Fresh, DaySets
  <2>3. r \in Row
    BY <2>2, FreshType
  <2> HIDE DEF r
  <2>4. n \in Request
    BY <2>3 DEF Idle, Request, At, Op
  <2>5. InFlight(n)
    BY <2>2 DEF Idle, InFlight, OnBooking, Op
  <2> QED BY <2>1, <2>4, <2>5, <1>s, <1>t, <1>a
<1>3. ASSUME NEW b \in Booking, Insert(w, b) PROVE RaceTypeOK' /\ FlightOK'
  <2>1. q.seen \in Row
    BY <1>q DEF Request
  <2>2. TypeOK'
    BY <1>3, <2>1 DEF Insert, Put, RaceTypeOK, TypeOK
  <2> QED BY <1>3, <2>2, <1>s, <1>a, IdleType DEF Insert
<1>4. CASE ReadSlots(w)
  <2> DEFINE to == IF SlotTaken(slot, q.seen.target, q.days) THEN "rivals" ELSE "days"
             n == [q EXCEPT !.at = to]
  <2>1. q.at = "slots" /\ flight' = [flight EXCEPT ![w].at = to]
        /\ UNCHANGED <<rows, slot, stage, disturbed, asked, tick, agreed>>
    BY <1>4 DEF ReadSlots, Goto
  <2>2. Serve(w, n)
    BY <2>1 DEF Serve
  <2>3. to \in {"rivals", "days"}
    OBVIOUS
  <2> HIDE DEF to
  <2>4. n \in Request
    BY <2>3, <1>q DEF Request, At
  <2>5. InFlight(n)
    BY <2>1, <2>3, <1>q DEF InFlight, OnBooking, Request
  <2> QED BY <2>1, <2>2, <2>4, <2>5, <1>s, <1>t, <1>a
<1>5. CASE ReadRivals(w)
  <2>1. CASE CapacityReached(rows, q.booking, q.days)
    BY <1>5, <2>1, <1>s, <1>t, <1>a, IdleType DEF ReadRivals
  <2>2. CASE ~CapacityReached(rows, q.booking, q.days)
    <3> DEFINE to == IF q.seen.target \in Persons THEN "days" ELSE "write"
               n == [q EXCEPT !.at = to]
    <3>1. q.at = "rivals" /\ flight' = [flight EXCEPT ![w].at = to]
          /\ UNCHANGED <<rows, slot, stage, disturbed, asked, tick, agreed>>
      BY <1>5, <2>2 DEF ReadRivals, Goto
    <3>2. Serve(w, n)
      BY <3>1 DEF Serve
    <3>3. to \in {"write", "days"}
      OBVIOUS
    <3> HIDE DEF to
    <3>4. n \in Request
      BY <3>3, <1>q DEF Request, At
    <3>5. InFlight(n)
      BY <3>1, <3>3, <1>q DEF InFlight, OnBooking, Request
    <3> QED BY <3>1, <3>2, <3>4, <3>5, <1>s, <1>t, <1>a
  <2> QED BY <2>1, <2>2
<1>6. ASSUME NEW d \in Date, WriteDay(w, d) PROVE RaceTypeOK' /\ FlightOK'
  <2> DEFINE to == IF q.days = {d} THEN "write" ELSE "days"
             n == [q EXCEPT !.days = @ \ {d}, !.at = to]
             v == IF q.op = "accept" THEN "booked" ELSE "available"
  <2>1. q.at = "days" /\ Serve(w, n) /\ slot' = SetDays(slot, q.seen.target, {d}, v)
        /\ UNCHANGED <<rows, stage, disturbed, asked, tick, agreed>>
    BY <1>6 DEF WriteDay
  <2>2. TypeOK'
    BY <2>1, <1>c, <1>v
  <2>3. to \in {"write", "days"}
    OBVIOUS
  <2> HIDE DEF to
  <2>4. n \in Request
    BY <2>3, <1>q DEF Request, At
  <2>5. InFlight(n)
    BY <2>1, <2>3, <1>q DEF InFlight, OnBooking, Request
  <2> QED BY <2>1, <2>2, <2>4, <2>5, <1>s, <1>a
<1>7. CASE WriteRow(w)
  <2> DEFINE b == q.booking
  <2>1. OnBooking(q)
    BY <1>7, <1>q DEF WriteRow, OnBooking, InFlight, Request, Idle
  <2>2. b \in Booking /\ q.seen \in Row /\ rows[b] \in Row /\ rows[b].dates \in SUBSET Date
    BY <2>1, <1>q, <1>r DEF InFlight, Request
  <2>3. Written(q, rows[b]) \in Row
    BY <2>1, <2>2, <1>q, WrittenRow
  <2>4. Days(q.seen, rows[b].dates) \subseteq (Resource \cup {None}) \X Date
    <3>1. ResourceOf(q.seen) \in Resource \cup {None}
      BY <2>2 DEF Row, ResourceOf, Resource
    <3> QED BY <3>1, <2>2 DEF Days
  <2>5. /\ Put(b, Written(q, rows[b])) /\ stage' = stage /\ tick' = tick /\ Serve(w, Idle)
        /\ slot' \in {Sweep(slot, q.seen.target, q.seen.dates, "past_work"), slot}
        /\ disturbed' \in {disturbed \cup Days(q.seen, rows[b].dates), disturbed}
        /\ asked' \in {asked \cup {b}, asked} /\ agreed' \in {agreed \cup {b}, agreed}
    BY <1>7 DEF WriteRow
  <2>6. rows' \in [Booking -> Row]
    BY <2>3, <2>5 DEF Put, RaceTypeOK, TypeOK
  <2>7. slot' \in [User -> [Date -> SlotStatus]]
    BY <2>5, <1>v, SetDaysType DEF Sweep, RaceTypeOK, TypeOK
  <2>8. TypeOK' /\ agreed' \subseteq Booking
    BY <2>2, <2>4, <2>5, <2>6, <2>7, <1>a DEF RaceTypeOK, TypeOK
  <2> QED BY <2>5, <2>8, <1>s, IdleType
<1>8. ASSUME NEW u \in User, BeginHeal(w, u) PROVE RaceTypeOK' /\ FlightOK'
  <2> DEFINE D == {d \in Date : slot[u][d] = "booked"}
             n == [Idle EXCEPT !.op = "heal", !.at = "bookings", !.user = u, !.days = D]
  <2>1. Serve(w, n) /\ UNCHANGED <<rows, slot, stage, disturbed, asked, tick, agreed>>
    BY <1>8 DEF BeginHeal
  <2>2. D \in SUBSET Date
    OBVIOUS
  <2> HIDE DEF D
  <2>3. n \in Request
    BY <2>2, IdleType DEF Idle, Request, At, Op
  <2>4. InFlight(n)
    BY DEF Idle, InFlight, OnBooking, Op
  <2> QED BY <2>1, <2>3, <2>4, <1>s, <1>t, <1>a
<1>9. CASE ReadBookings(w)
  <2> DEFINE stale == q.days \ TrueBooked(q.user)
             n == [q EXCEPT !.days = stale, !.at = "write"]
  <2>1. /\ q.at = "bookings" /\ Serve(w, IF stale = {} THEN Idle ELSE n)
        /\ UNCHANGED <<rows, slot, stage, disturbed, asked, tick, agreed>>
    BY <1>9 DEF ReadBookings
  <2>2. n \in Request
    BY <1>q DEF Request, At
  <2>3. InFlight(n)
    BY <2>1, <1>q DEF InFlight, OnBooking, Request
  <2> HIDE DEF n
  <2> QED BY <2>1, <2>2, <2>3, <1>s, <1>t, <1>a, IdleType
<1>10. CASE WriteHeal(w)
  <2>1. TypeOK'
    BY <1>10, <1>c, <1>v DEF WriteHeal, Sweep
  <2> QED BY <1>10, <2>1, <1>s, <1>a, IdleType DEF WriteHeal
<1>11. CASE Fail(w)
  BY <1>11, <1>s, <1>t, <1>a, IdleType DEF Fail
<1> QED BY <1>1, <1>2, <1>3, <1>4, <1>5, <1>6, <1>7, <1>8, <1>9, <1>10, <1>11 DEF WorkerStep

\* So does every step of the requests, the clock and the expiry job.
LEMMA FlightStep == RaceTypeOK /\ FlightOK /\ [RaceNext]_raceVars => RaceTypeOK' /\ FlightOK'
<1> SUFFICES ASSUME RaceTypeOK, FlightOK, [RaceNext]_raceVars PROVE RaceTypeOK' /\ FlightOK'
  OBVIOUS
<1>r. \A b \in Booking : /\ rows[b] \in Row /\ Expired(rows[b]) \in Row
                         /\ [rows[b] EXCEPT !.overdue = TRUE] \in Row
  <2> TAKE b \in Booking
  <2>1. rows[b] \in Row
    BY DEF RaceTypeOK, TypeOK
  <2>2. Expired(rows[b]) \in Row
    BY <2>1 DEF Row, Expired, Status
  <2>3. [rows[b] EXCEPT !.overdue = TRUE] \in Row
    BY <2>1 DEF Row
  <2> QED BY <2>1, <2>2, <2>3
<1>f. ASSUME UNCHANGED flight PROVE FlightOK' /\ flight' \in [Worker -> Request]
  BY <1>f DEF FlightOK, RaceTypeOK
<1>1. ASSUME NEW w \in Worker, WorkerStep(w) PROVE RaceTypeOK' /\ FlightOK'
  BY <1>1, WorkerFlight
<1>2. ASSUME NEW b \in Booking, ClockTick(b) PROVE RaceTypeOK' /\ FlightOK'
  BY <1>2, <1>r, <1>f DEF ClockTick, TimePasses, Put, RaceTypeOK, TypeOK
<1>3. CASE TickRead
  BY <1>3, <1>f DEF TickRead, RaceTypeOK, TypeOK
<1>4. CASE TickWrite
  <2>1. rows' \in [Booking -> Row]
    BY <1>4, <1>r DEF TickWrite
  <2> QED BY <1>4, <2>1, <1>f DEF TickWrite, RaceTypeOK, TypeOK
<1>5. CASE UNCHANGED raceVars
  BY <1>5, <1>f DEF raceVars, RaceTypeOK, TypeOK
<1> QED BY <1>1, <1>2, <1>3, <1>4, <1>5 DEF RaceNext

\* At the start nothing is in flight.
LEMMA FlightInit == RaceInit => RaceTypeOK /\ FlightOK
<1> SUFFICES ASSUME RaceInit PROVE RaceTypeOK /\ FlightOK
  OBVIOUS
<1>1. TypeOK
  BY DEF RaceInit, TypeOK, NoRow, Row, Status, SlotStatus, ProjectStatus
<1>2. flight \in [Worker -> Request] /\ \A w \in Worker : flight[w] = Idle
  BY IdleType DEF RaceInit
<1> QED BY <1>1, <1>2, IdleType DEF RaceInit, RaceTypeOK, FlightOK

\* Whatever requests overlap and die half-way, the tables stay well-formed, and so do
\* the requests in flight.
THEOREM RacesTyped == RaceSpec => []RaceTypeOK
BY FlightInit, FlightStep, PTL DEF RaceSpec

(***************************************************************************)
(* Consent.  ConsentGiven alone is not inductive: lock, a cancellation     *)
(* request and its refusal write their status over whatever the row holds  *)
(* by then, so it has to be known that they only ever began on a booking   *)
(* that had been accepted.  The job is right because a booking that was    *)
(* once accepted never reads as pending again.                             *)
(***************************************************************************)

\* A request that writes the status of an agreed booking is about one.
AgreedBefore(q) == q.op \in {"lock", "close", "ask", "agree", "refuse"} => q.booking \in agreed

\* An accepted booking never becomes a pending one, and its row stays.
NeverPendingAgain == \A b \in agreed : rows[b].status \notin {"absent", "pending"}

ConsentInv ==
  /\ RaceTypeOK /\ FlightOK /\ ConsentGiven /\ NeverPendingAgain
  /\ \A w \in Worker : AgreedBefore(flight[w])

\* A step that changes no status and starts no request preserves it.
LEMMA ConsentKept ==
  ASSUME ConsentInv, RaceTypeOK', FlightOK', agreed' = agreed,
         \A b \in Booking :
           \/ rows'[b].status = rows[b].status
           \/ rows[b].status = "absent" /\ rows'[b].status = "pending"
           \/ rows[b].status = "pending" /\ rows'[b].status = "expired",
         \A w \in Worker : AgreedBefore(flight[w])'
  PROVE  ConsentInv'
BY DEF ConsentInv, ConsentGiven, NeverPendingAgain, RaceTypeOK

\* The last write of a request.
LEMMA ConsentWrite ==
  ASSUME ConsentInv, RaceTypeOK', FlightOK', NEW w \in Worker, WriteRow(w)
  PROVE  ConsentInv'
<1> DEFINE q == flight[w]
           b == q.booking
<1>1. q \in Request /\ InFlight(q) /\ AgreedBefore(q)
  BY DEF ConsentInv, RaceTypeOK, FlightOK
<1>2. OnBooking(q) /\ b \in Booking
  BY <1>1 DEF WriteRow, OnBooking, InFlight, Request, Idle
<1>3. rows[b] \in Row
  BY <1>2 DEF ConsentInv, RaceTypeOK, TypeOK
<1>4. \A c \in Booking : rows'[c] = IF c = b THEN Written(q, rows[b]) ELSE rows[c]
  BY <1>2 DEF WriteRow, Put, ConsentInv, RaceTypeOK, TypeOK
<1>5. /\ agreed' = IF q.op = "accept" THEN agreed \cup {b} ELSE agreed
      /\ Serve(w, Idle)
  BY DEF WriteRow
<1>6. \A v \in Worker : AgreedBefore(flight[v])'
  <2>1. \A v \in Worker : flight'[v] = Idle \/ flight'[v] = flight[v]
    BY <1>5, ServeStep, IdleType DEF ConsentInv
  <2> QED BY <2>1, <1>5 DEF ConsentInv, AgreedBefore, Idle
<1>8. ASSUME rows'[b].status \in {"accepted", "locked", "cancel_requested"} => b \in agreed',
             b \in agreed' => rows'[b].status \notin {"absent", "pending"}
      PROVE  ConsentInv'
  <2>1. ConsentGiven'
    BY <1>4, <1>5, <1>8 DEF ConsentInv, ConsentGiven
  <2>2. NeverPendingAgain'
    BY <1>2, <1>4, <1>5, <1>8 DEF ConsentInv, NeverPendingAgain, RaceTypeOK
  <2> QED BY <2>1, <2>2, <1>6 DEF ConsentInv
<1>9. rows'[b] = Written(q, rows[b])
  BY <1>2, <1>4
<1> HIDE DEF b
<1>10. CASE q.op = "accept"
  <2>1. rows'[b].status = "accepted"
    BY <1>1, <1>2, <1>3, <1>9, <1>10, WrittenRow
  <2> QED BY <1>5, <1>8, <1>10, <2>1
<1>11. CASE q.op \in {"expire", "decline", "cancel"}
  <2>1. rows'[b].status \in {"declined", "expired", "cancelled"}
    BY <1>1, <1>2, <1>3, <1>9, <1>11, WrittenRow DEF Closed
  <2> QED BY <1>8, <2>1
<1>12. CASE q.op \in {"lock", "close", "ask", "agree", "refuse"}
  <2>1. b \in agreed /\ agreed' = agreed
    BY <1>1, <1>5, <1>12 DEF AgreedBefore, b
  <2>2. rows[b].status \notin {"absent", "pending"}
    BY <2>1 DEF ConsentInv, NeverPendingAgain
  <2>3. rows'[b].status \notin {"absent", "pending"}
    BY <2>2, <1>1, <1>2, <1>3, <1>9, <1>12, WrittenRow DEF Closed, Active
  <2> QED BY <1>8, <2>1, <2>3
<1> QED BY <1>2, <1>10, <1>11, <1>12 DEF OnBooking, Op

\* Every step preserves it.
LEMMA ConsentStep == ConsentInv /\ [RaceNext]_raceVars => ConsentInv'
<1> SUFFICES ASSUME ConsentInv, [RaceNext]_raceVars PROVE ConsentInv'
  OBVIOUS
<1>t. RaceTypeOK' /\ FlightOK'
  BY FlightStep DEF ConsentInv
<1>r. \A b \in Booking : rows[b] \in Row
  BY DEF ConsentInv, RaceTypeOK, TypeOK
<1>f. flight \in [Worker -> Request] /\ \A w \in Worker : AgreedBefore(flight[w])
  BY DEF ConsentInv, RaceTypeOK
\* a worker that reads, or gives up, serves the same booking as before or none
<1>q. ASSUME NEW w \in Worker, NEW n, Serve(w, n), UNCHANGED <<rows, agreed>>,
             \/ n.op = flight[w].op /\ n.booking = flight[w].booking
             \/ n.op \in {"none", "create", "heal"}
      PROVE  ConsentInv'
  <2>1. \A v \in Worker : flight'[v] = IF v = w THEN n ELSE flight[v]
    BY <1>q, <1>f DEF Serve
  <2>2. \A v \in Worker : AgreedBefore(flight[v])'
    BY <1>q, <1>f, <2>1 DEF AgreedBefore
  <2> QED BY <1>q, <1>t, <2>2, ConsentKept
<1>1. ASSUME NEW w \in Worker, WorkerStep(w) PROVE ConsentInv'
  <2> DEFINE q == flight[w]
  <2>q. q \in Request
    BY <1>f
  <2>1. ASSUME NEW op \in Op, NEW u \in User, NEW b \in Booking, Begin(w, op, u, b)
        PROVE  ConsentInv'
    <3> DEFINE n == [op |-> op, at |-> Next1(op, rows[b]), user |-> u, booking |-> b,
                     seen |-> rows[b], days |-> rows[b].dates]
    <3>1. Passes(op, rows[b], u) /\ Serve(w, n) /\ UNCHANGED <<rows, agreed>>
      BY <2>1 DEF Begin
    <3>2. op \in {"lock", "close", "ask", "agree", "refuse"} =>
            rows[b].status \in {"accepted", "locked", "cancel_requested"}
      BY <3>1 DEF Passes, MayLock, MayClose, MayAsk, MayRespond, Active
    <3>3. op \in {"lock", "close", "ask", "agree", "refuse"} => b \in agreed
      BY <3>2 DEF ConsentInv, ConsentGiven
    <3>4. \A v \in Worker : flight'[v] = IF v = w THEN n ELSE flight[v]
      BY <3>1, <1>f DEF Serve
    <3>5. \A v \in Worker : AgreedBefore(flight[v])'
      BY <1>f, <3>1, <3>3, <3>4 DEF AgreedBefore
    <3> QED BY <1>t, <3>1, <3>5, ConsentKept
  <2>2. ASSUME NEW u \in User, NEW p \in Project, NEW t \in Account,
               NEW i \in Item \cup {None}, NEW D \in (SUBSET Date) \ {{}},
               BeginCreate(w, u, p, t, i, D)
        PROVE  ConsentInv'
    BY <2>2, <1>q DEF BeginCreate, Idle
  <2>3. ASSUME NEW b \in Booking, Insert(w, b) PROVE ConsentInv'
    <3>1. /\ q.op = "create" /\ rows[b].status = "absent" /\ Serve(w, Idle)
          /\ rows' = [rows EXCEPT ![b] = q.seen] /\ agreed' = agreed
      BY <2>3 DEF Insert, Put
    <3>2. q.seen.status = "pending"
      BY <3>1, FreshType DEF ConsentInv, FlightOK, InFlight
    <3>3. \A c \in Booking : rows'[c] = IF c = b THEN q.seen ELSE rows[c]
      BY <3>1 DEF ConsentInv, RaceTypeOK, TypeOK
    <3>4. \A v \in Worker : AgreedBefore(flight[v])'
      BY <3>1, <1>f DEF Serve, AgreedBefore, Idle
    <3> QED BY <1>t, <3>1, <3>2, <3>3, <3>4, ConsentKept
  <2>4. CASE ReadSlots(w)
    <3>1. PICK to : Serve(w, [q EXCEPT !.at = to])
      BY <2>4 DEF ReadSlots, Goto, Serve
    <3> QED BY <3>1, <2>4, <2>q, <1>q DEF ReadSlots, Request
  <2>5. CASE ReadRivals(w)
    <3>1. Serve(w, Idle) \/ \E to : Serve(w, [q EXCEPT !.at = to])
      BY <2>5 DEF ReadRivals, Goto, Serve
    <3> QED BY <3>1, <2>5, <2>q, <1>q DEF ReadRivals, Request, Idle
  <2>6. ASSUME NEW d \in Date, WriteDay(w, d) PROVE ConsentInv'
    <3> DEFINE n == [q EXCEPT !.days = @ \ {d}, !.at = IF q.days = {d} THEN "write" ELSE "days"]
    <3>1. Serve(w, n) /\ UNCHANGED <<rows, agreed>>
      BY <2>6 DEF WriteDay
    <3>2. n.op = q.op /\ n.booking = q.booking
      BY <2>q DEF Request
    <3> HIDE DEF n
    <3> QED BY <3>1, <3>2, <1>q
  <2>7. CASE WriteRow(w)
    BY <2>7, <1>t, ConsentWrite
  <2>8. ASSUME NEW u \in User, BeginHeal(w, u) PROVE ConsentInv'
    BY <2>8, <1>q DEF BeginHeal, Idle
  <2>9. CASE ReadBookings(w)
    <3> DEFINE stale == q.days \ TrueBooked(q.user)
               n == [q EXCEPT !.days = stale, !.at = "write"]
    <3>1. Serve(w, IF stale = {} THEN Idle ELSE n) /\ UNCHANGED <<rows, agreed>>
      BY <2>9 DEF ReadBookings
    <3>2. n.op = q.op /\ n.booking = q.booking /\ Idle.op = "none"
      BY <2>q DEF Request, Idle
    <3> HIDE DEF n, stale
    <3> QED BY <3>1, <3>2, <1>q
  <2>10. CASE WriteHeal(w)
    BY <2>10, <1>q DEF WriteHeal, Idle
  <2>11. CASE Fail(w)
    BY <2>11, <1>q DEF Fail, Idle
  <2> QED BY <1>1, <2>1, <2>2, <2>3, <2>4, <2>5, <2>6, <2>7, <2>8, <2>9, <2>10, <2>11
         DEF WorkerStep
<1>u. ASSUME UNCHANGED <<flight, agreed>> PROVE \A w \in Worker : AgreedBefore(flight[w])'
  BY <1>u, <1>f DEF AgreedBefore
<1>2. ASSUME NEW b \in Booking, ClockTick(b) PROVE ConsentInv'
  <2>1. /\ \A c \in Booking : rows'[c] = IF c = b THEN [rows[b] EXCEPT !.overdue = TRUE]
                                         ELSE rows[c]
        /\ UNCHANGED <<flight, agreed>>
    BY <1>2 DEF ClockTick, TimePasses, Put, ConsentInv, RaceTypeOK, TypeOK
  <2>2. [rows[b] EXCEPT !.overdue = TRUE].status = rows[b].status
    BY <1>r DEF Row
  <2> QED BY <1>t, <1>u, <2>1, <2>2, ConsentKept
<1>3. CASE TickRead
  BY <1>3, <1>t, <1>u, ConsentKept DEF TickRead
<1>4. CASE TickWrite
  <2>1. \A b \in Booking : Expired(rows[b]).status = "expired"
    BY <1>r DEF Expired, Row
  <2> QED BY <1>4, <2>1, <1>t, <1>u, ConsentKept DEF TickWrite
<1>5. CASE UNCHANGED raceVars
  BY <1>5, <1>t, <1>u, ConsentKept DEF raceVars
<1> QED BY <1>1, <1>2, <1>3, <1>4, <1>5 DEF RaceNext

\* It holds at the start.
LEMMA ConsentInit == RaceInit => ConsentInv
BY FlightInit, IdleType
DEF RaceInit, ConsentInv, ConsentGiven, NeverPendingAgain, AgreedBefore, Idle, NoRow

\* Nobody is held to a booking without having accepted it, for any number of requests
\* in flight next to the expiry job.
THEOREM NobodyHeldUnasked == RaceSpec => []ConsentGiven
BY ConsentInit, ConsentStep, PTL DEF RaceSpec, ConsentInv

\* Requests have no part in what the job has read.
LEMMA TickUntouched == ASSUME NEW w \in Worker, WorkerStep(w) PROVE tick' = tick
<1>1. WriteRow(w) => tick' = tick
  BY DEF WriteRow
<1>2. ReadSlots(w) \/ ReadRivals(w) \/ ReadBookings(w) \/ WriteHeal(w) \/ Fail(w) => tick' = tick
  BY DEF ReadSlots, ReadRivals, ReadBookings, WriteHeal, Fail
<1>3. \A op \in Op, u \in User, b \in Booking : Begin(w, op, u, b) => tick' = tick
  BY DEF Begin
<1>4. \A b \in Booking : Insert(w, b) => tick' = tick
  BY DEF Insert
<1>5. \A u \in User : BeginHeal(w, u) => tick' = tick
  BY DEF BeginHeal
<1>6. \A d \in Date : WriteDay(w, d) => tick' = tick
  BY DEF WriteDay
<1>7. \A u \in User, p \in Project, t \in Account, i \in Item \cup {None},
         D \in (SUBSET Date) \ {{}} : BeginCreate(w, u, p, t, i, D) => tick' = tick
  BY DEF BeginCreate
<1> QED BY <1>1, <1>2, <1>3, <1>4, <1>5, <1>6, <1>7 DEF WorkerStep

\* The expiry job takes away no booking that was once accepted, however long the accept
\* and the job's own two queries overlap.
THEOREM JobTakesNothingBack == RaceSpec => JobSparesAnswered
<1>1. ConsentInv /\ [RaceNext]_raceVars =>
        \A b \in Booking : tick' # tick /\ rows'[b].status # rows[b].status => b \notin agreed
  <2> SUFFICES ASSUME ConsentInv, [RaceNext]_raceVars, NEW b \in Booking, tick' # tick,
                      rows'[b].status # rows[b].status
               PROVE  b \notin agreed
    OBVIOUS
  <2>1. \A w \in Worker : ~WorkerStep(w)
    BY TickUntouched
  <2>2. TickWrite
    BY <2>1 DEF RaceNext, ClockTick, TickRead, raceVars
  <2>3. rows[b].status = "pending"
    BY <2>2 DEF TickWrite
  <2> QED BY <2>3 DEF ConsentInv, NeverPendingAgain
<1> QED BY <1>1, ConsentInit, ConsentStep, PTL DEF RaceSpec, JobSparesAnswered

(***************************************************************************)
(* One request at a time.  With a single worker nothing but the clock and  *)
(* the expiry job touches a row between a request's read and its write.    *)
(* That is what the handlers rely on: accept's checks still hold when it   *)
(* writes, agreeing frees only days of its own booking, and reading a      *)
(* calendar writes back only days that no booking covers.  The requests    *)
(* may die at any await, and the calendar may then say more than the       *)
(* bookings, which is why only one direction of CalendarAgrees is left.    *)
(***************************************************************************)

\* What may have become of row r since a request read it: it came to be overdue, or
\* the job expired it.
StillSeen(r, s) ==
  \E o \in BOOLEAN :
    \/ s = [r EXCEPT !.overdue = o]
    \/ QueueEnabled /\ r.status = "pending" /\ s = [r EXCEPT !.overdue = o, !.status = "expired"]

\* There is room for row r: one more on each of its undisturbed days.
Room(r, table, given) ==
  \A x \in Resource, d \in r.dates :
    x = ResourceOf(r) /\ <<x, d>> \notin given
      => Cardinality(Users(table, x, d)) < Capacity(x)

\* What the only request in flight knows of the bookings, the calendars and the
\* disturbed days.
Current(q, table, calendar, given) ==
  /\ OnBooking(q) => StillSeen(q.seen, table[q.booking])
  /\ q.at = "slots" => q.seen.target \in Persons
  /\ q.op = "accept" /\ q.at \in {"days", "write"} => Room(q.seen, table, given)
  /\ q.op = "accept" /\ q.seen.target \in Persons =>
       /\ q.at = "write" => q.days = {}
       /\ \A d \in q.seen.dates \ q.days : calendar[q.seen.target][d] = "booked"
  /\ q.op = "agree" => q.days \subseteq q.seen.dates
  /\ q.op = "heal" /\ q.at = "write" =>
       \A d \in q.days, b \in Booking :
         ~(table[b].target = q.user /\ Active(table[b]) /\ d \in table[b].dates)

\* The inductive invariant for a single worker.
SerialInv ==
  /\ RaceTypeOK /\ FlightOK
  /\ CapacityRespected /\ ActiveDaysBooked /\ AskedDaysDisturbed
  /\ \A w \in Worker : Current(flight[w], rows, slot, disturbed)
  /\ tick # {} => QueueEnabled

\* The row a request read and the one it writes over are about the same.
LEMMA SeenRow ==
  ASSUME NEW r \in Row, NEW s, StillSeen(r, s)
  PROVE  /\ s \in Row
         /\ s.dates = r.dates /\ s.target = r.target /\ s.requester = r.requester
         /\ s.cancelledBy = r.cancelledBy /\ s.locked = r.locked /\ s.project = r.project
         /\ ResourceOf(s) = ResourceOf(r)
         /\ s.status # r.status => QueueEnabled /\ r.status = "pending" /\ s.status = "expired"
<1>1. PICK o \in BOOLEAN :
        \/ s = [r EXCEPT !.overdue = o]
        \/ QueueEnabled /\ r.status = "pending" /\ s = [r EXCEPT !.overdue = o, !.status = "expired"]
  BY Zenon DEF StillSeen
<1>2. CASE s = [r EXCEPT !.overdue = o]
  BY <1>2 DEF Row, ResourceOf
<1>3. CASE QueueEnabled /\ r.status = "pending" /\ s = [r EXCEPT !.overdue = o, !.status = "expired"]
  BY <1>3 DEF Row, ResourceOf, Status
<1> QED BY <1>1, <1>2, <1>3

\* In the next state, too, a person's day is covered exactly when some booking holds it.
LEMMA TrueBookedNext ==
  ASSUME TypeOK', NEW u \in Persons, NEW d \in Date
  PROVE  d \in TrueBooked(u)' <=> \E b \in Booking : Covers(rows'[b], u, d)
<1>1. u \in User /\ u \notin Item /\ u # None
  BY ItemAssumption, NoneAssumption DEF Persons, Account
<1>2. \A b \in Booking : rows'[b].item \in Item \cup {None}
  BY DEF TypeOK, Row
<1> QED BY <1>1, <1>2 DEF TrueBooked, Covers, ResourceOf

\* A step that adds no holder to an undisturbed day, and frees no slot of one that is
\* still held, preserves the two invariants.
LEMMA NothingAdded ==
  ASSUME TypeOK, CapacityRespected, ActiveDaysBooked, TypeOK', disturbed \subseteq disturbed',
         \A x \in Resource, d \in Date, b \in Booking :
           <<x, d>> \notin disturbed' /\ Covers(rows'[b], x, d) => Covers(rows[b], x, d),
         \A u \in Persons, d \in Date, b \in Booking :
           <<u, d>> \notin disturbed' /\ Covers(rows[b], u, d) /\ slot[u][d] = "booked"
             => slot'[u][d] = "booked"
  PROVE  CapacityRespected' /\ ActiveDaysBooked'
<1>1. CapacityRespected'
  <2> SUFFICES ASSUME NEW x \in Resource, NEW d \in Date, <<x, d>> \notin disturbed'
               PROVE  Cardinality(Users(rows', x, d)) <= Capacity(x)
    BY DEF CapacityRespected
  <2>1. Users(rows', x, d) \subseteq Users(rows, x, d)
    BY DEF Users, Covers
  <2>2. Cardinality(Users(rows, x, d)) <= Capacity(x)
    BY DEF CapacityRespected
  <2>3. IsFiniteSet(Users(rows, x, d)) /\ Cardinality(Users(rows, x, d)) \in Nat
    BY UsersFinite
  <2>4. /\ IsFiniteSet(Users(rows', x, d))
        /\ Cardinality(Users(rows', x, d)) <= Cardinality(Users(rows, x, d))
    BY <2>1, <2>3, FS_Subset
  <2>5. Cardinality(Users(rows', x, d)) \in Nat /\ Capacity(x) \in Nat
    BY <2>4, FS_CardinalityType, CapacityValue
  <2> QED BY <2>2, <2>3, <2>4, <2>5
<1>2. ActiveDaysBooked'
  <2> SUFFICES ASSUME NEW u \in Persons, NEW d \in Date, d \in TrueBooked(u)',
                      <<u, d>> \notin disturbed'
               PROVE  slot'[u][d] = "booked"
    BY Zenon DEF ActiveDaysBooked
  <2>1. PICK b \in Booking : Covers(rows'[b], u, d)
    BY TrueBookedNext
  <2>2. Covers(rows[b], u, d)
    BY <2>1 DEF Resource
  <2>3. slot[u][d] = "booked"
    BY <2>2, TrueBookedUsers DEF ActiveDaysBooked
  <2> QED BY <2>2, <2>3
<1> QED BY <1>1, <1>2

(***************************************************************************)
(* The last write of the request.                                          *)
(***************************************************************************)

\* accept: what its checks found is still so, and the days are marked.
LEMMA AcceptWrite ==
  ASSUME SerialInv, RaceTypeOK', NEW w \in Worker, WriteRow(w), flight[w].op = "accept"
  PROVE  CapacityRespected' /\ ActiveDaysBooked' /\ AskedDaysDisturbed'
<1> DEFINE q == flight[w]
           b == q.booking
           r == rows[b]
           y == ResourceOf(r)
<1>1. /\ q \in Request /\ InFlight(q) /\ Current(q, rows, slot, disturbed) /\ OnBooking(q) /\ b \in Booking
      /\ q.seen \in Row /\ q.at = "write"
  BY DEF SerialInv, RaceTypeOK, FlightOK, InFlight, OnBooking, Op, Request, WriteRow
<1>2. /\ r \in Row /\ r.dates = q.seen.dates /\ r.target = q.seen.target
      /\ y = ResourceOf(q.seen) /\ r.status \in {"pending", "expired"}
  <2>1. StillSeen(q.seen, r) /\ Room(q.seen, rows, disturbed)
    BY <1>1 DEF Current
  <2>2. q.seen.status = "pending"
    BY <1>1 DEF InFlight, Passes, MayAnswer
  <2> QED BY <1>1, <2>1, <2>2, SeenRow
<1>3. /\ \A c \in Booking : rows'[c] = IF c = b THEN Accepted(r) ELSE rows[c]
      /\ slot' = slot /\ disturbed' = disturbed
  BY <1>1 DEF WriteRow, Written, Put, SerialInv, RaceTypeOK, TypeOK
<1>4. /\ Accepted(r).status = "accepted" /\ Accepted(r).dates = r.dates
      /\ ResourceOf(Accepted(r)) = y
  BY <1>2 DEF Accepted, Row, ResourceOf
<1>5. \A x, d : b \notin Users(rows, x, d)
  BY <1>2 DEF Users, Active
<1>6. \A x, d : Users(rows', x, d) = IF x = y /\ d \in r.dates
                                    THEN Users(rows, x, d) \cup {b} ELSE Users(rows, x, d)
  BY <1>1, <1>3, <1>4, <1>5 DEF Users, Active
<1>7. CapacityRespected'
  <2> SUFFICES ASSUME NEW x \in Resource, NEW d \in Date, <<x, d>> \notin disturbed
               PROVE  Cardinality(Users(rows', x, d)) <= Capacity(x)
    BY <1>3 DEF CapacityRespected
  <2>1. CASE x = y /\ d \in r.dates
    <3>1. Cardinality(Users(rows, x, d)) < Capacity(x)
      BY <1>1, <1>2, <2>1 DEF Current, Room
    <3>2. Cardinality(Users(rows', x, d)) = Cardinality(Users(rows, x, d)) + 1
      BY <2>1, <1>5, <1>6, UsersFinite, FS_AddElement
    <3> QED BY <3>1, <3>2, UsersFinite, CapacityValue
  <2>2. CASE ~(x = y /\ d \in r.dates)
    BY <2>2, <1>6 DEF SerialInv, CapacityRespected
  <2> QED BY <2>1, <2>2
<1>8. ActiveDaysBooked'
  <2> SUFFICES ASSUME NEW u \in Persons, NEW d \in Date, d \in TrueBooked(u)',
                      <<u, d>> \notin disturbed
               PROVE  slot[u][d] = "booked"
    BY <1>3 DEF ActiveDaysBooked
  <2>1. PICK c \in Booking : Covers(rows'[c], u, d)
    BY TrueBookedNext DEF RaceTypeOK
  <2>2. CASE c = b
    <3>1. y = u /\ d \in r.dates
      BY <2>1, <2>2, <1>3, <1>4 DEF Covers
    <3>2. r.target = u
      BY <3>1, <1>2, ItemAssumption, NoneAssumption DEF ResourceOf, Row, Persons, Account
    <3> QED BY <3>1, <3>2, <1>1, <1>2 DEF Current
  <2>3. CASE c # b
    <3>1. Covers(rows[c], u, d)
      BY <2>1, <2>3, <1>3
    <3> QED BY <3>1, TrueBookedUsers DEF SerialInv, RaceTypeOK, ActiveDaysBooked
  <2> QED BY <2>2, <2>3
<1>9. AskedDaysDisturbed'
  BY <1>3, <1>4 DEF SerialInv, AskedDaysDisturbed
<1> QED BY <1>7, <1>8, <1>9

\* Every other handler adds no holder to an undisturbed day.
LEMMA OtherWrite ==
  ASSUME SerialInv, RaceTypeOK', NEW w \in Worker, WriteRow(w), flight[w].op # "accept"
  PROVE  CapacityRespected' /\ ActiveDaysBooked' /\ AskedDaysDisturbed'
<1> DEFINE q == flight[w]
           b == q.booking
           r == rows[b]
           s == Written(q, r)
<1>1. q \in Request /\ InFlight(q) /\ Current(q, rows, slot, disturbed)
  BY DEF SerialInv, RaceTypeOK, FlightOK
<1>2. OnBooking(q) /\ b \in Booking /\ q.seen \in Row
  BY <1>1 DEF WriteRow, OnBooking, InFlight, Request, Idle
<1>3. /\ r \in Row /\ r.dates = q.seen.dates /\ r.target = q.seen.target
      /\ ResourceOf(r) = ResourceOf(q.seen)
      /\ q.seen.status # "pending" => r.status = q.seen.status
  BY <1>1, <1>2, SeenRow DEF Current
<1>4. \A c \in Booking : rows'[c] = IF c = b THEN s ELSE rows[c]
  BY <1>2 DEF WriteRow, Put, SerialInv, RaceTypeOK, TypeOK
<1>5. /\ disturbed' = IF q.op \in {"ask", "close"}
                      THEN disturbed \cup Days(q.seen, r.dates) ELSE disturbed
      /\ slot' = IF q.op = "close" THEN Sweep(slot, q.seen.target, q.seen.dates, "past_work")
                 ELSE slot
  BY DEF WriteRow
<1>6. s.dates = r.dates /\ ResourceOf(s) = ResourceOf(r)
  BY <1>1, <1>2, <1>3, WrittenRow
<1>d. Days(q.seen, r.dates) = Days(r, r.dates) /\ Days(s, s.dates) = Days(r, r.dates)
  BY <1>3, <1>6 DEF Days
<1>7. \A x \in Resource, d \in Date :
        <<x, d>> \notin disturbed' /\ Covers(s, x, d) => Covers(r, x, d)
  <2>1. CASE q.op \in {"expire", "decline", "cancel", "agree", "ask"}
    <3>1. ~Active(s)
      BY <2>1, <1>1, <1>2, <1>3, WrittenRow DEF Closed, Active
    <3> QED BY <3>1 DEF Covers
  <2>2. CASE q.op \in {"lock", "close"}
    <3>1. Active(r)
      BY <2>2, <1>1, <1>2, <1>3 DEF InFlight, Passes, MayLock, MayClose, Active
    <3> QED BY <3>1, <1>6 DEF Covers
  <2>3. CASE q.op = "refuse"
    <3>1. r.status = "cancel_requested"
      BY <2>3, <1>1, <1>2, <1>3 DEF InFlight, Passes, MayRespond
    <3>2. Days(s, s.dates) \subseteq disturbed'
      BY <3>1, <2>3, <1>2, <1>5, <1>d DEF SerialInv, AskedDaysDisturbed
    <3> QED BY <3>2, DisturbedDays
  <2> QED BY <2>1, <2>2, <2>3, <1>2 DEF OnBooking, Op
<1>8. \A u \in Persons, d \in Date :
        <<u, d>> \notin disturbed' /\ slot[u][d] = "booked" => slot'[u][d] = "booked"
  <2> SUFFICES ASSUME NEW u \in Persons, NEW d \in Date, <<u, d>> \notin disturbed',
                      slot[u][d] = "booked", q.op = "close"
               PROVE  slot'[u][d] = "booked"
    BY <1>5
  <2>1. ~(r.target = u /\ d \in r.dates)
    BY <1>5, <1>d DEF Days, ResourceOf
  <2>2. u \in User /\ slot \in [User -> [Date -> SlotStatus]]
    BY DEF Persons, Account, SerialInv, RaceTypeOK, TypeOK
  <2> QED BY <2>1, <2>2, <1>3, <1>5 DEF Sweep, SetDays
<1>9. s.status = "cancel_requested" => Days(s, s.dates) \subseteq disturbed'
  <2>1. CASE q.op = "ask"
    BY <2>1, <1>5, <1>d
  <2>2. CASE q.op = "close"
    <3>1. Active(r) /\ s.status = r.status
      BY <2>2, <1>1, <1>2, <1>3, WrittenRow DEF InFlight, Passes, MayClose, Active
    <3> QED BY <3>1 DEF Active
  <2>3. CASE q.op \notin {"ask", "close"}
    BY <2>3, <1>1, <1>2, <1>3, WrittenRow DEF OnBooking, Op, Closed, Active
  <2> QED BY <2>1, <2>2, <2>3
<1> HIDE DEF s
<1>10. CapacityRespected' /\ ActiveDaysBooked'
  <2>1. \A x \in Resource, d \in Date, c \in Booking :
          <<x, d>> \notin disturbed' /\ Covers(rows'[c], x, d) => Covers(rows[c], x, d)
    BY <1>4, <1>7
  <2>2. disturbed \subseteq disturbed' /\ TypeOK /\ TypeOK' /\ CapacityRespected /\ ActiveDaysBooked
    BY <1>5 DEF SerialInv, RaceTypeOK
  <2> QED BY <2>1, <2>2, <1>8, NothingAdded
<1>11. AskedDaysDisturbed'
  BY <1>4, <1>5, <1>9 DEF SerialInv, AskedDaysDisturbed
<1> QED BY <1>10, <1>11

(***************************************************************************)
(* The steps of the only request, of the clock and of the job.             *)
(***************************************************************************)

\* Every await of the only request.
LEMMA SerialWorker ==
  ASSUME SerialInv, RaceTypeOK', FlightOK', NEW w, Worker = {w}, WorkerStep(w)
  PROVE  SerialInv'
<1> DEFINE q == flight[w]
<1>w. w \in Worker
  OBVIOUS
<1>q. q \in Request /\ InFlight(q) /\ Current(q, rows, slot, disturbed) /\ q.seen \in Row
  BY <1>w DEF SerialInv, RaceTypeOK, FlightOK, Request
<1>r. \A b \in Booking : rows[b] \in Row
  BY DEF SerialInv, RaceTypeOK, TypeOK
\* what is left to show of each step
<1>s. ASSUME NEW n, Serve(w, n), Current(n, rows', slot', disturbed'), UNCHANGED tick,
             CapacityRespected' /\ ActiveDaysBooked' /\ AskedDaysDisturbed'
      PROVE  SerialInv'
  <2>1. flight'[w] = n
    BY <1>s, <1>w DEF Serve, SerialInv, RaceTypeOK
  <2>2. Current(flight'[w], rows', slot', disturbed')
    BY <1>s, <2>1
  <2> QED BY <1>s, <2>2 DEF SerialInv
<1>i. ASSUME Serve(w, Idle), UNCHANGED tick,
             CapacityRespected' /\ ActiveDaysBooked' /\ AskedDaysDisturbed'
      PROVE  SerialInv'
  <2>1. Current(Idle, rows', slot', disturbed')
    BY DEF Current, Idle, OnBooking, Op
  <2> QED BY <1>i, <1>s, <2>1
<1>u. ASSUME UNCHANGED <<rows, slot, disturbed>>
      PROVE  CapacityRespected' /\ ActiveDaysBooked' /\ AskedDaysDisturbed'
  BY <1>u DEF SerialInv, CapacityRespected, ActiveDaysBooked, AskedDaysDisturbed, TrueBooked
<1>1. ASSUME NEW op \in Op, NEW u \in User, NEW b \in Booking, Begin(w, op, u, b)
      PROVE  SerialInv'
  <2> DEFINE n == [op |-> op, at |-> Next1(op, rows[b]), user |-> u, booking |-> b,
                   seen |-> rows[b], days |-> rows[b].dates]
  <2>1. /\ Passes(op, rows[b], u) /\ Serve(w, n)
        /\ UNCHANGED <<rows, slot, disturbed, tick>>
    BY <1>1 DEF Begin
  <2>2. op \notin {"create", "heal", "none"}
    BY <2>1 DEF Passes, Op
  <2>3. rows[b] = [rows[b] EXCEPT !.overdue = rows[b].overdue] /\ rows[b].overdue \in BOOLEAN
    BY <1>r DEF Row
  <2>4. StillSeen(rows[b], rows[b])
    BY <2>3, Zenon DEF StillSeen
  <2>6. /\ n.op = op /\ n.at = Next1(op, rows[b]) /\ n.booking = b
        /\ n.seen = rows[b] /\ n.days = rows[b].dates
    OBVIOUS
  <2> HIDE DEF n
  <2>5. Current(n, rows', slot', disturbed')
    BY <2>1, <2>2, <2>4, <2>6 DEF Current, Next1
  <2> QED BY <2>1, <2>5, <1>s, <1>u
<1>2. ASSUME NEW u \in User, NEW p \in Project, NEW t \in Account, NEW i \in Item \cup {None},
             NEW D \in (SUBSET Date) \ {{}}, BeginCreate(w, u, p, t, i, D)
      PROVE  SerialInv'
  <2> DEFINE n == [Idle EXCEPT !.op = "create", !.at = "write", !.user = u,
                               !.seen = NewRow(p, MainOf[u], t, i, D)]
  <2>1. Serve(w, n) /\ UNCHANGED <<rows, slot, disturbed, tick>>
    BY <1>2 DEF BeginCreate
  <2>2. Current(n, rows', slot', disturbed')
    BY DEF Current, Idle, OnBooking, Op
  <2> HIDE DEF n
  <2> QED BY <2>1, <2>2, <1>s, <1>u
<1>3. ASSUME NEW b \in Booking, Insert(w, b) PROVE SerialInv'
  <2>1. /\ q.op = "create" /\ Serve(w, Idle) /\ UNCHANGED <<slot, disturbed, tick>>
        /\ \A c \in Booking : rows'[c] = IF c = b THEN q.seen ELSE rows[c]
    BY <1>3 DEF Insert, Put, SerialInv, RaceTypeOK, TypeOK
  <2>2. q.seen.status = "pending"
    BY <2>1, <1>q, FreshType DEF InFlight
  <2>3. \A x, d : ~Covers(q.seen, x, d)
    BY <2>2 DEF Covers, Active
  <2>4. CapacityRespected' /\ ActiveDaysBooked'
    BY <2>1, <2>3, NothingAdded DEF SerialInv, RaceTypeOK
  <2>5. AskedDaysDisturbed'
    BY <2>1, <2>2 DEF SerialInv, AskedDaysDisturbed
  <2> QED BY <2>1, <2>4, <2>5, <1>i
<1>4. CASE ReadSlots(w)
  <2> DEFINE to == IF SlotTaken(slot, q.seen.target, q.days) THEN "rivals" ELSE "days"
             n == [q EXCEPT !.at = to]
             y == q.seen.target
  <2>1. q.at = "slots" /\ Serve(w, n) /\ UNCHANGED <<rows, slot, disturbed, tick>>
    BY <1>4 DEF ReadSlots, Goto, Serve
  <2>2. q.op = "accept" /\ q.days = q.seen.dates /\ y \in Persons
    BY <2>1, <1>q DEF InFlight, Current
  <2>3. ResourceOf(q.seen) = y /\ y \in Resource
    BY <2>2 DEF ResourceOf, Resource
  <2>4. ASSUME to = "days" PROVE Room(q.seen, rows, disturbed)
    <3>1. \A d \in q.days : slot[y][d] # "booked"
      BY <2>4 DEF SlotTaken
    <3> SUFFICES ASSUME NEW d \in q.days, <<y, d>> \notin disturbed
                 PROVE  Cardinality(Users(rows, y, d)) < Capacity(y)
      BY <2>2, <2>3 DEF Room
    <3>2. d \in Date
      BY <1>q DEF Request
    <3>3. d \notin TrueBooked(y)
      BY <3>1, <3>2, <2>2 DEF SerialInv, ActiveDaysBooked
    <3>4. Users(rows, y, d) = {}
      BY <3>2, <3>3, <2>2, TrueBookedUsers DEF SerialInv, RaceTypeOK
    <3> QED BY <3>4, <2>3, FS_EmptySet, CapacityValue
  <2>5. to \in {"rivals", "days"}
    OBVIOUS
  <2> HIDE DEF to
  <2>6. /\ n.at = to /\ n.op = q.op /\ n.seen = q.seen /\ n.days = q.days
        /\ n.booking = q.booking /\ n.user = q.user
    BY <1>q DEF Request
  <2> HIDE DEF n
  <2>7. Current(n, rows', slot', disturbed')
    BY <2>1, <2>2, <2>4, <2>5, <2>6, <1>q DEF Current, OnBooking
  <2> QED BY <2>1, <2>7, <1>s, <1>u
<1>5. CASE ReadRivals(w)
  <2>0. q.at = "rivals" /\ UNCHANGED <<rows, slot, disturbed, tick>>
    BY <1>5 DEF ReadRivals
  <2>1. CASE CapacityReached(rows, q.booking, q.days)
    BY <1>5, <2>0, <2>1, <1>i, <1>u DEF ReadRivals
  <2>2. CASE ~CapacityReached(rows, q.booking, q.days)
    <3> DEFINE to == IF q.seen.target \in Persons THEN "days" ELSE "write"
               n == [q EXCEPT !.at = to]
               b == q.booking
               y == ResourceOf(q.seen)
    <3>1. Serve(w, n)
      BY <1>5, <2>2 DEF ReadRivals, Goto, Serve
    <3>2. q.op = "accept" /\ q.days = q.seen.dates /\ OnBooking(q)
      BY <2>0, <1>q DEF InFlight, OnBooking, Op
    <3>3. b \in Booking /\ q.seen.status = "pending" /\ StillSeen(q.seen, rows[b])
      BY <3>2, <1>q DEF InFlight, Passes, MayAnswer, Current
    <3>4. ResourceOf(rows[b]) = y /\ rows[b].status \in {"pending", "expired"}
      BY <3>3, <1>q, SeenRow
    <3>5. Room(q.seen, rows, disturbed)
      <4> SUFFICES ASSUME y \in Resource, NEW d \in q.days, <<y, d>> \notin disturbed
                   PROVE  Cardinality(Users(rows, y, d)) < Capacity(y)
        BY <3>2 DEF Room
      <4>1. y # None
        BY NoneAssumption DEF Resource, Persons, Account
      <4>2. ~(Cardinality(Users(rows, y, d) \ {b}) >= Capacity(y))
        BY <2>2, <3>4, <4>1 DEF CapacityReached
      <4>3. Users(rows, y, d) \ {b} = Users(rows, y, d)
        BY <3>4 DEF Users, Active
      <4> QED BY <4>2, <4>3, UsersFinite, CapacityValue
    <3>6. to \in {"write", "days"} /\ (q.seen.target \in Persons => to = "days")
      OBVIOUS
    <3> HIDE DEF to
    <3>7. /\ n.at = to /\ n.op = q.op /\ n.seen = q.seen /\ n.days = q.days
          /\ n.booking = q.booking /\ n.user = q.user
      BY <1>q DEF Request
    <3> HIDE DEF n
    <3>8. Current(n, rows', slot', disturbed')
      BY <2>0, <3>2, <3>5, <3>6, <3>7, <1>q DEF Current, OnBooking
    <3> QED BY <2>0, <3>1, <3>8, <1>s, <1>u
  <2> QED BY <2>1, <2>2
<1>6. ASSUME NEW d \in Date, WriteDay(w, d) PROVE SerialInv'
  <2> DEFINE to == IF q.days = {d} THEN "write" ELSE "days"
             n == [q EXCEPT !.days = @ \ {d}, !.at = to]
             v == IF q.op = "accept" THEN "booked" ELSE "available"
             y == q.seen.target
  <2>1. q.at = "days" /\ Serve(w, n) /\ slot' = SetDays(slot, y, {d}, v)
        /\ UNCHANGED <<rows, disturbed, tick>> /\ d \in q.days
    BY <1>6 DEF WriteDay
  <2>2. q.op \in {"accept", "agree"} /\ OnBooking(q) /\ q.booking \in Booking
    BY <2>1, <1>q DEF InFlight, OnBooking, Op
  <2>3. slot \in [User -> [Date -> SlotStatus]]
    BY DEF SerialInv, RaceTypeOK, TypeOK
  <2>4. /\ q.op = "accept" => v = "booked"
        /\ to = "write" <=> q.days = {d}
        /\ to \in {"write", "days"}
    OBVIOUS
  <2>5. ASSUME NEW u \in Persons, NEW e \in Date, <<u, e>> \notin disturbed,
               slot[u][e] = "booked"
        PROVE  slot'[u][e] = "booked"
    <3>1. u \in User
      BY DEF Persons, Account
    <3>2. CASE q.op = "accept"
      BY <2>1, <2>3, <2>4, <2>5, <3>1, <3>2 DEF SetDays
    <3>3. CASE q.op = "agree"
      <4> DEFINE r == rows[q.booking]
      <4>1. /\ StillSeen(q.seen, r) /\ q.days \subseteq q.seen.dates
            /\ q.seen.status = "cancel_requested"
        BY <2>2, <3>3, <1>q DEF Current, InFlight, Passes, MayRespond
      <4>2. r.status = "cancel_requested" /\ r.dates = q.seen.dates /\ r.target = y
        BY <4>1, <1>q, SeenRow
      <4>3. Days(r, r.dates) \subseteq disturbed
        BY <4>2, <2>2 DEF SerialInv, AskedDaysDisturbed
      <4>4. ~(u = y /\ e = d)
        BY <4>1, <4>2, <4>3, <2>1, <2>5 DEF Days, ResourceOf
      <4> QED BY <2>1, <2>3, <2>5, <3>1, <4>4 DEF SetDays
    <3> QED BY <2>2, <3>2, <3>3
  <2>6. CapacityRespected' /\ ActiveDaysBooked'
    BY <2>1, <2>5, NothingAdded DEF SerialInv, RaceTypeOK
  <2>7. AskedDaysDisturbed'
    BY <2>1 DEF SerialInv, AskedDaysDisturbed
  <2>8. ASSUME y \in Persons, q.op = "accept"
        PROVE  \A e \in q.seen.dates \ (q.days \ {d}) : slot'[y][e] = "booked"
    <3> SUFFICES ASSUME NEW e \in q.seen.dates \ (q.days \ {d}) PROVE slot'[y][e] = "booked"
      OBVIOUS
    <3>1. y \in User /\ e \in Date
      BY <2>8, <1>q DEF Persons, Account, Row
    <3>2. e # d => slot[y][e] = "booked"
      BY <2>8, <1>q DEF Current
    <3> QED BY <2>1, <2>3, <2>4, <2>8, <3>1, <3>2 DEF SetDays
  <2> HIDE DEF to, v
  <2>9. /\ n.at = to /\ n.op = q.op /\ n.seen = q.seen /\ n.days = q.days \ {d}
        /\ n.booking = q.booking /\ n.user = q.user
    BY <1>q DEF Request
  <2> HIDE DEF n
  <2>10. StillSeen(n.seen, rows'[n.booking])
    BY <2>1, <2>2, <2>9, <1>q DEF Current
  <2>11. q.op = "accept" => Room(q.seen, rows', disturbed')
    BY <2>1, <1>q DEF Current, Room
  <2>12. Current(n, rows', slot', disturbed')
    BY <2>1, <2>2, <2>4, <2>8, <2>9, <2>10, <2>11, <1>q DEF Current
  <2> QED BY <2>1, <2>6, <2>7, <2>12, <1>s
<1>7. CASE WriteRow(w)
  <2>1. CapacityRespected' /\ ActiveDaysBooked' /\ AskedDaysDisturbed'
    BY <1>7, <1>w, AcceptWrite, OtherWrite
  <2> QED BY <1>7, <2>1, <1>i DEF WriteRow
<1>8. ASSUME NEW u \in User, BeginHeal(w, u) PROVE SerialInv'
  <2> DEFINE n == [Idle EXCEPT !.op = "heal", !.at = "bookings", !.user = u,
                               !.days = {d \in Date : slot[u][d] = "booked"}]
  <2>1. Serve(w, n) /\ UNCHANGED <<rows, slot, disturbed, tick>>
    BY <1>8 DEF BeginHeal
  <2>2. Current(n, rows', slot', disturbed')
    BY DEF Current, Idle, OnBooking, Op
  <2> HIDE DEF n
  <2> QED BY <2>1, <2>2, <1>s, <1>u
<1>9. CASE ReadBookings(w)
  <2> DEFINE stale == q.days \ TrueBooked(q.user)
             n == [q EXCEPT !.days = stale, !.at = "write"]
  <2>1. /\ q.at = "bookings" /\ Serve(w, IF stale = {} THEN Idle ELSE n)
        /\ UNCHANGED <<rows, slot, disturbed, tick>>
    BY <1>9 DEF ReadBookings
  <2>2. q.op = "heal"
    BY <2>1, <1>q DEF InFlight
  <2>3. /\ n.at = "write" /\ n.op = "heal" /\ n.days = stale /\ n.user = q.user
    BY <2>2, <1>q DEF Request
  <2>5. ASSUME Serve(w, n) PROVE SerialInv'
    <3> HIDE DEF n
    <3>1. Current(n, rows', slot', disturbed')
      BY <2>1, <2>2, <2>3, <1>q DEF Current, OnBooking, TrueBooked, InFlight, Request
    <3> QED BY <2>1, <2>5, <3>1, <1>s, <1>u
  <2> QED BY <2>1, <2>5, <1>i, <1>u
<1>10. CASE WriteHeal(w)
  <2>1. /\ q.op = "heal" /\ q.at = "write" /\ Serve(w, Idle)
        /\ slot' = Sweep(slot, q.user, q.days, "available")
        /\ UNCHANGED <<rows, disturbed, tick>>
    BY <1>10 DEF WriteHeal
  <2>2. q.days \cap TrueBooked(q.user) = {}
    BY <2>1, <1>q DEF Current, TrueBooked
  <2>3. ASSUME NEW u \in Persons, NEW d \in Date, NEW b \in Booking, Covers(rows[b], u, d),
               slot[u][d] = "booked"
        PROVE  slot'[u][d] = "booked"
    <3>1. d \in TrueBooked(u)
      BY <2>3, TrueBookedUsers DEF SerialInv, RaceTypeOK
    <3>2. u \in User /\ slot \in [User -> [Date -> SlotStatus]]
      BY DEF Persons, Account, SerialInv, RaceTypeOK, TypeOK
    <3> QED BY <2>1, <2>2, <2>3, <3>1, <3>2 DEF Sweep, SetDays
  <2>4. CapacityRespected' /\ ActiveDaysBooked'
    BY <2>1, <2>3, NothingAdded DEF SerialInv, RaceTypeOK
  <2>5. AskedDaysDisturbed'
    BY <2>1 DEF SerialInv, AskedDaysDisturbed
  <2> QED BY <2>1, <2>4, <2>5, <1>i
<1>11. CASE Fail(w)
  BY <1>11, <1>i, <1>u DEF Fail
<1> QED BY <1>1, <1>2, <1>3, <1>4, <1>5, <1>6, <1>7, <1>8, <1>9, <1>10, <1>11 DEF WorkerStep

\* What the clock and the job do to a pending row between two steps of the request.
Aged(r, s) ==
  \/ s = r
  \/ r.status = "pending" /\ s = [r EXCEPT !.overdue = TRUE]
  \/ r.status = "pending" /\ QueueEnabled /\ s = Expired(r)

\* It changes nothing of what the request relies on.
LEMMA AgedRow ==
  ASSUME NEW r \in Row, NEW s, Aged(r, s)
  PROVE  /\ \A x, d : Covers(s, x, d) <=> Covers(r, x, d)
         /\ \A u : s.target = u /\ Active(s) <=> r.target = u /\ Active(r)
         /\ s.dates = r.dates
         /\ s.status = "cancel_requested" <=> r.status = "cancel_requested"
         /\ Days(s, s.dates) = Days(r, r.dates)
         /\ \A o \in Row : StillSeen(o, r) => StillSeen(o, s)
<1>1. CASE s = r
  BY <1>1
<1>2. CASE r.status = "pending" /\ s = [r EXCEPT !.overdue = TRUE]
  <2>1. s.status = "pending" /\ s.target = r.target /\ s.item = r.item /\ s.dates = r.dates
    BY <1>2 DEF Row
  <2>2. ResourceOf(s) = ResourceOf(r)
    BY <2>1 DEF ResourceOf
  <2>3. ASSUME NEW o \in Row, StillSeen(o, r) PROVE StillSeen(o, s)
    <3>1. PICK v \in BOOLEAN :
            \/ r = [o EXCEPT !.overdue = v]
            \/ QueueEnabled /\ o.status = "pending" /\ r = [o EXCEPT !.overdue = v, !.status = "expired"]
      BY <2>3, Zenon DEF StillSeen
    <3>2. r = [o EXCEPT !.overdue = v]
      BY <3>1, <1>2 DEF Row
    <3>3. s = [o EXCEPT !.overdue = TRUE]
      BY <3>2, <1>2 DEF Row
    <3> QED BY <3>3, Zenon DEF StillSeen
  <2> QED BY <1>2, <2>1, <2>2, <2>3 DEF Covers, Active, Days
<1>3. CASE r.status = "pending" /\ QueueEnabled /\ s = Expired(r)
  <2>1. s.status = "expired" /\ s.target = r.target /\ s.item = r.item /\ s.dates = r.dates
    BY <1>3 DEF Row, Expired
  <2>2. ResourceOf(s) = ResourceOf(r)
    BY <2>1 DEF ResourceOf
  <2>3. ASSUME NEW o \in Row, StillSeen(o, r) PROVE StillSeen(o, s)
    <3>1. PICK v \in BOOLEAN :
            \/ r = [o EXCEPT !.overdue = v]
            \/ QueueEnabled /\ o.status = "pending" /\ r = [o EXCEPT !.overdue = v, !.status = "expired"]
      BY <2>3, Zenon DEF StillSeen
    <3>2. r = [o EXCEPT !.overdue = v]
      BY <3>1, <1>3 DEF Row
    <3>3. o.status = "pending" /\ s = [o EXCEPT !.overdue = v, !.status = "expired"]
      BY <3>2, <1>3 DEF Row, Expired
    <3> QED BY <3>3, <1>3, Zenon DEF StillSeen
  <2> QED BY <1>3, <2>1, <2>2, <2>3 DEF Covers, Active, Days
<1> QED BY <1>1, <1>2, <1>3 DEF Aged

\* A step of the clock or the job preserves the invariant.
LEMMA SerialAged ==
  ASSUME SerialInv, RaceTypeOK', FlightOK', UNCHANGED <<slot, disturbed, flight>>,
         tick' # {} => QueueEnabled, \A b \in Booking : Aged(rows[b], rows'[b])
  PROVE  SerialInv'
<1>r. \A b \in Booking : rows[b] \in Row
  BY DEF SerialInv, RaceTypeOK, TypeOK
<1>1. CapacityRespected' /\ ActiveDaysBooked'
  BY <1>r, AgedRow, NothingAdded DEF SerialInv, RaceTypeOK
<1>2. AskedDaysDisturbed'
  BY <1>r, AgedRow DEF SerialInv, AskedDaysDisturbed
<1>3. ASSUME NEW w \in Worker PROVE Current(flight'[w], rows', slot', disturbed')
  <2> DEFINE q == flight[w]
  <2>1. /\ Current(q, rows, slot, disturbed) /\ InFlight(q) /\ q \in Request
        /\ q.seen \in Row
    BY DEF SerialInv, RaceTypeOK, FlightOK, Request
  <2>2. OnBooking(q) => StillSeen(q.seen, rows'[q.booking])
    BY <2>1, <1>r, AgedRow DEF Current, InFlight
  <2>3. \A x, d : Users(rows', x, d) = Users(rows, x, d)
    <3>1. \A x, d : \A b \in Booking : Covers(rows'[b], x, d) <=> Covers(rows[b], x, d)
      BY <1>r, AgedRow
    <3> QED BY <3>1 DEF Users, Covers
  <2>4. Room(q.seen, rows, disturbed) => Room(q.seen, rows', disturbed')
    BY <2>3 DEF Room
  <2>5. \A u, d : \A b \in Booking :
          rows'[b].target = u /\ Active(rows'[b]) /\ d \in rows'[b].dates
            => rows[b].target = u /\ Active(rows[b]) /\ d \in rows[b].dates
    BY <1>r, AgedRow
  <2> QED BY <2>1, <2>2, <2>4, <2>5 DEF Current
<1> QED BY <1>1, <1>2, <1>3 DEF SerialInv

\* Every step preserves the invariant of a single worker.
LEMMA SerialStep ==
  ASSUME NEW w, Worker = {w}
  PROVE  SerialInv /\ [RaceNext]_raceVars => SerialInv'
<1> SUFFICES ASSUME SerialInv, [RaceNext]_raceVars PROVE SerialInv'
  OBVIOUS
<1>t. RaceTypeOK' /\ FlightOK'
  BY FlightStep DEF SerialInv
<1>s. \A r : Aged(r, r)
  BY DEF Aged
<1>1. ASSUME NEW v \in Worker, WorkerStep(v) PROVE SerialInv'
  BY <1>1, <1>t, SerialWorker
<1>2. ASSUME NEW b \in Booking, ClockTick(b) PROVE SerialInv'
  <2>1. \A c \in Booking : Aged(rows[c], rows'[c])
    BY <1>2, <1>s DEF ClockTick, TimePasses, Put, Aged, SerialInv, RaceTypeOK, TypeOK
  <2> QED BY <1>2, <1>t, <2>1, SerialAged DEF ClockTick, TimePasses, SerialInv
<1>3. CASE TickRead
  BY <1>3, <1>t, <1>s, SerialAged DEF TickRead
<1>4. CASE TickWrite
  <2>1. \A c \in Booking : Aged(rows[c], rows'[c])
    BY <1>4, <1>s DEF TickWrite, Aged, SerialInv
  <2> QED BY <1>4, <1>t, <2>1, SerialAged DEF TickWrite
<1>5. CASE UNCHANGED raceVars
  BY <1>5, <1>t, <1>s, SerialAged DEF raceVars, SerialInv
<1> QED BY <1>1, <1>2, <1>3, <1>4, <1>5 DEF RaceNext

\* It holds at the start.
LEMMA SerialInit == RaceInit => SerialInv
<1> SUFFICES ASSUME RaceInit PROVE SerialInv
  OBVIOUS
<1>1. \A x, d : Users(rows, x, d) = {}
  BY DEF RaceInit, Users, Active, NoRow
<1>2. CapacityRespected
  BY <1>1, FS_EmptySet, CapacityValue DEF CapacityRespected
<1>3. ActiveDaysBooked /\ AskedDaysDisturbed
  BY DEF RaceInit, ActiveDaysBooked, AskedDaysDisturbed, TrueBooked, Active, NoRow
<1>4. \A w \in Worker : Current(flight[w], rows, slot, disturbed)
  BY DEF RaceInit, Current, Idle, OnBooking, Op
<1> QED BY <1>2, <1>3, <1>4, FlightInit DEF RaceInit, SerialInv

\* One request at a time, each taking its own time and dying where it may, keeps every
\* undisturbed day within its capacity, the expiry job running or not.
THEOREM SerialCapacity ==
  ASSUME NEW w, Worker = {w}
  PROVE  RaceSpec => []CapacityRespected
BY SerialInit, SerialStep, PTL DEF RaceSpec, SerialInv

\* One request at a time never leaves an undisturbed day of a person's accepted or
\* locked booking unmarked, whatever died half-way before.
THEOREM SerialDays ==
  ASSUME NEW w, Worker = {w}
  PROVE  RaceSpec => []ActiveDaysBooked
BY SerialInit, SerialStep, PTL DEF RaceSpec, SerialInv

(***************************************************************************)
(* One request at a time and no expiry job: the write of a request is a    *)
(* step of the serial engine on its row, so the lifecycle is kept.  With   *)
(* the job it is not: accept may write over a request the job has expired. *)
(***************************************************************************)

\* Without the job, the write of the only request follows from the checks it made.
LEMMA SerialRowStep ==
  ASSUME SerialInv, ~QueueEnabled, NEW w, Worker = {w}, [RaceNext]_raceVars
  PROVE  \A b \in Booking : RowStep(rows[b], rows'[b])
<1> DEFINE Goal == \A b \in Booking : RowStep(rows[b], rows'[b])
<1>s. \A r : RowStep(r, r)
  BY DEF RowStep
<1>u. ASSUME UNCHANGED rows PROVE Goal
  BY <1>u, <1>s
<1>p. ASSUME NEW b \in Booking, NEW s, Put(b, s), RowStep(rows[b], s) PROVE Goal
  BY <1>p, <1>s DEF Put, SerialInv, RaceTypeOK, TypeOK
<1> HIDE DEF Goal
<1>1. ASSUME NEW v \in Worker, WorkerStep(v) PROVE Goal
  <2> DEFINE q == flight[v]
  <2>q. q \in Request /\ InFlight(q) /\ Current(q, rows, slot, disturbed) /\ q.seen \in Row
    BY DEF SerialInv, RaceTypeOK, FlightOK, Request
  <2>1. ASSUME NEW b \in Booking, Insert(v, b) PROVE Goal
    <3>1. q.op = "create" /\ rows[b].status = "absent" /\ Put(b, q.seen)
      BY <2>1 DEF Insert
    <3>2. Fresh(q.seen)
      BY <3>1, <2>q DEF InFlight
    <3>3. RowStep(rows[b], q.seen)
      BY <3>1, <3>2 DEF RowStep, Fresh
    <3> QED BY <3>1, <3>3, <1>p
  <2>2. CASE WriteRow(v)
    <3> DEFINE b == q.booking
               r == rows[b]
               o == q.seen
    <3>1. OnBooking(q) /\ b \in Booking /\ q.user \in User /\ Passes(q.op, o, q.user)
      BY <2>2, <2>q DEF WriteRow, OnBooking, InFlight, Request, Idle
    <3>2. /\ r \in Row /\ r.status = o.status /\ r.dates = o.dates /\ r.target = o.target
          /\ r.requester = o.requester /\ r.cancelledBy = o.cancelledBy /\ r.locked = o.locked
          /\ r.project = o.project
      BY <3>1, <2>q, SeenRow DEF Current
    <3>3. Put(b, Written(q, r))
      BY <2>2 DEF WriteRow
    <3> HIDE DEF r, o
    <3>4. KeptOr(r, None) = r.dates /\ r.dates \in SUBSET Date
      BY <3>2 DEF KeptOr, Row
    <3>5. CASE q.op \in {"accept", "expire", "decline", "cancel"}
      <4>1. r.status = "pending"
        BY <3>1, <3>2, <3>5 DEF Passes, MayAnswer, MayWithdraw
      <4>2. Written(q, r) \in {Accepted(r), Expired(r), Declined(r), Cancelled(r, q.user)}
        BY <3>5 DEF Written
      <4> QED BY <4>1, <4>2, <3>1, <3>3, <1>p DEF RowStep, r
    <3>6. CASE q.op = "lock"
      <4>1. r.status = "accepted" /\ Written(q, r) = Locked(r, r.dates)
        BY <3>1, <3>2, <3>4, <3>6 DEF Passes, MayLock, Written
      <4> QED BY <4>1, <3>1, <3>3, <3>4, <1>p DEF RowStep, r
    <3>7. CASE q.op = "close"
      <4>1. Written(q, r) = [r EXCEPT !.doneByTarget = TRUE]
        BY <3>7 DEF Written
      <4> QED BY <4>1, <3>1, <3>3, <1>p DEF RowStep, r
    <3>8. CASE q.op = "ask"
      <4>1. Active(r) /\ Written(q, r) = CancelAsked(r, q.user)
        BY <3>1, <3>2, <3>8 DEF Passes, MayAsk, Active, Written
      <4> QED BY <4>1, <3>1, <3>3, <1>p DEF RowStep, r
    <3>9. CASE q.op \in {"agree", "refuse"}
      <4>1. MayRespond(r, q.user)
        BY <3>1, <3>2, <3>9 DEF Passes, MayRespond, AskedByTarget, RequesterSide, TargetSide
      <4>2. Written(q, r) \in {Cancelled(r, q.user), CancelDenied(r, r.locked)}
        BY <3>2, <3>9 DEF Written, o
      <4> QED BY <4>1, <4>2, <3>1, <3>3, <1>p DEF RowStep, r
    <3> QED BY <3>1, <3>5, <3>6, <3>7, <3>8, <3>9 DEF OnBooking, Op
  <2>4. \/ \E b \in Booking : Insert(v, b)
        \/ WriteRow(v)
        \/ UNCHANGED rows
    <3>1. \A op \in Op, u \in User, b \in Booking : Begin(v, op, u, b) => UNCHANGED rows
      BY DEF Begin
    <3>2. \A u \in User, p \in Project, t \in Account, i \in Item \cup {None},
             D \in (SUBSET Date) \ {{}} : BeginCreate(v, u, p, t, i, D) => UNCHANGED rows
      BY DEF BeginCreate
    <3>3. \A d \in Date : WriteDay(v, d) => UNCHANGED rows
      BY DEF WriteDay
    <3>4. \A u \in User : BeginHeal(v, u) => UNCHANGED rows
      BY DEF BeginHeal
    <3>5. ReadSlots(v) \/ ReadRivals(v) \/ ReadBookings(v) \/ WriteHeal(v) \/ Fail(v) => UNCHANGED rows
      BY DEF ReadSlots, ReadRivals, ReadBookings, WriteHeal, Fail
    <3> QED BY <1>1, <3>1, <3>2, <3>3, <3>4, <3>5 DEF WorkerStep
  <2> QED BY <2>1, <2>2, <2>4, <1>u
<1>2. ASSUME NEW b \in Booking, ClockTick(b) PROVE Goal
  <2>1. RowStep(rows[b], [rows[b] EXCEPT !.overdue = TRUE])
    BY DEF RowStep
  <2> QED BY <1>2, <2>1, <1>p DEF ClockTick, TimePasses
<1>3. ASSUME TickRead PROVE Goal
  BY <1>3, <1>u DEF TickRead
<1>4. ASSUME TickWrite PROVE Goal
  BY <1>4 DEF TickWrite, SerialInv
<1>5. ASSUME UNCHANGED raceVars PROVE Goal
  BY <1>5, <1>u DEF raceVars
<1>6. Goal
  BY <1>1, <1>2, <1>3, <1>4, <1>5 DEF RaceNext
<1> QED BY <1>6 DEF Goal

\* One request at a time with the expiry job switched off implements the promised
\* lifecycle, though every handler writes over its row without looking again.
THEOREM SerialLifecycle ==
  ASSUME NEW w, Worker = {w}, ~QueueEnabled
  PROVE  RaceSpec => LifecycleSpec
<1>1. RaceInit => Lifecycle!Init /\ StampsAgree
  BY DEF RaceInit, NoRow, Lifecycle!Init, StampsAgree, StampAgrees
<1>2. SerialInv /\ StampsAgree /\ [RaceNext]_raceVars => Lifecycle!Next /\ StampsAgree'
  <2> SUFFICES ASSUME SerialInv, StampsAgree, [RaceNext]_raceVars
               PROVE  Lifecycle!Next /\ StampsAgree'
    OBVIOUS
  <2>1. \A b \in Booking : Follows(rows[b], rows'[b]) /\ StampAgrees(rows'[b])
    BY SerialRowStep, RowFollows DEF SerialInv, RaceTypeOK, TypeOK, StampsAgree
  <2>2. \A b \in Booking : PointOf(rows'[b]) \in Lifecycle!Point
    BY FlightStep, PointType DEF SerialInv, RaceTypeOK, TypeOK
  <2>3. Lifecycle!Next
    BY <2>1, <2>2 DEF Lifecycle!Next, Lifecycle!Move, Follows, PointOf
  <2> QED BY <2>1, <2>3 DEF StampsAgree
<1> QED BY <1>1, <1>2, SerialInit, SerialStep, PTL DEF RaceSpec, LifecycleSpec, Lifecycle!Spec

(***************************************************************************)
(* Any number of requests.  accept counts the rivals of an item before it  *)
(* writes, so two requests may both find the last unit free.  How far the  *)
(* count can be off is bounded: the bookings that hold an undisturbed day, *)
(* together with those a request in flight may still write so, never       *)
(* exceed the capacity by as much as there are workers.  A request joins   *)
(* that set only by counting, and at that moment everything it did not     *)
(* count belongs to a request in flight.  For a person there is no such    *)
(* bound: accept may rely on free slots alone, and the write-back of a     *)
(* calendar can free the slots of a booking whose row is not written yet.  *)
(***************************************************************************)

\* A booking that row r holds is about the same in row s.
Stays(r, s) == Exists(r) => Exists(s) /\ ResourceOf(s) = ResourceOf(r) /\ s.dates = r.dates

\* Request q may yet write that booking b holds a unit of item x on day d, without
\* counting again.  Refusing a cancellation may do so on disturbed days only.
MayTake(q, b, x, d) ==
  /\ q.booking = b /\ ResourceOf(q.seen) = x /\ d \in q.seen.dates
  /\ q.op = "lock" \/ (q.op = "accept" /\ q.at = "write")

\* The bookings that hold item x on day d or may yet come to.
Claimed(x, d) ==
  {b \in Booking : Covers(rows[b], x, d) \/ \E w \in Worker : MayTake(flight[w], b, x, d)}

\* What a request knows of the rows while others write them.
Known(q, table, given) ==
  /\ OnBooking(q) => Exists(table[q.booking]) /\ Stays(q.seen, table[q.booking]) /\ Exists(q.seen)
  /\ q.op = "accept" /\ q.at \in {"slots", "days"} => q.seen.target \in Persons
  /\ q.op = "refuse" => Days(q.seen, q.seen.dates) \subseteq given

\* The inductive invariant.
OverlapInv ==
  /\ RaceTypeOK /\ FlightOK /\ AskedDaysDisturbed
  /\ \A w \in Worker : Known(flight[w], rows, disturbed)
  /\ \A x \in Item, d \in Date :
       <<x, d>> \notin disturbed => Cardinality(Claimed(x, d)) < Capacity(x) + Cardinality(Worker)

\* Claims are finitely many, and so are the workers.
LEMMA ClaimsFinite ==
  ASSUME NEW x, NEW d
  PROVE  /\ IsFiniteSet(Claimed(x, d)) /\ Cardinality(Claimed(x, d)) \in Nat
         /\ Cardinality(Worker) \in Nat
<1>1. Claimed(x, d) \subseteq Booking
  BY DEF Claimed
<1>2. IsFiniteSet(Claimed(x, d))
  BY <1>1, FS_Subset, FiniteAssumption
<1> QED BY <1>2, WorkerAssumption, FS_CardinalityType

\* A step that adds no claim on an undisturbed day preserves the invariant.
LEMMA NoNewClaim ==
  ASSUME OverlapInv, RaceTypeOK', FlightOK', AskedDaysDisturbed',
         disturbed \subseteq disturbed',
         \A w \in Worker : Known(flight'[w], rows', disturbed'),
         \A x \in Item, d \in Date :
           <<x, d>> \notin disturbed' => Claimed(x, d)' \subseteq Claimed(x, d)
  PROVE  OverlapInv'
<1>1. ASSUME NEW x \in Item, NEW d \in Date, <<x, d>> \notin disturbed'
      PROVE  Cardinality(Claimed(x, d)') < Capacity(x) + Cardinality(Worker)
  <2>1. Cardinality(Claimed(x, d)) < Capacity(x) + Cardinality(Worker)
    BY <1>1 DEF OverlapInv
  <2>2. Claimed(x, d)' \subseteq Claimed(x, d)
    BY <1>1
  <2>3. /\ IsFiniteSet(Claimed(x, d)')
        /\ Cardinality(Claimed(x, d)') <= Cardinality(Claimed(x, d))
    BY <2>2, ClaimsFinite, FS_Subset
  <2>4. Cardinality(Claimed(x, d)') \in Nat
    BY <2>3, FS_CardinalityType
  <2>5. x \in Resource
    BY DEF Resource
  <2> QED BY <2>1, <2>3, <2>4, <2>5, ClaimsFinite, CapacityValue
<1> QED BY <1>1 DEF OverlapInv

\* A step of one worker that leaves every booking about what it was about and claims
\* nothing it did not claim before.
LEMMA OverlapServe ==
  ASSUME OverlapInv, RaceTypeOK', FlightOK', AskedDaysDisturbed',
         disturbed \subseteq disturbed',
         NEW w \in Worker, NEW n, Serve(w, n), Known(n, rows', disturbed'),
         \A b \in Booking : Stays(rows[b], rows'[b]),
         \A x \in Item, d \in Date, b \in Booking :
           /\ <<x, d>> \notin disturbed'
           /\ Covers(rows'[b], x, d) \/ MayTake(n, b, x, d)
           => Covers(rows[b], x, d) \/ MayTake(flight[w], b, x, d)
  PROVE  OverlapInv'
<1>1. \A v \in Worker : flight'[v] = IF v = w THEN n ELSE flight[v]
  BY DEF Serve, OverlapInv, RaceTypeOK
<1>2. ASSUME NEW v \in Worker PROVE Known(flight'[v], rows', disturbed')
  <2>1. CASE v = w
    BY <1>1, <2>1
  <2>2. CASE v # w
    <3> DEFINE q == flight[v]
    <3>1. Known(q, rows, disturbed) /\ InFlight(q)
      BY DEF OverlapInv, FlightOK
    <3>2. OnBooking(q) => q.booking \in Booking
      BY <3>1 DEF InFlight
    <3>3. OnBooking(q) => Exists(rows'[q.booking]) /\ Stays(q.seen, rows'[q.booking])
      BY <3>1, <3>2 DEF Known, Stays
    <3>4. Known(q, rows', disturbed')
      BY <3>1, <3>3 DEF Known
    <3> QED BY <1>1, <2>2, <3>4
  <2> QED BY <2>1, <2>2
<1>3. ASSUME NEW x \in Item, NEW d \in Date, <<x, d>> \notin disturbed'
      PROVE  Claimed(x, d)' \subseteq Claimed(x, d)
  <2> SUFFICES ASSUME NEW b \in Booking,
                      Covers(rows'[b], x, d) \/ \E v \in Worker : MayTake(flight'[v], b, x, d)
               PROVE  Covers(rows[b], x, d) \/ \E v \in Worker : MayTake(flight[v], b, x, d)
    BY DEF Claimed
  <2>1. CASE Covers(rows'[b], x, d)
    BY <1>3, <2>1
  <2>2. ASSUME NEW v \in Worker, MayTake(flight'[v], b, x, d)
        PROVE  Covers(rows[b], x, d) \/ \E u \in Worker : MayTake(flight[u], b, x, d)
    <3>1. CASE v = w
      BY <1>1, <1>3, <2>2, <3>1
    <3>2. CASE v # w
      BY <1>1, <2>2, <3>2
    <3> QED BY <3>1, <3>2
  <2> QED BY <2>1, <2>2
<1> QED BY <1>2, <1>3, NoNewClaim

\* accept finds a unit free: what it counted is below the capacity, and every claim it
\* did not count belongs to a request in flight.
LEMMA OverlapCount ==
  ASSUME OverlapInv, RaceTypeOK', FlightOK', NEW w \in Worker, ReadRivals(w)
  PROVE  OverlapInv'
<1> DEFINE q == flight[w]
           b == q.booking
<1>1. /\ q \in Request /\ InFlight(q) /\ Known(q, rows, disturbed)
      /\ q.op = "accept" /\ q.at = "rivals" /\ q.days = q.seen.dates
  BY DEF OverlapInv, RaceTypeOK, FlightOK, ReadRivals, InFlight
<1>2. b \in Booking /\ Exists(q.seen) /\ Stays(q.seen, rows[b])
  BY <1>1 DEF InFlight, Known, OnBooking, Op
<1>3. UNCHANGED <<rows, slot, stage, disturbed, asked, tick, agreed>>
  BY DEF ReadRivals
<1>a. AskedDaysDisturbed'
  BY <1>3 DEF OverlapInv, AskedDaysDisturbed
<1>s. \A c \in Booking : Stays(rows[c], rows'[c])
  BY <1>3 DEF Stays
<1>4. CASE Serve(w, Idle)
  <2>1. Known(Idle, rows', disturbed')
    BY DEF Known, Idle, OnBooking, Op
  <2>2. \A c, x, d : ~MayTake(Idle, c, x, d)
    BY DEF MayTake, Idle
  <2> QED BY <1>3, <1>4, <1>a, <1>s, <2>1, <2>2, OverlapServe
<1>5. CASE ~CapacityReached(rows, b, q.days)
  <2> DEFINE to == IF q.seen.target \in Persons THEN "days" ELSE "write"
             n == [q EXCEPT !.at = to]
  <2>1. Serve(w, n)
    BY <1>5 DEF ReadRivals, Goto, Serve
  <2>2. /\ n.op = q.op /\ n.booking = b /\ n.seen = q.seen /\ n.at = to
    BY <1>1 DEF Request
  <2> HIDE DEF n
  <2>3. Known(n, rows', disturbed')
    BY <1>1, <1>3, <2>2 DEF Known, OnBooking
  <2>4. \A v \in Worker : flight'[v] = IF v = w THEN n ELSE flight[v]
    BY <2>1 DEF Serve, OverlapInv, RaceTypeOK
  <2>5. \A v \in Worker : Known(flight'[v], rows', disturbed')
    BY <1>3, <2>3, <2>4 DEF OverlapInv
  <2>6. ASSUME NEW x \in Item, NEW d \in Date, <<x, d>> \notin disturbed'
        PROVE  Cardinality(Claimed(x, d)') < Capacity(x) + Cardinality(Worker)
    <3>0. x \in Resource /\ x # None
      BY NoneAssumption DEF Resource
    <3>1. CASE ResourceOf(q.seen) = x /\ d \in q.seen.dates
      <4> DEFINE counted == Users(rows, x, d) \ {b}
                 inHand == {flight'[v].booking : v \in Worker}
                 f == [v \in Worker |-> flight'[v].booking]
      <4>1. ResourceOf(rows[b]) = x /\ d \in q.days
        BY <1>1, <1>2, <3>1 DEF Stays
      <4>2. ~(Cardinality(counted) >= Capacity(x))
        BY <1>5, <3>0, <4>1 DEF CapacityReached
      <4>3. IsFiniteSet(counted) /\ Cardinality(counted) \in Nat
        <5>1. counted \subseteq Users(rows, x, d)
          OBVIOUS
        <5>2. IsFiniteSet(counted)
          BY <5>1, UsersFinite, FS_Subset
        <5> QED BY <5>2, FS_CardinalityType
      <4>4. /\ IsFiniteSet(inHand) /\ Cardinality(inHand) \in Nat
            /\ Cardinality(inHand) <= Cardinality(Worker)
        <5>1. f \in Surjection(Worker, inHand)
          BY DEF Surjection
        <5>2. IsFiniteSet(inHand) /\ Cardinality(inHand) <= Cardinality(Worker)
          BY <5>1, WorkerAssumption, FS_Surjection
        <5> QED BY <5>2, FS_CardinalityType
      <4>5. Claimed(x, d)' \subseteq counted \cup inHand
        <5> SUFFICES ASSUME NEW c \in Booking, c \notin counted,
                            Covers(rows[c], x, d) \/ \E v \in Worker : MayTake(flight'[v], c, x, d)
                     PROVE  c \in inHand
          BY <1>3 DEF Claimed
        <5>1. CASE Covers(rows[c], x, d)
          <6>1. c = b
            BY <5>1 DEF Users, Covers
          <6>2. flight'[w].booking = b
            BY <2>2, <2>4
          <6> QED BY <6>1, <6>2
        <5>2. CASE \E v \in Worker : MayTake(flight'[v], c, x, d)
          BY <5>2 DEF MayTake
        <5> QED BY <5>1, <5>2
      <4>6. /\ IsFiniteSet(counted \cup inHand)
            /\ Cardinality(counted \cup inHand) =
                 Cardinality(counted) + Cardinality(inHand) - Cardinality(counted \cap inHand)
        BY <4>3, <4>4, FS_Union
      <4>7. Cardinality(counted \cap inHand) \in Nat
        <5>1. counted \cap inHand \subseteq counted
          OBVIOUS
        <5> QED BY <5>1, <4>3, FS_Subset, FS_CardinalityType
      <4>8. /\ Cardinality(Claimed(x, d)') <= Cardinality(counted \cup inHand)
            /\ Cardinality(Claimed(x, d)') \in Nat
        BY <4>5, <4>6, FS_Subset, FS_CardinalityType
      <4> HIDE DEF counted, inHand
      <4> QED BY <3>0, <4>2, <4>3, <4>4, <4>6, <4>7, <4>8, CapacityValue, ClaimsFinite
    <3>2. CASE ~(ResourceOf(q.seen) = x /\ d \in q.seen.dates)
      <4>1. \A c : ~MayTake(n, c, x, d)
        BY <2>2, <3>2 DEF MayTake
      <4>2. Claimed(x, d)' \subseteq Claimed(x, d)
        BY <1>3, <2>4, <4>1 DEF Claimed
      <4>3. Cardinality(Claimed(x, d)) < Capacity(x) + Cardinality(Worker)
        BY <1>3, <2>6 DEF OverlapInv
      <4>4. /\ IsFiniteSet(Claimed(x, d)')
            /\ Cardinality(Claimed(x, d)') <= Cardinality(Claimed(x, d))
        BY <4>2, ClaimsFinite, FS_Subset
      <4>5. Cardinality(Claimed(x, d)') \in Nat
        BY <4>4, FS_CardinalityType
      <4> QED BY <3>0, <4>3, <4>4, <4>5, ClaimsFinite, CapacityValue
    <3> QED BY <3>1, <3>2
  <2> QED BY <1>a, <2>5, <2>6 DEF OverlapInv
<1> QED BY <1>4, <1>5 DEF ReadRivals

\* The last write of a request makes a holder only of a booking it claimed, or on days
\* that are disturbed.
LEMMA OverlapWrite ==
  ASSUME OverlapInv, RaceTypeOK', FlightOK', NEW w \in Worker, WriteRow(w)
  PROVE  OverlapInv'
<1> DEFINE q == flight[w]
           b == q.booking
           r == rows[b]
           s == Written(q, r)
<1>1. q \in Request /\ InFlight(q) /\ Known(q, rows, disturbed) /\ q.at = "write"
  BY DEF OverlapInv, RaceTypeOK, FlightOK, WriteRow
<1>2. OnBooking(q) /\ b \in Booking
  BY <1>1 DEF WriteRow, OnBooking, InFlight, Request, Idle
<1>3. r \in Row
  BY <1>2 DEF OverlapInv, RaceTypeOK, TypeOK
<1>4. /\ \A c \in Booking : rows'[c] = IF c = b THEN s ELSE rows[c]
      /\ disturbed' = IF q.op \in {"ask", "close"} THEN disturbed \cup Days(q.seen, r.dates)
                      ELSE disturbed
      /\ Serve(w, Idle)
  BY <1>2 DEF WriteRow, Put, OverlapInv, RaceTypeOK, TypeOK
<1>5. /\ Exists(r) /\ ResourceOf(r) = ResourceOf(q.seen) /\ r.dates = q.seen.dates
      /\ q.op = "refuse" => Days(r, r.dates) \subseteq disturbed
  BY <1>1, <1>2 DEF Known, Stays, Days
<1>6. /\ s.dates = r.dates /\ ResourceOf(s) = ResourceOf(r)
      /\ q.op = "accept" => s.status = "accepted"
      /\ q.op \in {"expire", "decline", "cancel", "agree"} => Closed(s)
      /\ q.op = "lock" => s.status = "locked"
      /\ q.op = "close" => s.status = r.status
      /\ q.op = "ask" => s.status = "cancel_requested"
      /\ q.op = "refuse" => Active(s)
  BY <1>1, <1>2, <1>3, WrittenRow
<1>7. q.op \in {"accept", "expire", "decline", "cancel", "lock", "close", "ask", "agree", "refuse"}
  BY <1>2 DEF OnBooking, Op
<1> HIDE DEF s, r
<1>8. Exists(s)
  BY <1>5, <1>6, <1>7 DEF Exists, Closed, Active
<1>9. \A c \in Booking : Stays(rows[c], rows'[c])
  BY <1>4, <1>6, <1>8 DEF Stays, r
<1>10. disturbed \subseteq disturbed'
  BY <1>4
<1>11. AskedDaysDisturbed'
  <2> SUFFICES ASSUME NEW c \in Booking, rows'[c].status = "cancel_requested"
               PROVE  Days(rows'[c], rows'[c].dates) \subseteq disturbed'
    BY DEF AskedDaysDisturbed
  <2>1. CASE c = b
    <3>1. rows'[c] = s /\ Days(s, s.dates) = Days(r, r.dates)
      BY <1>4, <1>6, <2>1 DEF Days
    <3>2. CASE q.op = "ask"
      BY <3>1, <3>2, <1>4, <1>5 DEF Days
    <3>3. CASE q.op # "ask"
      <4>1. r.status = "cancel_requested"
        BY <3>1, <3>3, <1>6, <1>7 DEF Closed, Active
      <4>2. Days(r, r.dates) \subseteq disturbed
        BY <4>1, <1>2 DEF OverlapInv, AskedDaysDisturbed, r
      <4> QED BY <3>1, <4>2, <1>10
    <3> QED BY <3>2, <3>3
  <2>2. CASE c # b
    BY <2>2, <1>4, <1>10 DEF OverlapInv, AskedDaysDisturbed
  <2> QED BY <2>1, <2>2
<1>12. Known(Idle, rows', disturbed') /\ \A c, x, d : ~MayTake(Idle, c, x, d)
  BY DEF Known, Idle, OnBooking, Op, MayTake
<1>13. ASSUME NEW x \in Item, NEW d \in Date, NEW c \in Booking, <<x, d>> \notin disturbed',
              Covers(rows'[c], x, d)
       PROVE  Covers(rows[c], x, d) \/ MayTake(q, c, x, d)
  <2>1. CASE c # b
    BY <1>4, <1>13, <2>1
  <2>2. CASE c = b
    <3>1. Active(s) /\ ResourceOf(r) = x /\ d \in r.dates
      BY <1>4, <1>6, <1>13, <2>2 DEF Covers
    <3>2. <<x, d>> \notin disturbed /\ <<x, d>> \in Days(r, r.dates)
      BY <1>10, <1>13, <3>1 DEF Days
    <3>3. q.op \in {"accept", "lock", "close"}
      BY <1>5, <1>6, <1>7, <3>1, <3>2 DEF Active, Closed
    <3>4. CASE q.op \in {"accept", "lock"}
      BY <1>1, <1>5, <2>2, <3>1, <3>4 DEF MayTake
    <3>5. CASE q.op = "close"
      BY <1>6, <2>2, <3>1, <3>5 DEF Covers, Active, r
    <3> QED BY <3>3, <3>4, <3>5
  <2> QED BY <2>1, <2>2
<1> QED BY <1>4, <1>9, <1>10, <1>11, <1>12, <1>13, OverlapServe

\* Every step preserves it.
LEMMA OverlapStep == OverlapInv /\ [RaceNext]_raceVars => OverlapInv'
<1> SUFFICES ASSUME OverlapInv, [RaceNext]_raceVars PROVE OverlapInv'
  OBVIOUS
<1>t. RaceTypeOK' /\ FlightOK'
  BY FlightStep DEF OverlapInv
<1>r. \A b \in Booking : rows[b] \in Row
  BY DEF OverlapInv, RaceTypeOK, TypeOK
<1>i. Known(Idle, rows', disturbed') /\ \A b, x, d : ~MayTake(Idle, b, x, d)
  BY DEF Known, Idle, OnBooking, Op, MayTake
\* a worker that reads, gives up or writes a calendar
<1>q. ASSUME NEW w \in Worker, NEW n, Serve(w, n), UNCHANGED <<rows, disturbed>>,
             Known(n, rows, disturbed),
             \A x \in Item, d \in Date, b \in Booking :
               MayTake(n, b, x, d) => Covers(rows[b], x, d) \/ MayTake(flight[w], b, x, d)
      PROVE  OverlapInv'
  <2>1. AskedDaysDisturbed' /\ \A b \in Booking : Stays(rows[b], rows'[b])
    BY <1>q DEF OverlapInv, AskedDaysDisturbed, Stays
  <2> QED BY <1>q, <1>t, <2>1, OverlapServe
<1>1. ASSUME NEW w \in Worker, WorkerStep(w) PROVE OverlapInv'
  <2> DEFINE q == flight[w]
  <2>q. q \in Request /\ InFlight(q) /\ Known(q, rows, disturbed)
    BY DEF OverlapInv, RaceTypeOK, FlightOK
  <2>1. ASSUME NEW op \in Op, NEW u \in User, NEW b \in Booking, Begin(w, op, u, b)
        PROVE  OverlapInv'
    <3> DEFINE n == [op |-> op, at |-> Next1(op, rows[b]), user |-> u, booking |-> b,
                     seen |-> rows[b], days |-> rows[b].dates]
    <3>1. Passes(op, rows[b], u) /\ Serve(w, n) /\ UNCHANGED <<rows, disturbed>>
      BY <2>1 DEF Begin
    <3>2. Exists(rows[b])
      BY <3>1 DEF Passes, MayAnswer, MayWithdraw, MayLock, MayClose, MayAsk, MayRespond,
                  Active, Exists
    <3>3. op = "accept" => n.at # "write" /\ n.at # "days"
                           /\ (n.at = "slots" => rows[b].target \in Persons)
      BY DEF Next1
    <3>4. op = "refuse" => Days(rows[b], rows[b].dates) \subseteq disturbed
      BY <3>1 DEF Passes, MayRespond, OverlapInv, AskedDaysDisturbed
    <3>5. op = "lock" => Active(rows[b])
      BY <3>1 DEF Passes, MayLock, Active
    <3>6. Known(n, rows, disturbed)
      BY <3>2, <3>3, <3>4 DEF Known, Stays
    <3>7. \A x \in Item, d \in Date, c \in Booking :
            MayTake(n, c, x, d) => Covers(rows[c], x, d)
      BY <3>3, <3>5 DEF MayTake, Covers
    <3> HIDE DEF n
    <3> QED BY <3>1, <3>6, <3>7, <1>q
  <2>2. ASSUME NEW u \in User, NEW p \in Project, NEW t \in Account,
               NEW i \in Item \cup {None}, NEW D \in (SUBSET Date) \ {{}},
               BeginCreate(w, u, p, t, i, D)
        PROVE  OverlapInv'
    <3> DEFINE n == [Idle EXCEPT !.op = "create", !.at = "write", !.user = u,
                                 !.seen = NewRow(p, MainOf[u], t, i, D)]
    <3>1. Serve(w, n) /\ n.op = "create" /\ UNCHANGED <<rows, disturbed>>
      BY <2>2 DEF BeginCreate, Idle
    <3> HIDE DEF n
    <3>2. Known(n, rows, disturbed) /\ \A b, x, d : ~MayTake(n, b, x, d)
      BY <3>1 DEF Known, OnBooking, MayTake
    <3> QED BY <3>1, <3>2, <1>q
  <2>3. ASSUME NEW b \in Booking, Insert(w, b) PROVE OverlapInv'
    <3>1. /\ q.op = "create" /\ ~Exists(rows[b]) /\ Serve(w, Idle)
          /\ rows' = [rows EXCEPT ![b] = q.seen] /\ UNCHANGED disturbed
      BY <2>3 DEF Insert, Put, Exists
    <3>2. q.seen.status = "pending"
      BY <3>1, <2>q, FreshType DEF InFlight
    <3>3. \A c \in Booking : rows'[c] = IF c = b THEN q.seen ELSE rows[c]
      BY <3>1 DEF OverlapInv, RaceTypeOK, TypeOK
    <3>4. \A c \in Booking : /\ Stays(rows[c], rows'[c])
                             /\ \A x, d : Covers(rows'[c], x, d) => Covers(rows[c], x, d)
      BY <3>1, <3>2, <3>3 DEF Stays, Covers, Active
    <3>5. AskedDaysDisturbed'
      BY <3>1, <3>2, <3>3 DEF OverlapInv, AskedDaysDisturbed
    <3> QED BY <3>1, <3>4, <3>5, <1>t, <1>i, OverlapServe
  <2>4. CASE ReadSlots(w)
    <3> DEFINE to == IF SlotTaken(slot, q.seen.target, q.days) THEN "rivals" ELSE "days"
               n == [q EXCEPT !.at = to]
    <3>1. q.at = "slots" /\ Serve(w, n) /\ UNCHANGED <<rows, disturbed>>
      BY <2>4 DEF ReadSlots, Goto, Serve
    <3>2. /\ n.op = q.op /\ n.booking = q.booking /\ n.seen = q.seen /\ n.at = to
          /\ q.op = "accept" /\ to # "write"
      BY <3>1, <2>q DEF Request, InFlight
    <3> HIDE DEF n, to
    <3>3. Known(n, rows, disturbed) /\ \A b, x, d : ~MayTake(n, b, x, d)
      BY <3>1, <3>2, <2>q DEF Known, OnBooking, MayTake
    <3> QED BY <3>1, <3>3, <1>q
  <2>5. CASE ReadRivals(w)
    BY <2>5, <1>t, OverlapCount
  <2>6. ASSUME NEW d \in Date, WriteDay(w, d) PROVE OverlapInv'
    <3> DEFINE to == IF q.days = {d} THEN "write" ELSE "days"
               n == [q EXCEPT !.days = @ \ {d}, !.at = to]
    <3>1. q.at = "days" /\ Serve(w, n) /\ UNCHANGED <<rows, disturbed>>
      BY <2>6 DEF WriteDay
    <3>2. /\ n.op = q.op /\ n.booking = q.booking /\ n.seen = q.seen /\ n.at = to
          /\ q.op \in {"accept", "agree"} /\ to # "slots"
      BY <3>1, <2>q DEF Request, InFlight
    <3> HIDE DEF n, to
    <3>3. q.op = "accept" => q.seen.target \in Persons /\ ResourceOf(q.seen) \notin Item
      BY <3>1, <2>q, ItemAssumption DEF Known, ResourceOf, Persons, Account
    <3>4. /\ Known(n, rows, disturbed)
         /\ \A x \in Item, e \in Date, b \in Booking : ~MayTake(n, b, x, e)
      BY <3>2, <3>3, <2>q DEF Known, OnBooking, MayTake
    <3> QED BY <3>1, <3>4, <1>q
  <2>7. CASE WriteRow(w)
    BY <2>7, <1>t, OverlapWrite
  <2>8. ASSUME NEW u \in User, BeginHeal(w, u) PROVE OverlapInv'
    <3> DEFINE n == [Idle EXCEPT !.op = "heal", !.at = "bookings", !.user = u,
                                 !.days = {d \in Date : slot[u][d] = "booked"}]
    <3>1. Serve(w, n) /\ n.op = "heal" /\ UNCHANGED <<rows, disturbed>>
      BY <2>8 DEF BeginHeal, Idle
    <3> HIDE DEF n
    <3>2. Known(n, rows, disturbed) /\ \A b, x, d : ~MayTake(n, b, x, d)
      BY <3>1 DEF Known, OnBooking, MayTake
    <3> QED BY <3>1, <3>2, <1>q
  <2>9. CASE ReadBookings(w)
    <3> DEFINE stale == q.days \ TrueBooked(q.user)
               n == [q EXCEPT !.days = stale, !.at = "write"]
               m == IF stale = {} THEN Idle ELSE n
    <3>1. q.at = "bookings" /\ Serve(w, m) /\ UNCHANGED <<rows, disturbed>>
      BY <2>9 DEF ReadBookings
    <3>2. q.op = "heal"
      BY <3>1, <2>q DEF InFlight
    <3>3. m.op \in {"none", "heal"}
      BY <3>2, <2>q DEF Request, Idle
    <3> HIDE DEF m
    <3>4. Known(m, rows, disturbed) /\ \A b, x, d : ~MayTake(m, b, x, d)
      BY <3>3 DEF Known, OnBooking, MayTake, Op
    <3> QED BY <3>1, <3>4, <1>q
  <2>10. CASE WriteHeal(w)
    BY <2>10, <1>i, <1>q DEF WriteHeal
  <2>11. CASE Fail(w)
    BY <2>11, <1>i, <1>q DEF Fail
  <2> QED BY <1>1, <2>1, <2>2, <2>3, <2>4, <2>5, <2>6, <2>7, <2>8, <2>9, <2>10, <2>11
         DEF WorkerStep
\* the clock, the job and what changes nothing
<1>a. ASSUME UNCHANGED <<flight, disturbed>>,
             \A b \in Booking :
               \/ rows'[b] = rows[b]
               \/ /\ rows[b].status = "pending" /\ rows'[b].status \in {"pending", "expired"}
                  /\ Stays(rows[b], rows'[b])
      PROVE  OverlapInv'
  <2>1. \A b \in Booking : /\ Stays(rows[b], rows'[b])
                           /\ \A x, d : Covers(rows'[b], x, d) <=> Covers(rows[b], x, d)
    BY <1>a DEF Stays, Covers, Active
  <2>2. AskedDaysDisturbed'
    BY <1>a DEF OverlapInv, AskedDaysDisturbed
  <2>3. \A w \in Worker : Known(flight'[w], rows', disturbed')
    <3> SUFFICES ASSUME NEW w \in Worker PROVE Known(flight[w], rows', disturbed)
      BY <1>a
    <3>1. Known(flight[w], rows, disturbed) /\ InFlight(flight[w])
      BY DEF OverlapInv, FlightOK
    <3>2. OnBooking(flight[w]) => flight[w].booking \in Booking
      BY <3>1 DEF InFlight
    <3> QED BY <3>1, <3>2, <2>1 DEF Known, Stays
  <2>4. \A x \in Item, d \in Date : Claimed(x, d)' = Claimed(x, d)
    BY <1>a, <2>1 DEF Claimed
  <2> QED BY <1>a, <1>t, <2>2, <2>3, <2>4, NoNewClaim
<1>e. \A b \in Booking : rows[b].status = "pending" =>
        /\ [rows[b] EXCEPT !.overdue = TRUE].status = "pending"
        /\ Expired(rows[b]).status = "expired"
        /\ Stays(rows[b], [rows[b] EXCEPT !.overdue = TRUE])
        /\ Stays(rows[b], Expired(rows[b]))
  BY <1>r DEF Row, Expired, Stays, Exists, ResourceOf
<1>2. ASSUME NEW b \in Booking, ClockTick(b) PROVE OverlapInv'
  <2>1. /\ rows[b].status = "pending" /\ UNCHANGED <<flight, disturbed>>
        /\ \A c \in Booking : rows'[c] = IF c = b THEN [rows[b] EXCEPT !.overdue = TRUE]
                                         ELSE rows[c]
    BY <1>2 DEF ClockTick, TimePasses, Put, OverlapInv, RaceTypeOK, TypeOK
  <2> QED BY <1>a, <1>e, <2>1
<1>3. CASE TickRead
  BY <1>3, <1>a DEF TickRead
<1>4. CASE TickWrite
  BY <1>4, <1>a, <1>e DEF TickWrite
<1>5. CASE UNCHANGED raceVars
  BY <1>5, <1>a DEF raceVars
<1> QED BY <1>1, <1>2, <1>3, <1>4, <1>5 DEF RaceNext

\* It holds at the start.
LEMMA OverlapInit == RaceInit => OverlapInv
<1> SUFFICES ASSUME RaceInit PROVE OverlapInv
  OBVIOUS
<1>1. AskedDaysDisturbed
  BY DEF RaceInit, AskedDaysDisturbed, NoRow
<1>2. \A w \in Worker : Known(flight[w], rows, disturbed)
  BY DEF RaceInit, Known, Idle, OnBooking, Op
<1>3. \A x, d : Claimed(x, d) = {}
  BY DEF RaceInit, Claimed, Covers, Active, NoRow, MayTake, Idle
<1>4. ASSUME NEW x \in Item, NEW d \in Date
      PROVE  Cardinality(Claimed(x, d)) < Capacity(x) + Cardinality(Worker)
  <2>1. Cardinality(Claimed(x, d)) = 0
    BY <1>3, FS_EmptySet
  <2>2. x \in Resource
    BY DEF Resource
  <2> QED BY <2>1, <2>2, CapacityValue, ClaimsFinite
<1> QED BY <1>1, <1>2, <1>4, FlightInit DEF OverlapInv

\* However many accepts run at once, an item is overbooked on an undisturbed day at most
\* once for each further request that may be in flight.
THEOREM OverbookingBounded == RaceSpec => []OverbookedByOverlap
<1>1. OverlapInv => OverbookedByOverlap
  <2> SUFFICES ASSUME OverlapInv, NEW x \in Item, NEW d \in Date, <<x, d>> \notin disturbed
               PROVE  Cardinality(Users(rows, x, d)) < Capacity(x) + Cardinality(Worker)
    BY DEF OverbookedByOverlap
  <2>1. Users(rows, x, d) \subseteq Claimed(x, d)
    BY DEF Users, Claimed, Covers
  <2>2. Cardinality(Users(rows, x, d)) <= Cardinality(Claimed(x, d))
    BY <2>1, ClaimsFinite, FS_Subset
  <2>3. Cardinality(Claimed(x, d)) < Capacity(x) + Cardinality(Worker)
    BY DEF OverlapInv
  <2>4. x \in Resource
    BY DEF Resource
  <2> QED BY <2>2, <2>3, <2>4, UsersFinite, ClaimsFinite, CapacityValue
<1> QED BY <1>1, OverlapInit, OverlapStep, PTL DEF RaceSpec

(***************************************************************************)
(* Liveness, with the two queries of the job apart and requests in flight  *)
(* between them.  What ENABLED says of them is the hypothesis TickCanRun.  *)
(***************************************************************************)

\* How the job's list moves while a request stays overdue: it is emptied by a write, filled
\* by a read that finds the request, and a write with the request on it settles it.
LEMMA TickMoves ==
  ASSUME RaceTypeOK, NEW b \in Booking, Overdue(rows[b]), [RaceNext]_raceVars
  PROVE  /\ <<TickRead>>_raceVars => b \in tick'
         /\ <<TickWrite>>_raceVars => tick' = {} /\ (b \in tick => ~Overdue(rows'[b]))
         /\ tick = {} => tick' = {} \/ b \in tick'
         /\ b \in tick => b \in tick' \/ ~Overdue(rows'[b])
         /\ tick # {} => tick' # {} \/ <<TickWrite>>_raceVars
<1>1. TickRead => b \in tick'
  BY DEF TickRead
<1>2. TickWrite => tick # {} /\ tick' = {} /\ (b \in tick => ~Overdue(rows'[b]))
  BY DEF TickWrite, RaceTypeOK, TypeOK, Row, Overdue, Expired
<1>3. tick' = tick \/ TickRead \/ TickWrite
  <2>1. ASSUME NEW w \in Worker, WorkerStep(w) PROVE tick' = tick
    BY <2>1, TickUntouched
  <2>2. ASSUME NEW c \in Booking, ClockTick(c) PROVE tick' = tick
    BY <2>2 DEF ClockTick
  <2>3. UNCHANGED raceVars => tick' = tick
    BY DEF raceVars
  <2> QED BY <2>1, <2>2, <2>3 DEF RaceNext
<1>4. TickRead => tick = {}
  BY DEF TickRead
<1>5. TickWrite => <<TickWrite>>_raceVars
  BY <1>2 DEF raceVars
<1> QED BY <1>1, <1>2, <1>3, <1>4, <1>5

\* A request nobody answers in time does not stay pending, however the requests in flight
\* and the two queries of the job fall between each other.
THEOREM RacesSettleOverdue ==
  ASSUME QueueEnabled
  PROVE  RaceSpec /\ []TickCanRun => OverdueSettled
<1>1. ASSUME NEW b \in Booking
      PROVE  RaceSpec /\ []TickCanRun => (Overdue(rows[b]) ~> ~Overdue(rows[b]))
  <2> DEFINE Due == Overdue(rows[b])
             Listed == b \in tick
             Empty == tick = {}
  <2>1. TickCanRun /\ Due /\ Empty => ENABLED <<TickRead>>_raceVars
    BY DEF TickCanRun
  <2>2. TickCanRun /\ ~Empty => ENABLED <<TickWrite>>_raceVars
    BY DEF TickCanRun
  <2>3. Listed => ~Empty
    OBVIOUS
  <2>4. RaceTypeOK /\ Due /\ [RaceNext]_raceVars =>
          /\ <<TickRead>>_raceVars => Listed'
          /\ <<TickWrite>>_raceVars => Empty' /\ (Listed => ~Due')
          /\ Empty => Empty' \/ Listed'
          /\ Listed => Listed' \/ ~Due'
          /\ ~Empty => ~Empty' \/ <<TickWrite>>_raceVars
    BY TickMoves
  <2> HIDE DEF Due, Listed, Empty
  <2>5. RaceSpec /\ []TickCanRun => (Due ~> ~Due)
    BY <2>1, <2>2, <2>3, <2>4, FlightInit, FlightStep, PTL DEF RaceSpec
  <2> QED BY <2>5 DEF Due
<1> QED BY <1>1 DEF OverdueSettled
=============================================================================
