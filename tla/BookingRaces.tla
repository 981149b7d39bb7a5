----------------------------- MODULE BookingRaces -----------------------------
(***************************************************************************)
(* The same handlers as in `Bookings', but with requests in flight at the  *)
(* same time.  Every handler reads its row, checks it, awaits further      *)
(* queries, and writes by primary key without looking at the row again;    *)
(* none of them runs in a transaction, except that markBookingComplete     *)
(* writes the row and the calendar together.  Each database round trip is  *)
(* one step here.  A request may also die between two of them (an error, a *)
(* crash of the API process): what it wrote stays, the rest never comes.   *)
(* The expiry job runs next to the requests and does check the status in   *)
(* its write.                                                              *)
(***************************************************************************)
EXTENDS Bookings

CONSTANT Worker   \* bounds the number of requests in flight

ASSUME WorkerAssumption == IsFiniteSet(Worker)

VARIABLES
  flight,  \* the request each worker is serving
  tick,    \* what the expiry job has read
  agreed   \* history: bookings whose acceptance was once written
raceVars == <<rows, slot, stage, disturbed, asked, flight, tick, agreed>>

Op == {"create", "accept", "expire", "decline", "cancel", "lock", "close",
       "ask", "agree", "refuse", "heal"}
At == {"idle", "slots", "rivals", "days", "bookings", "write"}

\* `seen' is the booking row as the handler read it (for create: the row it will
\* insert), `days' what is left of the days to write.
Request == [op : Op \cup {"none"}, at : At, user : User \cup {None},
            booking : Booking \cup {None}, seen : Row, days : SUBSET Date]
Idle == [op |-> "none", at |-> "idle", user |-> None, booking |-> None,
         seen |-> NoRow, days |-> {}]

RaceInit ==
  /\ rows = [b \in Booking |-> NoRow]
  /\ slot = [u \in User |-> [d \in Date |-> "available"]]
  /\ stage = [p \in Project |-> "active"]
  /\ disturbed = {}
  /\ asked = {}
  /\ flight = [w \in Worker |-> Idle]
  /\ tick = {}
  /\ agreed = {}

\* The checks on the row read first, and where the handler goes from there.
Passes(op, r, u) ==
  CASE op = "accept"  -> MayAnswer(r, u) /\ ~r.overdue /\ r.dates # {}
    [] op = "expire"  -> MayAnswer(r, u) /\ r.overdue
    [] op = "decline" -> MayAnswer(r, u)
    [] op = "cancel"  -> MayWithdraw(r, u)
    [] op = "lock"    -> MayLock(r, u)
    [] op = "close"   -> MayClose(r, u)
    [] op = "ask"     -> MayAsk(r, u)
    [] op \in {"agree", "refuse"} -> MayRespond(r, u)
    [] OTHER -> FALSE

Next1(op, r) ==
  CASE op = "accept" -> IF r.target \in Persons THEN "slots" ELSE "rivals"
    [] op = "agree"  -> IF r.dates = {} THEN "write" ELSE "days"
    [] OTHER -> "write"

Serve(w, req) == flight' = [flight EXCEPT ![w] = req]
Goto(w, at)   == flight' = [flight EXCEPT ![w].at = at]
Free(w)       == flight[w] = Idle

Begin(w, op, u, b) ==
  /\ Free(w)
  /\ Passes(op, rows[b], u)
  /\ Serve(w, [op |-> op, at |-> Next1(op, rows[b]), user |-> u, booking |-> b,
               seen |-> rows[b], days |-> rows[b].dates])
  /\ UNCHANGED <<rows, slot, stage, disturbed, asked, tick, agreed>>

\* createRequest looks for a request in its way, and inserts later.
BeginCreate(w, u, p, t, i, D) ==
  /\ Free(w)
  /\ MayRequest(rows, u, p) /\ t # MainOf[u] /\ i \in ItemsOf(t) \cup {None}
  /\ InTheWay(rows, p, t, i) = {}
  /\ Serve(w, [Idle EXCEPT !.op = "create", !.at = "write", !.user = u,
                           !.seen = NewRow(p, MainOf[u], t, i, D)])
  /\ UNCHANGED <<rows, slot, stage, disturbed, asked, tick, agreed>>

Insert(w, b) ==
  /\ flight[w].op = "create"
  /\ rows[b].status = "absent"
  /\ Put(b, flight[w].seen)
  /\ Serve(w, Idle)
  /\ UNCHANGED <<slot, stage, disturbed, asked, tick, agreed>>

(***************************************************************************)
(* accept: the slots, then perhaps the other bookings, then the days one   *)
(* by one, then the row.  agree: the days one by one, then the row.        *)
(***************************************************************************)
ReadSlots(w) ==
  LET q == flight[w] IN
  /\ q.at = "slots"
  /\ Goto(w, IF SlotTaken(slot, q.seen.target, q.days) THEN "rivals" ELSE "days")
  /\ UNCHANGED <<rows, slot, stage, disturbed, asked, tick, agreed>>

ReadRivals(w) ==
  LET q == flight[w] IN
  /\ q.at = "rivals"
  /\ IF CapacityReached(rows, q.booking, q.days) THEN Serve(w, Idle)
     ELSE Goto(w, IF q.seen.target \in Persons THEN "days" ELSE "write")
  /\ UNCHANGED <<rows, slot, stage, disturbed, asked, tick, agreed>>

\* Mutant of WriteDay: goes on to the row after the first day.
WriteFirstDay(w, d) ==
  LET q == flight[w] IN
  /\ q.at = "days" /\ d \in q.days
  /\ slot' = SetDays(slot, q.seen.target, {d},
                     IF q.op = "accept" THEN "booked" ELSE "available")
  /\ Serve(w, [q EXCEPT !.days = {}, !.at = "write"])
  /\ UNCHANGED <<rows, stage, disturbed, asked, tick, agreed>>

WriteDay(w, d) ==
  LET q == flight[w] IN
  /\ q.at = "days" /\ d \in q.days
  /\ slot' = SetDays(slot, q.seen.target, {d},
                     IF q.op = "accept" THEN "booked" ELSE "available")
  /\ Serve(w, [q EXCEPT !.days = @ \ {d}, !.at = IF q.days = {d} THEN "write" ELSE "days"])
  /\ UNCHANGED <<rows, stage, disturbed, asked, tick, agreed>>

(***************************************************************************)
(* The last write, by id alone, of a request that got that far.            *)
(***************************************************************************)
Written(q, r) ==
  CASE q.op = "accept"  -> Accepted(r)
    [] q.op = "expire"  -> Expired(r)
    [] q.op = "decline" -> Declined(r)
    [] q.op = "cancel"  -> Cancelled(r, q.user)
    [] q.op = "lock"    -> Locked(r, KeptOr(r, None))
    [] q.op = "close"   -> [r EXCEPT !.doneByTarget = TRUE]
    [] q.op = "ask"     -> CancelAsked(r, q.user)
    [] q.op = "agree"   -> Cancelled(r, q.user)
    [] q.op = "refuse"  -> CancelDenied(r, q.seen.locked)

WriteRow(w) ==
  LET q == flight[w] IN
  /\ q.at = "write" /\ q.op \notin {"create", "heal"}
  /\ Put(q.booking, Written(q, rows[q.booking]))
  /\ slot' = IF q.op = "close" THEN Sweep(slot, q.seen.target, q.seen.dates, "past_work")
             ELSE slot
  /\ disturbed' = IF q.op \in {"ask", "close"}
                  THEN disturbed \cup Days(q.seen, rows[q.booking].dates) ELSE disturbed
  /\ asked' = IF q.op = "ask" THEN asked \cup {q.booking} ELSE asked
  /\ agreed' = IF q.op = "accept" THEN agreed \cup {q.booking} ELSE agreed
  /\ Serve(w, Idle)
  /\ UNCHANGED <<stage, tick>>

(***************************************************************************)
(* Reading a calendar: the slots, the bookings, then the write-back.       *)
(***************************************************************************)
BeginHeal(w, u) ==
  /\ Free(w)
  /\ \E d \in Date : slot[u][d] = "booked"
  /\ Serve(w, [Idle EXCEPT !.op = "heal", !.at = "bookings", !.user = u,
                           !.days = {d \in Date : slot[u][d] = "booked"}])
  /\ UNCHANGED <<rows, slot, stage, disturbed, asked, tick, agreed>>

ReadBookings(w) ==
  LET q == flight[w]
      stale == q.days \ TrueBooked(q.user) IN
  /\ q.at = "bookings"
  /\ Serve(w, IF stale = {} THEN Idle ELSE [q EXCEPT !.days = stale, !.at = "write"])
  /\ UNCHANGED <<rows, slot, stage, disturbed, asked, tick, agreed>>

WriteHeal(w) ==
  /\ flight[w].op = "heal" /\ flight[w].at = "write"
  /\ slot' = Sweep(slot, flight[w].user, flight[w].days, "available")
  /\ Serve(w, Idle)
  /\ UNCHANGED <<rows, stage, disturbed, asked, tick, agreed>>

\* A request dies at an await.
Fail(w) ==
  /\ ~Free(w)
  /\ Serve(w, Idle)
  /\ UNCHANGED <<rows, slot, stage, disturbed, asked, tick, agreed>>

(***************************************************************************)
(* The expiry job: findMany, then updateMany where status = 'pending'.     *)
(***************************************************************************)
\* Mutant of TickRead: the comparison with now is the wrong way round.
TickReadEarly ==
  /\ QueueEnabled /\ tick = {}
  /\ \E b \in Booking : rows[b].status = "pending" /\ ~rows[b].overdue
  /\ tick' = {b \in Booking : rows[b].status = "pending" /\ ~rows[b].overdue}
  /\ UNCHANGED <<rows, slot, stage, disturbed, asked, flight, agreed>>

TickRead ==
  /\ QueueEnabled /\ tick = {}
  /\ \E b \in Booking : Overdue(rows[b])
  /\ tick' = {b \in Booking : Overdue(rows[b])}
  /\ UNCHANGED <<rows, slot, stage, disturbed, asked, flight, agreed>>

\* Mutant of TickWrite: updates by id alone.
TickWriteById ==
  /\ tick # {}
  /\ rows' = [b \in Booking |-> IF b \in tick THEN Expired(rows[b]) ELSE rows[b]]
  /\ tick' = {}
  /\ UNCHANGED <<slot, stage, disturbed, asked, flight, agreed>>

TickWrite ==
  /\ tick # {}
  /\ rows' = [b \in Booking |-> IF b \in tick /\ rows[b].status = "pending"
                                THEN Expired(rows[b]) ELSE rows[b]]
  /\ tick' = {}
  /\ UNCHANGED <<slot, stage, disturbed, asked, flight, agreed>>

ClockTick(b) == TimePasses(b) /\ UNCHANGED <<flight, tick, agreed>>

WorkerStep(w) ==
  \/ \E op \in Op, u \in User, b \in Booking : Begin(w, op, u, b)
  \/ \E u \in User, p \in Project, t \in Account, i \in Item \cup {None},
        D \in (SUBSET Date) \ {{}} : BeginCreate(w, u, p, t, i, D)
  \/ \E b \in Booking : Insert(w, b)
  \/ ReadSlots(w)
  \/ ReadRivals(w)
  \/ \E d \in Date : WriteDay(w, d)
  \/ WriteRow(w)
  \/ \E u \in User : BeginHeal(w, u)
  \/ ReadBookings(w)
  \/ WriteHeal(w)
  \/ Fail(w)

RaceNext ==
  \/ \E w \in Worker : WorkerStep(w)
  \/ \E b \in Booking : ClockTick(b)
  \/ TickRead
  \/ TickWrite

RaceSpec == RaceInit /\ [][RaceNext]_raceVars /\ WF_raceVars(TickRead) /\ WF_raceVars(TickWrite)

(***************************************************************************)
(* Properties.                                                             *)
(***************************************************************************)

\* The type of what is in flight, over the type of the tables.
RaceTypeOK ==
  /\ TypeOK
  /\ flight \in [Worker -> Request]
  /\ tick \subseteq Booking
  /\ agreed \subseteq Booking

\* However requests interleave and die, nobody is held to a booking without having
\* accepted it: lock, requestCancellation and a refused cancellation write their
\* status over whatever the row holds by then.
ConsentGiven ==
  \A b \in Booking :
    rows[b].status \in {"accepted", "locked", "cancel_requested"} => b \in agreed

\* The expiry job never takes away what was agreed, though it collects the rows it
\* expires in a query of its own and accept writes without looking again: a request
\* its target has accepted in the meantime is not expired by the job.
JobSparesAnswered ==
  [][\A b \in Booking :
       tick' # tick /\ rows'[b].status # rows[b].status => b \notin agreed]_raceVars

\* accept counts the rival bookings of an item some time before it writes, so that
\* requests at once promise a unit twice, but no more often than requests overlap: on a
\* day where no cancellation was asked for and no booking closed, an item is overbooked
\* at most once for each further request that may be in flight.
OverbookedByOverlap ==
  \A x \in Item, d \in Date :
    <<x, d>> \notin disturbed => Cardinality(Users(rows, x, d)) < Capacity(x) + Cardinality(Worker)

\* The two queries of the job can run when there is something to read or to write: the
\* facts about ENABLED that OverdueSettled rests on here.
TickCanRun ==
  /\ QueueEnabled /\ tick = {} /\ (\E b \in Booking : Overdue(rows[b]))
       => ENABLED <<TickRead>>_raceVars
  /\ tick # {} => ENABLED <<TickWrite>>_raceVars

\* With one request at a time, a person's accepted or locked booking has its days
\* marked, whatever requests died half-way before.
ActiveDaysBooked ==
  \A u \in Persons, d \in Date :
    d \in TrueBooked(u) => slot[u][d] = "booked" \/ <<u, d>> \in disturbed
=============================================================================
