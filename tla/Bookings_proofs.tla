---------------------------- MODULE Bookings_proofs ----------------------------
(***************************************************************************)
(* Proofs about the serial booking engine, for any number of bookings,     *)
(* projects, users, items and days.                                        *)
(***************************************************************************)
EXTENDS Bookings, FiniteSetTheorems, TLAPS

(***************************************************************************)
(* Type correctness.                                                       *)
(***************************************************************************)

\* The column updates keep a row a row.
LEMMA RowUpdates ==
  ASSUME NEW r \in Row, NEW u \in User, NEW D \in SUBSET Date
  PROVE  /\ NoRow \in Row
         /\ Accepted(r) \in Row /\ Declined(r) \in Row /\ Expired(r) \in Row
         /\ Locked(r, D) \in Row /\ CancelAsked(r, u) \in Row /\ Cancelled(r, u) \in Row
         /\ CancelDenied(r, r.locked) \in Row
         /\ [r EXCEPT !.overdue = TRUE] \in Row
         /\ [r EXCEPT !.dates = D] \in Row
         /\ [r EXCEPT !.doneByTarget = TRUE] \in Row
         /\ [r EXCEPT !.doneByRequester = TRUE] \in Row
         /\ Days(r, D) \subseteq (Resource \cup {None}) \X Date
<1>1. NoRow \in Row
  BY DEF NoRow, Row, Status
<1>2. Accepted(r) \in Row /\ Declined(r) \in Row /\ Expired(r) \in Row
  BY DEF Row, Accepted, Declined, Expired, Status
<1>3. Locked(r, D) \in Row
  BY DEF Row, Locked, Status
<1>4. CancelAsked(r, u) \in Row /\ Cancelled(r, u) \in Row
  BY DEF Row, CancelAsked, Cancelled, Status
<1>5. CancelDenied(r, r.locked) \in Row
  BY DEF Row, CancelDenied, Status
<1>6. /\ [r EXCEPT !.overdue = TRUE] \in Row
      /\ [r EXCEPT !.dates = D] \in Row
      /\ [r EXCEPT !.doneByTarget = TRUE] \in Row
      /\ [r EXCEPT !.doneByRequester = TRUE] \in Row
  BY DEF Row
<1>7. ResourceOf(r) \in Resource \cup {None}
  BY DEF Row, ResourceOf, Resource
<1>8. Days(r, D) \subseteq (Resource \cup {None}) \X Date
  BY <1>7 DEF Days
<1> QED BY <1>1, <1>2, <1>3, <1>4, <1>5, <1>6, <1>8

\* createRequest inserts a well-formed row.
LEMMA NewRowType ==
  ASSUME NEW p \in Project, NEW q \in User, NEW t \in User,
         NEW i \in Item \cup {None}, NEW D \in SUBSET Date
  PROVE  NewRow(p, q, t, i, D) \in Row
BY DEF NewRow, NoRow, Row, Status

\* Writing days of one calendar keeps the calendars well-formed.
LEMMA SetDaysType ==
  ASSUME NEW s \in [User -> [Date -> SlotStatus]], NEW x, NEW D, NEW v \in SlotStatus
  PROVE  SetDays(s, x, D, v) \in [User -> [Date -> SlotStatus]]
BY DEF SetDays

\* The empty tables are well-typed.
LEMMA TypeInit == Init => TypeOK
BY DEF Init, TypeOK, NoRow, Row, Status, SlotStatus, ProjectStatus

\* Every handler writes well-typed columns.
LEMMA TypeStep == TypeOK /\ [Next]_vars => TypeOK'
<1> SUFFICES ASSUME TypeOK, [Next]_vars PROVE TypeOK'
  OBVIOUS
<1> USE DEF TypeOK
<1>a. ASSUME NEW b \in Booking, NEW r \in Row, Put(b, r) PROVE rows' \in [Booking -> Row]
  BY <1>a DEF Put
<1>d. Date \in SUBSET Date /\ \A b \in Booking : rows[b].dates \in SUBSET Date
  BY DEF Row
<1>r. \A b \in Booking : rows[b] \in Row
  OBVIOUS
<1>x. \A b \in Booking, D \in SUBSET Date :
        Days(rows[b], D) \subseteq (Resource \cup {None}) \X Date
  <2> TAKE b \in Booking, D \in SUBSET Date
  <2>1. ResourceOf(rows[b]) \in Resource \cup {None}
    BY <1>r DEF Row, ResourceOf, Resource
  <2> QED BY <2>1 DEF Days
<1>k. \A D \in LockDays, b \in Booking :
        /\ KeptOr(rows[b], D) \in SUBSET Date
        /\ DaysRewritten(rows[b], D) \subseteq (Resource \cup {None}) \X Date
  <2> TAKE D \in LockDays, b \in Booking
  <2>1. KeptOr(rows[b], D) \in SUBSET Date /\ (D # None => D \cup rows[b].dates \in SUBSET Date)
    BY <1>d, InputAssumption DEF KeptOr
  <2>2. CASE D = None
    BY <2>1, <2>2 DEF DaysRewritten
  <2>3. CASE D # None
    <3>1. Days(rows[b], D \cup rows[b].dates) \subseteq (Resource \cup {None}) \X Date
      BY <2>1, <2>3, <1>x
    <3> QED BY <2>1, <2>3, <3>1 DEF DaysRewritten
  <2> QED BY <2>2, <2>3
<1>m. \A u \in User : MainOf[u] \in User
  BY UserAssumption
<1>1. ASSUME NEW u \in User, NEW p \in Project, ProjectStep(u, p) PROVE TypeOK'
  <2>1. CASE CreateProject(u, p)
    BY <2>1 DEF CreateProject, ProjectStatus
  <2>2. ASSUME NEW st \in SettableStatus, UpdateProject(u, p, st) PROVE TypeOK'
    BY <2>2, InputAssumption DEF UpdateProject
  <2>3. ASSUME NEW st \in SettableStatus \cup {stage[p]}, NEW D \in NewDays, RedateProject(u, p, st, D)
        PROVE TypeOK'
    <3>1. D \in SUBSET Date
      BY InputAssumption
    <3>2. rows' \in [Booking -> Row]
      BY <2>3, <3>1, RowUpdates DEF RedateProject
    <3>3. slot' \in [User -> [Date -> SlotStatus]]
      BY <2>3 DEF RedateProject, RedatedSlots, SlotStatus
    <3>4. \A b \in OpenOn(p) :
            Days(rows[b], D \cup rows[b].dates) \subseteq (Resource \cup {None}) \X Date
      BY <3>1, <1>d, <1>x DEF OpenOn
    <3> DEFINE moved == UNION {Days(rows[b], D \cup rows[b].dates) : b \in OpenOn(p)}
    <3>6. moved \subseteq (Resource \cup {None}) \X Date
      <4> SUFFICES ASSUME NEW e \in moved PROVE e \in (Resource \cup {None}) \X Date
        OBVIOUS
      <4>1. PICK b \in OpenOn(p) : e \in Days(rows[b], D \cup rows[b].dates)
        OBVIOUS
      <4> QED BY <4>1, <3>4
    <3>7. disturbed' = disturbed \cup moved
      BY <2>3 DEF RedateProject
    <3>5. disturbed' \subseteq (Resource \cup {None}) \X Date
      BY <3>6, <3>7
    <3> QED BY <2>3, <3>2, <3>3, <3>5, InputAssumption DEF RedateProject
  <2>4. CASE RemoveProject(u, p)
    <3>1. NoRow \in Row
      BY DEF NoRow, Row, Status
    <3>2. rows' \in [Booking -> Row]
      BY <2>4, <3>1 DEF RemoveProject
    <3>3. slot' \in [User -> [Date -> SlotStatus]]
      BY <2>4 DEF RemoveProject, ReleasedSlots, SlotStatus
    <3> QED BY <2>4, <3>2, <3>3 DEF RemoveProject, ProjectStatus
  <2>5. ASSUME NEW D \in LockDays, LockAll(u, p, D) PROVE TypeOK'
    <3>1. rows' \in [Booking -> Row]
      BY <2>5, <1>k, <1>m, RowUpdates DEF LockAll
    <3>2. disturbed' \subseteq (Resource \cup {None}) \X Date
      BY <2>5, <1>k DEF LockAll, AcceptedOn
    <3> QED BY <2>5, <3>1, <3>2 DEF LockAll
  <2>6. ASSUME NEW t \in Account, NEW i \in Item \cup {None}, NEW D \in DaySets, NEW b \in Booking,
               CreateRequest(u, p, t, i, D, b)
        PROVE TypeOK'
    <3>1. NewRow(p, MainOf[u], t, i, D) \in Row
      BY NewRowType, <1>m DEF Account, DaySets
    <3> QED BY <2>6, <3>1, <1>a DEF CreateRequest
  <2> QED BY <1>1, <2>1, <2>2, <2>3, <2>4, <2>5, <2>6 DEF ProjectStep
<1>2. ASSUME NEW u \in User, NEW b \in Booking, BookingStep(u, b) PROVE TypeOK'
  <2> DEFINE r == rows[b]
  <2>r. /\ r \in Row /\ r.dates \in SUBSET Date
        /\ Accepted(r) \in Row /\ Declined(r) \in Row /\ Expired(r) \in Row
        /\ CancelAsked(r, u) \in Row /\ Cancelled(r, u) \in Row
        /\ CancelDenied(r, r.locked) \in Row
        /\ [r EXCEPT !.doneByTarget = TRUE] \in Row
        /\ [r EXCEPT !.doneByRequester = TRUE] \in Row
        /\ Days(r, r.dates) \subseteq (Resource \cup {None}) \X Date
    BY RowUpdates, <1>d
  <2> HIDE DEF r
  <2>s. {"available", "booked", "past_work"} \subseteq SlotStatus
    BY DEF SlotStatus
  <2>1. CASE Accept(u, b)
    BY <2>1, <2>r, <2>s, <1>a, SetDaysType DEF Accept, r
  <2>2. CASE AcceptTooLate(u, b)
    BY <2>2, <2>r, <1>a DEF AcceptTooLate, r
  <2>3. CASE Decline(u, b)
    BY <2>3, <2>r, <1>a DEF Decline, r
  <2>4. CASE Cancel(u, b)
    BY <2>4, <2>r, <1>a DEF Cancel, r
  <2>5. ASSUME NEW D \in LockDays, Lock(u, b, D) PROVE TypeOK'
    <3>1. Locked(r, KeptOr(r, D)) \in Row
      BY <1>k, <2>r, RowUpdates DEF r
    <3> QED BY <2>5, <3>1, <1>a, <1>k DEF Lock, r
  <2>6. CASE CompleteByTarget(u, b)
    BY <2>6, <2>r, <2>s, <1>a, SetDaysType DEF CompleteByTarget, Sweep, r
  <2>7. CASE CompleteByRequester(u, b)
    BY <2>7, <2>r, <1>a DEF CompleteByRequester, r
  <2>8. CASE RequestCancellation(u, b)
    BY <2>8, <2>r, <1>a DEF RequestCancellation, r
  <2>9. CASE AgreeToCancel(u, b)
    BY <2>9, <2>r, <2>s, <1>a, SetDaysType DEF AgreeToCancel, r
  <2>10. CASE RefuseToCancel(u, b)
    BY <2>10, <2>r, <1>a DEF RefuseToCancel, r
  <2> QED BY <1>2, <2>1, <2>2, <2>3, <2>4, <2>5, <2>6, <2>7, <2>8, <2>9, <2>10 DEF BookingStep
<1>3. ASSUME NEW u \in User, CalendarStep(u) PROVE TypeOK'
  <2>1. \A v \in UserSettable : v \in SlotStatus
    BY DEF UserSettable, SlotStatus
  <2>2. CASE HealCalendar(u)
    <3>1. SetDays(slot, u, Stale(u), "available") \in [User -> [Date -> SlotStatus]]
      BY <2>1, SetDaysType DEF UserSettable
    <3> QED BY <2>2, <3>1 DEF HealCalendar
  <2>3. ASSUME NEW D \in DaySets, NEW v \in UserSettable, BulkSet(u, D, v) PROVE TypeOK'
    <3>1. SetDays(slot, u, {d \in D : slot[u][d] \in UserSettable}, v)
            \in [User -> [Date -> SlotStatus]]
      BY <2>1, SetDaysType
    <3> QED BY <2>3, <3>1 DEF BulkSet
  <2> QED BY <1>3, <2>2, <2>3 DEF CalendarStep
<1>4. ASSUME NEW b \in Booking, TimePasses(b) PROVE TypeOK'
  <2>1. [rows[b] EXCEPT !.overdue = TRUE] \in Row
    BY <1>r DEF Row
  <2> QED BY <1>4, <2>1, <1>a DEF TimePasses
<1>5. CASE ExpireTick
  <2>1. \A b \in Booking : Expired(rows[b]) \in Row
    BY <1>r DEF Expired, Row, Status
  <2> QED BY <1>5, <2>1 DEF ExpireTick
<1>6. CASE UNCHANGED vars
  BY <1>6 DEF vars
<1> QED BY <1>1, <1>2, <1>3, <1>4, <1>5, <1>6 DEF Next

\* The tables are well-typed in every reachable state.
THEOREM TypeCorrect == Spec => []TypeOK
BY TypeInit, TypeStep, PTL DEF Spec

(***************************************************************************)
(* Capacity and calendar.  CapacityRespected is not inductive alone:       *)
(* accept looks at a person's other bookings only when a slot of the days  *)
(* is marked, so it needs CalendarAgrees; refusing a cancellation revives  *)
(* a booking without any check, so it needs AskedDaysDisturbed.            *)
(***************************************************************************)
\* A booking under a cancellation request has all its days marked as disturbed,
\* those it was moved to since included: when agreeing frees them, no other
\* booking loses its slot on a day the engine still defends.
AskedDaysDisturbed ==
  \A b \in Booking :
    rows[b].status = "cancel_requested" => Days(rows[b], rows[b].dates) \subseteq disturbed


\* The inductive invariant.
IInv == TypeOK /\ CapacityRespected /\ CalendarAgrees /\ AskedDaysDisturbed

\* Row r holds resource x on day d.
Covers(r, x, d) == Active(r) /\ ResourceOf(r) = x /\ d \in r.dates

\* The bookings that hold a day are finitely many.
LEMMA UsersFinite ==
  ASSUME NEW x, NEW d
  PROVE  IsFiniteSet(Users(rows, x, d)) /\ Cardinality(Users(rows, x, d)) \in Nat
<1>1. Users(rows, x, d) \subseteq Booking
  BY DEF Users
<1>2. IsFiniteSet(Users(rows, x, d))
  BY <1>1, FS_Subset, FiniteAssumption
<1> QED BY <1>2, FS_CardinalityType

\* Two different members make a set larger than one: how a person's second booking
\* for a day shows in the count accept compares with the capacity.
LEMMA PairSize ==
  ASSUME NEW a, NEW b, a # b
  PROVE  IsFiniteSet({a, b}) /\ Cardinality({a, b}) = 2
<1>1. IsFiniteSet({a}) /\ Cardinality({a}) = 1
  BY FS_Singleton
<1>2. IsFiniteSet({a} \cup {b}) /\ Cardinality({a} \cup {b}) = Cardinality({a}) + 1
  BY <1>1, FS_AddElement
<1>3. {a} \cup {b} = {a, b}
  OBVIOUS
<1> QED BY <1>1, <1>2, <1>3

\* A person's day is covered exactly when some booking holds it.
LEMMA TrueBookedUsers ==
  ASSUME TypeOK, NEW u \in Persons, NEW d \in Date
  PROVE  /\ d \in TrueBooked(u) <=> \E b \in Booking : Covers(rows[b], u, d)
         /\ d \in TrueBooked(u) <=> Users(rows, u, d) # {}
<1>1. u \in User /\ u \notin Item /\ u # None
  BY ItemAssumption, NoneAssumption DEF Persons, Account
<1>2. \A b \in Booking : ResourceOf(rows[b]) = u <=> rows[b].target = u
  <2> TAKE b \in Booking
  <2>1. rows[b].item \in Item \cup {None}
    BY DEF TypeOK, Row
  <2> QED BY <1>1, <2>1 DEF ResourceOf
<1> QED BY <1>2 DEF TrueBooked, Users, Covers

\* A person has room for one booking a day, an item for at least one.
LEMMA CapacityValue ==
  /\ \A x \in Resource : Capacity(x) \in Nat /\ Capacity(x) >= 1
  /\ \A u \in Persons : Capacity(u) = 1
BY ItemAssumption DEF Capacity, Resource, Persons, Account

\* A step that changes nothing on undisturbed days, neither who holds them nor
\* whether their slot is booked, preserves the invariant.
LEMMA QuietStep ==
  ASSUME IInv, TypeOK', disturbed \subseteq disturbed',
         \A x \in Resource, d \in Date, b \in Booking :
           <<x, d>> \notin disturbed' => (Covers(rows'[b], x, d) <=> Covers(rows[b], x, d)),
         \A u \in Persons, d \in Date :
           <<u, d>> \notin disturbed' => (slot'[u][d] = "booked" <=> slot[u][d] = "booked"),
         AskedDaysDisturbed'
  PROVE  IInv'
<1>1. CapacityRespected'
  <2> SUFFICES ASSUME NEW x \in Resource, NEW d \in Date, <<x, d>> \notin disturbed'
               PROVE  Cardinality(Users(rows', x, d)) <= Capacity(x)
    BY DEF CapacityRespected
  <2>1. Users(rows', x, d) = Users(rows, x, d)
    BY DEF Users, Covers
  <2> QED BY <2>1 DEF IInv, CapacityRespected
<1>2. CalendarAgrees'
  <2> SUFFICES ASSUME NEW u \in Persons, NEW d \in Date, <<u, d>> \notin disturbed'
               PROVE  slot'[u][d] = "booked" <=> d \in TrueBooked(u)'
    BY DEF CalendarAgrees
  <2>1. u \in Resource
    BY DEF Resource
  <2>2. d \in TrueBooked(u) <=> \E b \in Booking : Covers(rows[b], u, d)
    BY TrueBookedUsers DEF IInv
  <2>3. d \in TrueBooked(u)' <=> \E b \in Booking : Covers(rows'[b], u, d)
    <3>1. u \in User /\ u \notin Item /\ u # None
      BY ItemAssumption, NoneAssumption DEF Persons, Account
    <3>2. \A b \in Booking : rows'[b].item \in Item \cup {None}
      BY DEF TypeOK, Row
    <3> QED BY <3>1, <3>2 DEF TrueBooked, Covers, ResourceOf
  <2> QED BY <2>1, <2>2, <2>3 DEF IInv, CalendarAgrees
<1> QED BY <1>1, <1>2 DEF IInv

\* Accepting a booking that passed the conflict check.
LEMMA AcceptStep ==
  ASSUME IInv, TypeOK', NEW u \in User, NEW b \in Booking, Accept(u, b)
  PROVE  IInv'
<1> DEFINE r == rows[b]
           y == ResourceOf(r)
<1>1. /\ r.status = "pending" /\ r \in Row /\ disturbed' = disturbed
      /\ rows' = [rows EXCEPT ![b] = Accepted(r)]
      /\ ~Conflict(rows, slot, b)
      /\ slot' = IF r.target \in Persons THEN SetDays(slot, r.target, r.dates, "booked") ELSE slot
  BY DEF Accept, MayAnswer, Put, IInv, TypeOK
<1>2. /\ Accepted(r).status = "accepted" /\ Accepted(r).dates = r.dates
      /\ ResourceOf(Accepted(r)) = y
  BY <1>1 DEF Accepted, Row, ResourceOf
<1>3. \A c \in Booking : rows'[c] = IF c = b THEN Accepted(r) ELSE rows[c]
  BY <1>1 DEF IInv, TypeOK
<1>4. \A x, d : b \notin Users(rows, x, d)
  BY <1>1 DEF Users, Active
<1>5. \A x, d : Users(rows', x, d) = IF x = y /\ d \in r.dates
                                    THEN Users(rows, x, d) \cup {b} ELSE Users(rows, x, d)
  BY <1>2, <1>3, <1>4 DEF Users, Active
<1>6. ASSUME NEW d \in r.dates, d \in Date, y \in Resource, <<y, d>> \notin disturbed
      PROVE  Cardinality(Users(rows, y, d)) < Capacity(y)
  <2>1. Cardinality(Users(rows, y, d)) \in Nat /\ Capacity(y) \in Nat /\ Capacity(y) >= 1
    BY UsersFinite, CapacityValue, <1>6
  <2>2. CASE CapacityReached(rows, b, r.dates)
    <3>1. r.target \in Persons /\ ~SlotTaken(slot, r.target, r.dates)
      BY <2>2, <1>1 DEF Conflict
    <3>2. y = r.target
      BY <3>1 DEF ResourceOf
    <3>3. slot[y][d] # "booked"
      BY <3>1, <3>2, <1>6 DEF SlotTaken
    <3>4. d \notin TrueBooked(y)
      BY <3>1, <3>2, <3>3, <1>6 DEF IInv, CalendarAgrees
    <3>5. Users(rows, y, d) = {}
      BY <3>1, <3>2, <3>4, <1>6, TrueBookedUsers DEF IInv
    <3> QED BY <3>5, <2>1, FS_EmptySet
  <2>3. CASE ~CapacityReached(rows, b, r.dates)
    <3>1. y # None
      BY <1>6, NoneAssumption DEF Resource, Persons, Account
    <3>2. ~(Cardinality(Users(rows, y, d) \ {b}) >= Capacity(y))
      BY <2>3, <3>1, <1>6 DEF CapacityReached
    <3>3. Users(rows, y, d) \ {b} = Users(rows, y, d)
      BY <1>4
    <3> QED BY <3>2, <3>3, <2>1
  <2> QED BY <2>2, <2>3
<1>7. CapacityRespected'
  <2> SUFFICES ASSUME NEW x \in Resource, NEW d \in Date, <<x, d>> \notin disturbed
               PROVE  Cardinality(Users(rows', x, d)) <= Capacity(x)
    BY <1>1 DEF CapacityRespected
  <2>1. CASE x = y /\ d \in r.dates
    <3>1. Cardinality(Users(rows, x, d)) < Capacity(x)
      BY <2>1, <1>6
    <3>2. Cardinality(Users(rows', x, d)) = Cardinality(Users(rows, x, d)) + 1
      BY <2>1, <1>4, <1>5, UsersFinite, FS_AddElement
    <3> QED BY <3>1, <3>2, UsersFinite, CapacityValue
  <2>2. CASE ~(x = y /\ d \in r.dates)
    BY <2>2, <1>5 DEF IInv, CapacityRespected
  <2> QED BY <2>1, <2>2
<1>8. CalendarAgrees'
  <2> SUFFICES ASSUME NEW v \in Persons, NEW d \in Date, <<v, d>> \notin disturbed
               PROVE  slot'[v][d] = "booked" <=> d \in TrueBooked(v)'
    BY <1>1 DEF CalendarAgrees
  <2>1. slot[v][d] = "booked" <=> d \in TrueBooked(v)
    BY DEF IInv, CalendarAgrees
  <2>2. v \in User
    BY DEF Persons, Account
  <2>t. Accepted(r).target = r.target
    BY <1>1 DEF Accepted, Row
  <2>3. d \in TrueBooked(v)' <=> d \in TrueBooked(v) \/ (r.target = v /\ d \in r.dates)
    BY <1>2, <1>3, <1>1, <2>t DEF TrueBooked, Active
  <2>4. slot'[v][d] = "booked" <=> slot[v][d] = "booked" \/ (r.target = v /\ d \in r.dates)
    BY <1>1, <2>2 DEF SetDays, IInv, TypeOK
  <2> QED BY <2>1, <2>3, <2>4
<1>9. AskedDaysDisturbed'
  BY <1>1, <1>2, <1>3 DEF IInv, AskedDaysDisturbed
<1> QED BY <1>7, <1>8, <1>9 DEF IInv

\* Removing a project frees the days its bookings hold: on an undisturbed day
\* nobody else holds them.
LEMMA RemoveStep ==
  ASSUME IInv, TypeOK', NEW u \in User, NEW p \in Project, RemoveProject(u, p)
  PROVE  IInv'
<1>1. /\ disturbed' = disturbed
      /\ \A c \in Booking : rows'[c] = IF rows[c].project = p THEN NoRow ELSE rows[c]
      /\ slot' = ReleasedSlots(p)
  BY DEF RemoveProject
<1>2. NoRow.status = "absent"
  BY DEF NoRow
<1>3. CapacityRespected'
  <2> SUFFICES ASSUME NEW x \in Resource, NEW d \in Date, <<x, d>> \notin disturbed
               PROVE  Cardinality(Users(rows', x, d)) <= Capacity(x)
    BY <1>1 DEF CapacityRespected
  <2>1. Users(rows', x, d) \subseteq Users(rows, x, d)
    BY <1>1, <1>2 DEF Users, Active
  <2>2. Cardinality(Users(rows, x, d)) <= Capacity(x)
    BY DEF IInv, CapacityRespected
  <2>3. IsFiniteSet(Users(rows, x, d)) /\ Cardinality(Users(rows, x, d)) \in Nat
    BY UsersFinite
  <2>4. /\ IsFiniteSet(Users(rows', x, d))
        /\ Cardinality(Users(rows', x, d)) <= Cardinality(Users(rows, x, d))
    BY <2>1, <2>3, FS_Subset
  <2>5. Cardinality(Users(rows', x, d)) \in Nat /\ Capacity(x) \in Nat
    BY <2>4, FS_CardinalityType, CapacityValue
  <2> QED BY <2>2, <2>3, <2>4, <2>5
<1>4. CalendarAgrees'
  <2> SUFFICES ASSUME NEW v \in Persons, NEW d \in Date, <<v, d>> \notin disturbed
               PROVE  slot'[v][d] = "booked" <=> d \in TrueBooked(v)'
    BY <1>1 DEF CalendarAgrees
  <2> DEFINE Mine == {b \in ActiveOn(p) : rows[b].target = v /\ d \in rows[b].dates}
  <2>1. slot[v][d] = "booked" <=> d \in TrueBooked(v)
    BY DEF IInv, CalendarAgrees
  <2>2. v \in User /\ v \in Resource
    BY DEF Persons, Account, Resource
  <2>3. slot'[v][d] = IF slot[v][d] = "booked" /\ Mine # {} THEN "available" ELSE slot[v][d]
    BY <1>1, <2>2 DEF ReleasedSlots
  <2>4. CASE Mine = {}
    <3>1. d \in TrueBooked(v)' <=> d \in TrueBooked(v)
      BY <1>1, <1>2, <2>4 DEF TrueBooked, Active, ActiveOn, OpenOn, Exists, Closed
    <3> QED BY <2>1, <2>3, <2>4, <3>1
  <2>5. CASE Mine # {}
    <3>1. PICK b \in Mine : TRUE
      BY <2>5
    <3>2. b \in Booking /\ Covers(rows[b], v, d) /\ rows[b].project = p
      BY <3>1 DEF ActiveOn, OpenOn, Covers, ResourceOf
    <3>3. ASSUME d \in TrueBooked(v)' PROVE FALSE
      <4>1. PICK c \in Booking : rows'[c].target = v /\ Active(rows'[c]) /\ d \in rows'[c].dates
        BY <3>3 DEF TrueBooked
      <4>2. rows[c].project # p /\ rows'[c] = rows[c]
        BY <4>1, <1>1, <1>2 DEF Active
      <4>3. b # c /\ Covers(rows[c], v, d)
        BY <4>1, <4>2, <3>2 DEF Covers, ResourceOf
      <4>4. {b, c} \subseteq Users(rows, v, d)
        BY <3>2, <4>3 DEF Users, Covers
      <4>5. IsFiniteSet({b, c}) /\ Cardinality({b, c}) = 2
        BY <4>3, PairSize
      <4>6. 2 <= Cardinality(Users(rows, v, d))
        BY <4>4, <4>5, UsersFinite, FS_Subset
      <4>7. Cardinality(Users(rows, v, d)) <= 1
        BY <2>2, CapacityValue DEF IInv, CapacityRespected
      <4> QED BY <4>6, <4>7, UsersFinite
    <3>4. slot'[v][d] # "booked"
      BY <2>3, <2>5
    <3> QED BY <3>3, <3>4
  <2> QED BY <2>4, <2>5
<1>5. AskedDaysDisturbed'
  BY <1>1, <1>2 DEF IInv, AskedDaysDisturbed
<1> QED BY <1>3, <1>4, <1>5 DEF IInv

\* QuietStep for a step that writes one row.
LEMMA QuietRow ==
  ASSUME IInv, TypeOK', disturbed \subseteq disturbed',
         NEW b \in Booking, NEW r, Put(b, r),
         \A x \in Resource, d \in Date :
           <<x, d>> \notin disturbed' => (Covers(r, x, d) <=> Covers(rows[b], x, d)),
         \A u \in Persons, d \in Date :
           <<u, d>> \notin disturbed' => (slot'[u][d] = "booked" <=> slot[u][d] = "booked"),
         r.status = "cancel_requested" => Days(r, r.dates) \subseteq disturbed'
  PROVE  IInv'
<1>1. \A c \in Booking : rows'[c] = IF c = b THEN r ELSE rows[c]
  BY DEF Put, IInv, TypeOK
<1>2. \A x \in Resource, d \in Date, c \in Booking :
        <<x, d>> \notin disturbed' => (Covers(rows'[c], x, d) <=> Covers(rows[c], x, d))
  BY <1>1
<1>3. AskedDaysDisturbed'
  BY <1>1 DEF AskedDaysDisturbed, IInv
<1> QED BY <1>2, <1>3, QuietStep

\* A disturbed day of a row is no undisturbed day it covers.
LEMMA DisturbedDays ==
  ASSUME NEW r, NEW E, Days(r, r.dates) \subseteq E, NEW x, NEW d, <<x, d>> \notin E
  PROVE  ~Covers(r, x, d)
BY DEF Days, Covers

\* The handlers of ProjectsService, createRequest and lockAllProjectBookings
\* preserve the invariant.
LEMMA ProjectSteps ==
  ASSUME IInv, TypeOK', NEW u \in User, NEW p \in Project, ProjectStep(u, p)
  PROVE  IInv'
<1> USE DEF IInv
<1>1. CASE CreateProject(u, p)
  BY <1>1, QuietStep DEF CreateProject, AskedDaysDisturbed
<1>2. ASSUME NEW st \in SettableStatus, UpdateProject(u, p, st) PROVE IInv'
  BY <1>2, QuietStep DEF UpdateProject, AskedDaysDisturbed
<1>3. ASSUME NEW st \in SettableStatus \cup {stage[p]}, NEW D \in NewDays, RedateProject(u, p, st, D)
      PROVE IInv'
  <2>1. /\ \A c \in Booking : rows'[c] = IF c \in OpenOn(p) THEN [rows[c] EXCEPT !.dates = D]
                                         ELSE rows[c]
        /\ slot' = RedatedSlots(p, D)
        /\ disturbed \subseteq disturbed'
        /\ \A c \in OpenOn(p) : Days(rows[c], D \cup rows[c].dates) \subseteq disturbed'
    BY <1>3 DEF RedateProject
  <2>2. ASSUME NEW c \in OpenOn(p)
        PROVE  /\ c \in Booking /\ rows'[c].dates = D /\ rows'[c].status = rows[c].status
               /\ ResourceOf(rows'[c]) = ResourceOf(rows[c])
    BY <2>1 DEF OpenOn, TypeOK, Row, ResourceOf
  <2>3. ASSUME NEW x \in Resource, NEW d \in Date, NEW c \in Booking, <<x, d>> \notin disturbed'
        PROVE  Covers(rows'[c], x, d) <=> Covers(rows[c], x, d)
    <3>1. CASE c \in OpenOn(p)
      BY <3>1, <2>1, <2>2, <2>3 DEF Covers, Days
    <3>2. CASE c \notin OpenOn(p)
      BY <3>2, <2>1
    <3> QED BY <3>1, <3>2
  <2>4. ASSUME NEW v \in Persons, NEW d \in Date, <<v, d>> \notin disturbed'
        PROVE  slot'[v][d] = "booked" <=> slot[v][d] = "booked"
    <3>1. \A c \in ActiveOn(p) : rows[c].target = v => d \notin D \cup rows[c].dates
      BY <2>1, <2>4 DEF ActiveOn, Days, ResourceOf
    <3>2. v \in User
      BY DEF Persons, Account
    <3> QED BY <3>1, <3>2, <2>1 DEF RedatedSlots
  <2>5. AskedDaysDisturbed'
    <3> SUFFICES ASSUME NEW c \in Booking, rows'[c].status = "cancel_requested"
                 PROVE  Days(rows'[c], rows'[c].dates) \subseteq disturbed'
      BY DEF AskedDaysDisturbed
    <3>1. CASE c \in OpenOn(p)
      BY <3>1, <2>1, <2>2 DEF Days
    <3>2. CASE c \notin OpenOn(p)
      BY <3>2, <2>1 DEF AskedDaysDisturbed
    <3> QED BY <3>1, <3>2
  <2> QED BY <2>1, <2>3, <2>4, <2>5, QuietStep
<1>4. CASE RemoveProject(u, p)
  BY <1>4, RemoveStep
<1>5. ASSUME NEW D \in LockDays, LockAll(u, p, D) PROVE IInv'
  <2>1. /\ \A c \in Booking : rows'[c] = IF c \in AcceptedOn(p)
                                         THEN Locked(rows[c], KeptOr(rows[c], D)) ELSE rows[c]
        /\ slot' = slot
        /\ disturbed \subseteq disturbed'
        /\ \A c \in AcceptedOn(p) : DaysRewritten(rows[c], D) \subseteq disturbed'
    BY <1>5 DEF LockAll
  <2>2. ASSUME NEW c \in AcceptedOn(p)
        PROVE  /\ rows'[c].status = "locked" /\ rows[c].status = "accepted"
               /\ rows'[c].dates = KeptOr(rows[c], D)
               /\ ResourceOf(rows'[c]) = ResourceOf(rows[c])
    <3>1. c \in Booking /\ rows[c] \in Row /\ rows[c].status = "accepted"
      BY DEF AcceptedOn, TypeOK
    <3>2. rows'[c] = Locked(rows[c], KeptOr(rows[c], D))
      BY <2>1, <3>1
    <3> QED BY <3>1, <3>2 DEF Row, Locked, ResourceOf
  <2>3. ASSUME NEW x \in Resource, NEW d \in Date, NEW c \in Booking, <<x, d>> \notin disturbed'
        PROVE  Covers(rows'[c], x, d) <=> Covers(rows[c], x, d)
    <3>1. CASE c \in AcceptedOn(p)
      BY <3>1, <2>1, <2>2, <2>3 DEF Covers, Days, KeptOr, DaysRewritten, Active
    <3>2. CASE c \notin AcceptedOn(p)
      BY <3>2, <2>1
    <3> QED BY <3>1, <3>2
  <2>4. AskedDaysDisturbed'
    BY <2>1, <2>2 DEF AskedDaysDisturbed
  <2> QED BY <2>1, <2>3, <2>4, QuietStep
<1>6. ASSUME NEW t \in Account, NEW i \in Item \cup {None}, NEW D \in DaySets, NEW b \in Booking,
             CreateRequest(u, p, t, i, D, b)
      PROVE IInv'
  <2>1. NewRow(p, MainOf[u], t, i, D).status = "pending"
    BY DEF NewRow, NoRow
  <2>2. /\ Put(b, NewRow(p, MainOf[u], t, i, D)) /\ rows[b].status = "absent"
        /\ UNCHANGED <<slot, disturbed>>
    BY <1>6 DEF CreateRequest
  <2>3. \A x \in Resource, d \in Date :
          Covers(NewRow(p, MainOf[u], t, i, D), x, d) <=> Covers(rows[b], x, d)
    BY <2>1, <2>2 DEF Covers, Active
  <2> QED BY <2>1, <2>2, <2>3, QuietRow
<1> QED BY <1>1, <1>2, <1>3, <1>4, <1>5, <1>6 DEF ProjectStep

\* The handlers that act on one booking preserve the invariant.
LEMMA BookingSteps ==
  ASSUME IInv, TypeOK', NEW u \in User, NEW b \in Booking, BookingStep(u, b)
  PROVE  IInv'
<1> DEFINE r == rows[b]
<1>r. r \in Row
  BY DEF IInv, TypeOK
<1>s. ASSUME NEW q, Put(b, q), UNCHANGED <<slot, disturbed>>, ~Active(r), ~Active(q),
             q.status # "cancel_requested"
      PROVE  IInv'
  BY <1>s, QuietRow DEF Covers
<1>1. CASE Accept(u, b)
  BY <1>1, AcceptStep
<1>2. CASE AcceptTooLate(u, b)
  BY <1>2, <1>s, <1>r DEF AcceptTooLate, MayAnswer, Expired, Active, Row
<1>3. CASE Decline(u, b)
  BY <1>3, <1>s, <1>r DEF Decline, MayAnswer, Declined, Active, Row
<1>4. CASE Cancel(u, b)
  BY <1>4, <1>s, <1>r DEF Cancel, MayWithdraw, Cancelled, Active, Row
<1>5. ASSUME NEW D \in LockDays, Lock(u, b, D) PROVE IInv'
  <2> DEFINE q == Locked(r, KeptOr(r, D))
  <2>1. /\ Put(b, q) /\ slot' = slot /\ r.status = "accepted"
        /\ disturbed' = disturbed \cup DaysRewritten(r, D)
    BY <1>5 DEF Lock, MayLock
  <2>2. q.status = "locked" /\ q.dates = KeptOr(r, D) /\ ResourceOf(q) = ResourceOf(r)
    BY <1>r DEF Row, Locked, ResourceOf
  <2>3. ASSUME NEW x \in Resource, NEW d \in Date, <<x, d>> \notin disturbed'
        PROVE  Covers(q, x, d) <=> Covers(r, x, d)
    BY <2>1, <2>2, <2>3 DEF Covers, Days, KeptOr, DaysRewritten, Active
  <2> HIDE DEF q
  <2> QED BY <2>1, <2>2, <2>3, QuietRow
<1>6. CASE CompleteByTarget(u, b)
  <2> DEFINE q == [r EXCEPT !.doneByTarget = TRUE]
  <2>1. /\ Put(b, q) /\ Active(r)
        /\ slot' = Sweep(slot, r.target, r.dates, "past_work")
        /\ disturbed' = disturbed \cup Days(r, r.dates)
    BY <1>6 DEF CompleteByTarget, MayClose
  <2>2. /\ q.status = r.status /\ q.dates = r.dates /\ ResourceOf(q) = ResourceOf(r)
    BY <1>r DEF Row, ResourceOf
  <2>3. \A x, d : Covers(q, x, d) <=> Covers(r, x, d)
    BY <2>2 DEF Covers, Active
  <2>4. ASSUME NEW v \in Persons, NEW d \in Date, <<v, d>> \notin disturbed'
        PROVE  slot'[v][d] = "booked" <=> slot[v][d] = "booked"
    <3>1. v \in User
      BY DEF Persons, Account
    <3>2. ~(r.target = v /\ d \in r.dates)
      BY <2>1, <2>4 DEF Days, ResourceOf
    <3> QED BY <2>1, <3>1, <3>2 DEF Sweep, SetDays, IInv, TypeOK
  <2>5. q.status # "cancel_requested"
    BY <2>1, <2>2 DEF Active
  <2> HIDE DEF q
  <2> QED BY <2>1, <2>3, <2>4, <2>5, QuietRow
<1>7. CASE CompleteByRequester(u, b)
  <2> DEFINE q == [r EXCEPT !.doneByRequester = TRUE]
  <2>1. Put(b, q) /\ UNCHANGED <<slot, disturbed>> /\ Active(r)
    BY <1>7 DEF CompleteByRequester, MayCloseAsRequester
  <2>2. q.status = r.status /\ q.dates = r.dates /\ ResourceOf(q) = ResourceOf(r)
    BY <1>r DEF Row, ResourceOf
  <2>3. \A x, d : Covers(q, x, d) <=> Covers(r, x, d)
    BY <2>2 DEF Covers, Active
  <2>4. q.status # "cancel_requested"
    BY <2>1, <2>2 DEF Active
  <2> HIDE DEF q
  <2> QED BY <2>1, <2>3, <2>4, QuietRow
<1>8. CASE RequestCancellation(u, b)
  <2> DEFINE q == CancelAsked(r, u)
  <2>1. Put(b, q) /\ slot' = slot /\ disturbed' = disturbed \cup Days(r, r.dates)
    BY <1>8 DEF RequestCancellation
  <2>2. q.status = "cancel_requested" /\ q.dates = r.dates /\ ResourceOf(q) = ResourceOf(r)
    BY <1>r DEF Row, CancelAsked, ResourceOf
  <2>3. Days(q, q.dates) \subseteq disturbed' /\ Days(r, r.dates) \subseteq disturbed'
    BY <2>1, <2>2 DEF Days
  <2> HIDE DEF q
  <2>4. \A x \in Resource, d \in Date :
          <<x, d>> \notin disturbed' => (Covers(q, x, d) <=> Covers(r, x, d))
    BY <2>3, DisturbedDays
  <2> QED BY <2>1, <2>3, <2>4, QuietRow
<1>9. CASE AgreeToCancel(u, b)
  <2> DEFINE q == Cancelled(r, u)
  <2>1. /\ Put(b, q) /\ disturbed' = disturbed /\ r.status = "cancel_requested"
        /\ slot' = SetDays(slot, r.target, r.dates, "available")
    BY <1>9 DEF AgreeToCancel, MayRespond
  <2>2. q.status = "cancelled"
    BY <1>r DEF Row, Cancelled
  <2>3. \A x, d : ~Covers(q, x, d) /\ ~Covers(r, x, d)
    BY <2>1, <2>2 DEF Covers, Active
  <2>4. ASSUME NEW v \in Persons, NEW d \in Date, <<v, d>> \notin disturbed
        PROVE  slot'[v][d] = "booked" <=> slot[v][d] = "booked"
    <3>1. v \in User
      BY DEF Persons, Account
    <3>2. Days(r, r.dates) \subseteq disturbed
      BY <2>1 DEF IInv, AskedDaysDisturbed
    <3>3. ~(r.target = v /\ d \in r.dates)
      BY <3>2, <2>4 DEF Days, ResourceOf
    <3> QED BY <2>1, <3>1, <3>3 DEF SetDays, IInv, TypeOK
  <2> HIDE DEF q
  <2> QED BY <2>1, <2>2, <2>3, <2>4, QuietRow
<1>10. CASE RefuseToCancel(u, b)
  <2> DEFINE q == CancelDenied(r, r.locked)
  <2>1. Put(b, q) /\ UNCHANGED <<slot, disturbed>> /\ r.status = "cancel_requested"
    BY <1>10 DEF RefuseToCancel, MayRespond
  <2>2. /\ q.status # "cancel_requested" /\ q.dates = r.dates
        /\ ResourceOf(q) = ResourceOf(r)
    BY <1>r DEF Row, CancelDenied, ResourceOf
  <2>3. Days(r, r.dates) \subseteq disturbed /\ Days(q, q.dates) \subseteq disturbed
    BY <2>1, <2>2 DEF IInv, AskedDaysDisturbed, Days
  <2> HIDE DEF q
  <2>4. \A x \in Resource, d \in Date :
          <<x, d>> \notin disturbed' => (Covers(q, x, d) <=> Covers(r, x, d))
    BY <2>1, <2>3, DisturbedDays
  <2> QED BY <2>1, <2>2, <2>4, QuietRow
<1> QED BY <1>1, <1>2, <1>3, <1>4, <1>5, <1>6, <1>7, <1>8, <1>9, <1>10 DEF BookingStep

\* Reading a calendar and editing one's own days preserve the invariant.
LEMMA CalendarSteps ==
  ASSUME IInv, TypeOK', NEW u \in User, CalendarStep(u)
  PROVE  IInv'
<1>t. slot \in [User -> [Date -> SlotStatus]]
  BY DEF IInv, TypeOK
<1>q. ASSUME UNCHANGED <<rows, disturbed>>,
             \A v \in Persons, d \in Date :
               <<v, d>> \notin disturbed => (slot'[v][d] = "booked" <=> slot[v][d] = "booked")
      PROVE  IInv'
  BY <1>q, QuietStep DEF IInv, AskedDaysDisturbed
<1>1. CASE HealCalendar(u)
  <2> SUFFICES ASSUME NEW v \in Persons, NEW d \in Date, <<v, d>> \notin disturbed
               PROVE  slot'[v][d] = "booked" <=> slot[v][d] = "booked"
    BY <1>1, <1>q DEF HealCalendar
  <2>1. v \in User
    BY DEF Persons, Account
  <2>2. v = u => d \notin Stale(u)
    BY DEF IInv, CalendarAgrees, Stale
  <2>3. slot' = SetDays(slot, u, Stale(u), "available")
    BY <1>1 DEF HealCalendar
  <2> QED BY <2>1, <2>2, <2>3, <1>t DEF SetDays
<1>2. ASSUME NEW D \in DaySets, NEW s \in UserSettable, BulkSet(u, D, s) PROVE IInv'
  <2> SUFFICES ASSUME NEW v \in Persons, NEW d \in Date
               PROVE  slot'[v][d] = "booked" <=> slot[v][d] = "booked"
    BY <1>2, <1>q DEF BulkSet
  <2>1. v \in User
    BY DEF Persons, Account
  <2>2. slot' = SetDays(slot, u, {e \in D : slot[u][e] \in UserSettable}, s)
    BY <1>2 DEF BulkSet
  <2> QED BY <2>1, <2>2, <1>t DEF SetDays, UserSettable
<1> QED BY <1>1, <1>2 DEF CalendarStep

(***************************************************************************)
(* The invariant holds.                                                    *)
(***************************************************************************)
\* With no bookings and no slots the invariant holds.
LEMMA InvInit == Init => IInv
<1> SUFFICES ASSUME Init PROVE IInv
  OBVIOUS
<1>1. TypeOK
  BY TypeInit
<1>2. \A x, d : Users(rows, x, d) = {}
  BY DEF Init, Users, Active, NoRow
<1>3. CapacityRespected
  BY <1>2, FS_EmptySet, CapacityValue DEF CapacityRespected
<1>4. CalendarAgrees
  BY DEF Init, CalendarAgrees, TrueBooked, Active, NoRow, Persons, Account
<1>5. AskedDaysDisturbed
  BY DEF Init, AskedDaysDisturbed, NoRow
<1> QED BY <1>1, <1>3, <1>4, <1>5 DEF IInv

\* Every step of the engine preserves the invariant.
LEMMA InvStep == IInv /\ [Next]_vars => IInv'
<1> SUFFICES ASSUME IInv, [Next]_vars PROVE IInv'
  OBVIOUS
<1>t. TypeOK'
  BY TypeStep DEF IInv
<1>1. ASSUME NEW u \in User, NEW p \in Project, ProjectStep(u, p) PROVE IInv'
  BY <1>1, <1>t, ProjectSteps
<1>2. ASSUME NEW u \in User, NEW b \in Booking, BookingStep(u, b) PROVE IInv'
  BY <1>2, <1>t, BookingSteps
<1>3. ASSUME NEW u \in User, CalendarStep(u) PROVE IInv'
  BY <1>3, <1>t, CalendarSteps
<1>4. ASSUME NEW b \in Booking, TimePasses(b) PROVE IInv'
  <2> DEFINE q == [rows[b] EXCEPT !.overdue = TRUE]
  <2>1. Put(b, q) /\ UNCHANGED <<slot, disturbed>> /\ rows[b].status = "pending"
    BY <1>4 DEF TimePasses
  <2>2. q.status = "pending"
    BY <2>1 DEF IInv, TypeOK, Row
  <2>3. \A x, d : ~Covers(q, x, d) /\ ~Covers(rows[b], x, d)
    BY <2>1, <2>2 DEF Covers, Active
  <2> HIDE DEF q
  <2> QED BY <1>t, <2>1, <2>2, <2>3, QuietRow
<1>5. CASE ExpireTick
  <2>1. /\ \A b \in Booking : rows'[b] = IF Overdue(rows[b]) THEN Expired(rows[b]) ELSE rows[b]
        /\ UNCHANGED <<slot, disturbed>>
    BY <1>5 DEF ExpireTick
  <2>2. \A b \in Booking : Overdue(rows[b]) => rows'[b].status = "expired"
    BY <2>1 DEF Expired, IInv, TypeOK, Row
  <2>3. \A x, d : \A b \in Booking : Covers(rows'[b], x, d) <=> Covers(rows[b], x, d)
    BY <2>1, <2>2 DEF Covers, Active, Overdue
  <2>4. AskedDaysDisturbed'
    BY <2>1, <2>2 DEF IInv, AskedDaysDisturbed
  <2> QED BY <1>t, <2>1, <2>3, <2>4, QuietStep
<1>6. CASE UNCHANGED vars
  BY <1>6 DEF vars, IInv, TypeOK, CapacityRespected, CalendarAgrees, AskedDaysDisturbed,
              TrueBooked, Users
<1> QED BY <1>1, <1>2, <1>3, <1>4, <1>5, <1>6 DEF Next

\* On undisturbed days no person and no item is promised beyond capacity: the
\* conflict checks of accept suffice whatever the order of requests.
THEOREM NoOverbooking == Spec => []CapacityRespected
BY InvInit, InvStep, PTL DEF Spec, IInv

\* On undisturbed days the calendar of a person and the bookings tell the same.
THEOREM CalendarFaithful == Spec => []CalendarAgrees
BY InvInit, InvStep, PTL DEF Spec, IInv

(***************************************************************************)
(* What one step can do to one row.  The two results below are about the   *)
(* rows alone, so the actions are looked at once, here.                    *)
(***************************************************************************)

\* r becomes s: nothing, a column update of a handler that passed its checks, the
\* insert of createRequest, or the deletion with the project.
RowStep(r, s) ==
  \/ s \in {r, NoRow, [r EXCEPT !.overdue = TRUE], [r EXCEPT !.doneByTarget = TRUE],
            [r EXCEPT !.doneByRequester = TRUE]}
  \/ \E D \in SUBSET Date : \/ s = [r EXCEPT !.dates = D]
                            \/ r.status = "accepted" /\ s = Locked(r, D)
  \/ /\ r.status = "absent"
     /\ \E p \in Project, q \in Account, t \in Account, i \in Item \cup {None}, D \in DaySets :
          t # q /\ s = NewRow(p, q, t, i, D)
  \/ r.status = "pending" /\ s \in {Accepted(r), Declined(r), Expired(r)}
  \/ \E u \in User : \/ r.status = "pending" /\ s = Cancelled(r, u)
                     \/ Active(r) /\ s = CancelAsked(r, u)
                     \/ MayRespond(r, u) /\ s \in {Cancelled(r, u), CancelDenied(r, r.locked)}

\* Every step of the engine changes every row in one of these ways.
LEMMA RowsStep ==
  ASSUME TypeOK, [Next]_vars
  PROVE  \A b \in Booking : RowStep(rows[b], rows'[b])
<1> DEFINE Goal == \A b \in Booking : RowStep(rows[b], rows'[b])
<1>r. \A b \in Booking : rows[b] \in Row
  BY DEF TypeOK
<1>d. \A b \in Booking : \A D \in LockDays : KeptOr(rows[b], D) \in SUBSET Date
  BY <1>r, InputAssumption DEF KeptOr, Row
<1>s. \A r : RowStep(r, r)
  BY DEF RowStep
<1>p. ASSUME NEW b \in Booking, NEW s, Put(b, s), RowStep(rows[b], s) PROVE Goal
  BY <1>p, <1>s DEF Put, TypeOK
<1>u. ASSUME UNCHANGED rows PROVE Goal
  BY <1>u, <1>s
<1> HIDE DEF Goal
<1>1. ASSUME NEW u \in User, NEW p \in Project, ProjectStep(u, p) PROVE Goal
  <2>1. CASE CreateProject(u, p)
    BY <2>1, <1>u DEF CreateProject
  <2>2. ASSUME NEW st \in SettableStatus, UpdateProject(u, p, st) PROVE Goal
    BY <2>2, <1>u DEF UpdateProject
  <2>3. ASSUME NEW st \in SettableStatus \cup {stage[p]}, NEW D \in NewDays,
               RedateProject(u, p, st, D)
        PROVE  Goal
    <3>1. \A b \in Booking : RowStep(rows[b], [rows[b] EXCEPT !.dates = D])
      BY InputAssumption DEF RowStep
    <3> QED BY <2>3, <3>1, <1>s DEF RedateProject, Goal
  <2>4. CASE RemoveProject(u, p)
    <3>1. \A r : RowStep(r, NoRow)
      BY DEF RowStep
    <3> QED BY <2>4, <3>1, <1>s DEF RemoveProject, Goal
  <2>5. ASSUME NEW D \in LockDays, LockAll(u, p, D) PROVE Goal
    <3>1. \A b \in AcceptedOn(p) : RowStep(rows[b], Locked(rows[b], KeptOr(rows[b], D)))
      BY <1>d DEF RowStep, AcceptedOn
    <3> QED BY <2>5, <3>1, <1>s DEF LockAll, Goal
  <2>6. ASSUME NEW t \in Account, NEW i \in Item \cup {None}, NEW D \in DaySets,
               NEW b \in Booking, CreateRequest(u, p, t, i, D, b)
        PROVE  Goal
    <3>1. MainOf[u] \in Account
      BY UserAssumption DEF Account
    <3>2. /\ rows[b].status = "absent" /\ t # MainOf[u]
          /\ Put(b, NewRow(p, MainOf[u], t, i, D))
      BY <2>6 DEF CreateRequest
    <3>3. RowStep(rows[b], NewRow(p, MainOf[u], t, i, D))
      BY <3>1, <3>2 DEF RowStep
    <3> QED BY <3>2, <3>3, <1>p
  <2> QED BY <1>1, <2>1, <2>2, <2>3, <2>4, <2>5, <2>6 DEF ProjectStep
<1>2. ASSUME NEW u \in User, NEW b \in Booking, BookingStep(u, b) PROVE Goal
  <2>f. \A r :
          /\ RowStep(r, [r EXCEPT !.doneByTarget = TRUE])
          /\ RowStep(r, [r EXCEPT !.doneByRequester = TRUE])
          /\ r.status = "pending" =>
               /\ RowStep(r, Accepted(r)) /\ RowStep(r, Declined(r)) /\ RowStep(r, Expired(r))
               /\ RowStep(r, Cancelled(r, u))
          /\ Active(r) => RowStep(r, CancelAsked(r, u))
          /\ MayRespond(r, u) =>
               RowStep(r, Cancelled(r, u)) /\ RowStep(r, CancelDenied(r, r.locked))
    BY DEF RowStep
  <2>1. CASE Accept(u, b)
    BY <2>1, <2>f, <1>p DEF Accept, MayAnswer
  <2>2. CASE AcceptTooLate(u, b)
    BY <2>2, <2>f, <1>p DEF AcceptTooLate, MayAnswer
  <2>3. CASE Decline(u, b)
    BY <2>3, <2>f, <1>p DEF Decline, MayAnswer
  <2>4. CASE Cancel(u, b)
    BY <2>4, <2>f, <1>p DEF Cancel, MayWithdraw
  <2>5. ASSUME NEW D \in LockDays, Lock(u, b, D) PROVE Goal
    <3>1. rows[b].status = "accepted" /\ Put(b, Locked(rows[b], KeptOr(rows[b], D)))
      BY <2>5 DEF Lock, MayLock
    <3>2. RowStep(rows[b], Locked(rows[b], KeptOr(rows[b], D)))
      BY <3>1, <1>d DEF RowStep
    <3> QED BY <3>1, <3>2, <1>p
  <2>6. CASE CompleteByTarget(u, b)
    BY <2>6, <2>f, <1>p DEF CompleteByTarget
  <2>7. CASE CompleteByRequester(u, b)
    BY <2>7, <2>f, <1>p DEF CompleteByRequester
  <2>8. CASE RequestCancellation(u, b)
    BY <2>8, <2>f, <1>p DEF RequestCancellation, MayAsk
  <2>9. CASE AgreeToCancel(u, b)
    BY <2>9, <2>f, <1>p DEF AgreeToCancel
  <2>10. CASE RefuseToCancel(u, b)
    BY <2>10, <2>f, <1>p DEF RefuseToCancel
  <2> QED BY <1>2, <2>1, <2>2, <2>3, <2>4, <2>5, <2>6, <2>7, <2>8, <2>9, <2>10
         DEF BookingStep
<1>3. ASSUME NEW u \in User, CalendarStep(u) PROVE Goal
  BY <1>3, <1>u DEF CalendarStep, HealCalendar, BulkSet
<1>4. ASSUME NEW b \in Booking, TimePasses(b) PROVE Goal
  <2>1. RowStep(rows[b], [rows[b] EXCEPT !.overdue = TRUE])
    BY DEF RowStep
  <2> QED BY <1>4, <2>1, <1>p DEF TimePasses
<1>5. ASSUME ExpireTick PROVE Goal
  <2>1. \A b \in Booking : Overdue(rows[b]) => RowStep(rows[b], Expired(rows[b]))
    BY DEF Overdue, RowStep
  <2> QED BY <1>5, <2>1, <1>s DEF ExpireTick, Goal
<1>6. ASSUME UNCHANGED vars PROVE Goal
  BY <1>6, <1>u DEF vars
<1>7. Goal
  BY <1>1, <1>2, <1>3, <1>4, <1>5, <1>6 DEF Next
<1> QED BY <1>7 DEF Goal

(***************************************************************************)
(* The engine implements the lifecycle it promises.  The abstract point of *)
(* a booking is read off two columns, status and lockedAt, so the argument *)
(* needs that the two agree: lockedAt is set on a locked booking and on no *)
(* pending or accepted one.                                                *)
(***************************************************************************)

\* The point of one row under the refinement mapping of `Lifecycle'.
PointOf(r) == IF r.status = "cancel_requested"
              THEN IF r.locked THEN "asked_locked" ELSE "asked_accepted"
              ELSE r.status

\* The status and the lockedAt column of a row agree.
StampAgrees(r) ==
  /\ r.status = "locked" => r.locked
  /\ r.status \in {"pending", "accepted"} => ~r.locked

\* lockedAt tells a locked booking from an accepted one, in every row.
StampsAgree == \A b \in Booking : StampAgrees(rows[b])

\* A row moves along an edge of the lifecycle, or stays at its point.
Follows(r, s) == PointOf(s) = PointOf(r) \/ <<PointOf(r), PointOf(s)>> \in Lifecycle!Edge

\* Every row has a point.
LEMMA PointType == ASSUME NEW r \in Row PROVE PointOf(r) \in Lifecycle!Point
BY DEF PointOf, Row, Status, Lifecycle!Point

\* Whatever a step does to a row follows an edge and keeps the two columns in
\* agreement.
LEMMA RowFollows ==
  ASSUME NEW r \in Row, StampAgrees(r), NEW s, RowStep(r, s)
  PROVE  Follows(r, s) /\ StampAgrees(s)
<1> USE DEF Follows, StampAgrees, PointOf, Row, Lifecycle!Edge
<1>p. PointOf(r) \in Lifecycle!Point
  BY PointType
<1>1. CASE s \in {r, NoRow, [r EXCEPT !.overdue = TRUE], [r EXCEPT !.doneByTarget = TRUE],
                  [r EXCEPT !.doneByRequester = TRUE]}
  BY <1>1, <1>p DEF NoRow
<1>2. ASSUME NEW D \in SUBSET Date, s = [r EXCEPT !.dates = D]
      PROVE  Follows(r, s) /\ StampAgrees(s)
  BY <1>2
<1>3. ASSUME r.status = "absent", NEW p \in Project, NEW q \in Account, NEW t \in Account,
             NEW i \in Item \cup {None}, NEW D \in DaySets, s = NewRow(p, q, t, i, D)
      PROVE  Follows(r, s) /\ StampAgrees(s)
  BY <1>3 DEF NewRow, NoRow
<1>4. CASE r.status = "pending" /\ s \in {Accepted(r), Declined(r), Expired(r)}
  BY <1>4 DEF Accepted, Declined, Expired
<1>5. ASSUME NEW D \in SUBSET Date, r.status = "accepted", s = Locked(r, D)
      PROVE  Follows(r, s) /\ StampAgrees(s)
  BY <1>5 DEF Locked
<1>6. ASSUME NEW u \in User, r.status = "pending", s = Cancelled(r, u)
      PROVE  Follows(r, s) /\ StampAgrees(s)
  BY <1>6 DEF Cancelled
<1>7. ASSUME NEW u \in User, Active(r), s = CancelAsked(r, u)
      PROVE  Follows(r, s) /\ StampAgrees(s)
  BY <1>7 DEF Active, CancelAsked
<1>8. ASSUME NEW u \in User, MayRespond(r, u),
             s \in {Cancelled(r, u), CancelDenied(r, r.locked)}
      PROVE  Follows(r, s) /\ StampAgrees(s)
  <2>1. r.status = "cancel_requested"
    BY <1>8 DEF MayRespond
  <2>2. CASE s = Cancelled(r, u)
    BY <2>1, <2>2 DEF Cancelled
  <2>3. CASE s = CancelDenied(r, r.locked)
    BY <2>1, <2>3 DEF CancelDenied
  <2> QED BY <1>8, <2>2, <2>3
<1> HIDE DEF Follows, StampAgrees, PointOf, Row, Lifecycle!Edge
<1> QED BY <1>1, <1>2, <1>3, <1>4, <1>5, <1>6, <1>7, <1>8 DEF RowStep

\* The empty tables map to the initial state of the lifecycle.
LEMMA LifecycleInit == Init => Lifecycle!Init /\ StampsAgree
BY DEF Init, NoRow, Lifecycle!Init, StampsAgree, StampAgrees

\* A step of the engine is a step of the lifecycle, or leaves every point alone.
LEMMA LifecycleStep ==
  TypeOK /\ StampsAgree /\ [Next]_vars => Lifecycle!Next /\ StampsAgree'
<1> SUFFICES ASSUME TypeOK, StampsAgree, [Next]_vars PROVE Lifecycle!Next /\ StampsAgree'
  OBVIOUS
<1>1. \A b \in Booking : Follows(rows[b], rows'[b]) /\ StampAgrees(rows'[b])
  BY RowsStep, RowFollows DEF TypeOK, StampsAgree
<1>2. \A b \in Booking : PointOf(rows'[b]) \in Lifecycle!Point
  BY TypeStep, PointType DEF TypeOK
<1>3. Lifecycle!Next
  BY <1>1, <1>2 DEF Lifecycle!Next, Lifecycle!Move, Follows, PointOf
<1> QED BY <1>1, <1>3 DEF StampsAgree

\* The booking engine implements the promised lifecycle: however the handlers, the
\* calendar reads and the expiry job are ordered, a booking only ever moves along
\* the lifecycle, and refusing a cancellation restores the point it was asked at.
THEOREM ImplementsLifecycle == Spec => LifecycleSpec
BY TypeInit, TypeStep, LifecycleInit, LifecycleStep, PTL
DEF Spec, LifecycleSpec, Lifecycle!Spec

(***************************************************************************)
(* Nobody cancels alone what was agreed.  The two responses tell the sides *)
(* apart by comparing cancelledBy with the target, which is only right if  *)
(* the requester and the target of a row are different main accounts, and  *)
(* if a row under a cancellation request says who asked.                   *)
(***************************************************************************)

\* The two sides of a booking are different main accounts, and a cancellation
\* request has an author.
SidesApart(r) ==
  /\ Exists(r) => /\ r.requester \in Account /\ r.target \in Account
                  /\ r.requester # r.target
  /\ r.status = "cancel_requested" => r.cancelledBy \in User

AllSidesApart == \A b \in Booking : SidesApart(rows[b])

\* A booking that ends as cancelled was not agreed, or the other account agreed.
EndsByBoth(r, s) ==
  s.status = "cancelled" =>
    /\ ~Active(r)
    /\ r.status = "cancel_requested" => MainOf[s.cancelledBy] # MainOf[r.cancelledBy]

\* The login that may respond acts for the other side than the one that asked.
LEMMA ResponderIsOther ==
  ASSUME NEW r \in Row, SidesApart(r), NEW u \in User, MayRespond(r, u)
  PROVE  MainOf[u] # MainOf[r.cancelledBy]
<1> DEFINE c == r.cancelledBy
<1>1. /\ r.requester \in Account /\ r.target \in Account /\ r.requester # r.target
      /\ c \in User
  BY DEF SidesApart, MayRespond, Exists
<1>2. MainOf[r.target] = r.target /\ MainOf[MainOf[u]] = MainOf[u] /\ c # None
  BY <1>1, UserAssumption, NoneAssumption DEF Account
<1>3. CASE AskedByTarget(r)
  <2>1. MainOf[c] = r.target
    BY <1>2, <1>3, UserAssumption DEF AskedByTarget
  <2>2. MainOf[u] = r.requester
    BY <1>3 DEF MayRespond, RequesterSide
  <2> QED BY <1>1, <2>1, <2>2
<1>4. CASE ~AskedByTarget(r)
  <2>1. MainOf[c] # r.target
    BY <1>2, <1>4 DEF AskedByTarget
  <2>2. r.target \in {u, MainOf[u]}
    BY <1>4 DEF MayRespond, TargetSide, Answers
  <2> QED BY <1>2, <2>1, <2>2
<1> QED BY <1>3, <1>4

\* A step keeps the sides of a row apart and ends it by both or not at all.
LEMMA RowEndsByBoth ==
  ASSUME NEW r \in Row, SidesApart(r), NEW s, RowStep(r, s)
  PROVE  EndsByBoth(r, s) /\ SidesApart(s)
<1> USE DEF SidesApart, Exists, EndsByBoth, Active, Row
<1>1. CASE s \in {r, NoRow, [r EXCEPT !.overdue = TRUE], [r EXCEPT !.doneByTarget = TRUE],
                  [r EXCEPT !.doneByRequester = TRUE]}
  BY <1>1 DEF NoRow
<1>2. ASSUME NEW D \in SUBSET Date,
             \/ s = [r EXCEPT !.dates = D]
             \/ r.status = "accepted" /\ s = Locked(r, D)
      PROVE  EndsByBoth(r, s) /\ SidesApart(s)
  BY <1>2 DEF Locked
<1>3. ASSUME NEW p \in Project, NEW q \in Account, NEW t \in Account,
             NEW i \in Item \cup {None}, NEW D \in DaySets, t # q, s = NewRow(p, q, t, i, D)
      PROVE  EndsByBoth(r, s) /\ SidesApart(s)
  BY <1>3 DEF NewRow, NoRow
<1>4. CASE r.status = "pending" /\ s \in {Accepted(r), Declined(r), Expired(r)}
  BY <1>4 DEF Accepted, Declined, Expired
<1>5. ASSUME NEW u \in User, r.status = "pending", s = Cancelled(r, u)
      PROVE  EndsByBoth(r, s) /\ SidesApart(s)
  BY <1>5 DEF Cancelled
<1>6. ASSUME NEW u \in User, r.status \in {"accepted", "locked"}, s = CancelAsked(r, u)
      PROVE  EndsByBoth(r, s) /\ SidesApart(s)
  BY <1>6 DEF CancelAsked
<1>7. ASSUME NEW u \in User, MayRespond(r, u),
             s \in {Cancelled(r, u), CancelDenied(r, r.locked)}
      PROVE  EndsByBoth(r, s) /\ SidesApart(s)
  <2>1. r.status = "cancel_requested" /\ MainOf[u] # MainOf[r.cancelledBy]
    BY <1>7, ResponderIsOther DEF MayRespond
  <2>2. CASE s = Cancelled(r, u)
    BY <2>1, <2>2 DEF Cancelled
  <2>3. CASE s = CancelDenied(r, r.locked)
    BY <2>1, <2>3 DEF CancelDenied
  <2> QED BY <1>7, <2>2, <2>3
<1> QED BY <1>1, <1>2, <1>3, <1>4, <1>5, <1>6, <1>7 DEF RowStep

\* At the start there is no booking.
LEMMA SidesInit == Init => AllSidesApart
BY DEF Init, NoRow, AllSidesApart, SidesApart, Exists

\* Every step keeps the two sides of every booking apart.
LEMMA SidesStep ==
  TypeOK /\ AllSidesApart /\ [Next]_vars =>
    /\ AllSidesApart'
    /\ \A b \in Booking : EndsByBoth(rows[b], rows'[b])
BY RowsStep, RowEndsByBoth DEF TypeOK, AllSidesApart

\* An agreed booking is cancelled only with both sides, handlers running one at a
\* time: requestCancellation, the two responses, cancel and the project's removal.
THEOREM BothSidesCancel == Spec => CancellationNeedsBothSides
<1>1. (\A b \in Booking : EndsByBoth(rows[b], rows'[b])) =>
        \A b \in Booking :
          rows'[b].status = "cancelled" =>
            /\ ~Active(rows[b])
            /\ rows[b].status = "cancel_requested" =>
                 MainOf[rows'[b].cancelledBy] # MainOf[rows[b].cancelledBy]
  BY DEF EndsByBoth
<1> QED BY <1>1, SidesInit, SidesStep, TypeInit, TypeStep, PTL
        DEF Spec, CancellationNeedsBothSides

(***************************************************************************)
(* Duplicates.  Which project, target and item a row is about never        *)
(* changes, and only createRequest makes a row; so two equal requests can  *)
(* only come from a row that its search overlooked, a row under a          *)
(* cancellation request.                                                   *)
(***************************************************************************)

\* A row that stays keeps who and what it is about; it is in the way only if it was,
\* or its cancellation was asked for; and it is new to asking only in that very step.
LEMMA RowKeeps ==
  ASSUME NEW r \in Row, NEW s, RowStep(r, s), Exists(r), Exists(s)
  PROVE  /\ SameRequest(r, s) /\ s.requester = r.requester
         /\ InWay(s) => InWay(r) \/ r.status = "cancel_requested"
<1> USE DEF SameRequest, InWay, Exists, Active, Row
<1>1. CASE s \in {r, NoRow, [r EXCEPT !.overdue = TRUE], [r EXCEPT !.doneByTarget = TRUE],
                  [r EXCEPT !.doneByRequester = TRUE]}
  BY <1>1 DEF NoRow
<1>2. ASSUME NEW D \in SUBSET Date,
             \/ s = [r EXCEPT !.dates = D]
             \/ r.status = "accepted" /\ s = Locked(r, D)
      PROVE  /\ SameRequest(r, s) /\ s.requester = r.requester
             /\ InWay(s) => InWay(r) \/ r.status = "cancel_requested"
  BY <1>2 DEF Locked
<1>3. CASE r.status = "pending" /\ s \in {Accepted(r), Declined(r), Expired(r)}
  BY <1>3 DEF Accepted, Declined, Expired
<1>4. ASSUME NEW u \in User,
             \/ r.status = "pending" /\ s = Cancelled(r, u)
             \/ r.status \in {"accepted", "locked"} /\ s = CancelAsked(r, u)
             \/ MayRespond(r, u) /\ s \in {Cancelled(r, u), CancelDenied(r, r.locked)}
      PROVE  /\ SameRequest(r, s) /\ s.requester = r.requester
             /\ InWay(s) => InWay(r) \/ r.status = "cancel_requested"
  <2>1. MayRespond(r, u) => r.status = "cancel_requested"
    BY DEF MayRespond
  <2> QED BY <1>4, <2>1 DEF Cancelled, CancelAsked, CancelDenied
<1> QED BY <1>1, <1>2, <1>3, <1>4 DEF RowStep

\* Only createRequest makes a row.
LEMMA OnlyCreateInserts ==
  ASSUME TypeOK, [Next]_vars, NEW b \in Booking, ~Exists(rows[b]), Exists(rows'[b])
  PROVE  \E u \in User, p \in Project, t \in Account, i \in Item \cup {None}, D \in DaySets :
           CreateRequest(u, p, t, i, D, b)
<1> DEFINE Made == \E u \in User, p \in Project, t \in Account, i \in Item \cup {None},
                      D \in DaySets : CreateRequest(u, p, t, i, D, b)
<1>0. rows[b].status = "absent" /\ rows'[b].status # "absent"
  BY DEF Exists
<1>p. ASSUME NEW c \in Booking, NEW s, Put(c, s), rows[c].status # "absent" PROVE FALSE
  BY <1>p, <1>0 DEF Put, TypeOK
<1>1. ASSUME NEW u \in User, NEW p \in Project, ProjectStep(u, p) PROVE Made
  <2>1. CASE CreateProject(u, p)
    BY <2>1, <1>0 DEF CreateProject
  <2>2. ASSUME NEW st \in SettableStatus, UpdateProject(u, p, st) PROVE Made
    BY <2>2, <1>0 DEF UpdateProject
  <2>3. ASSUME NEW st \in SettableStatus \cup {stage[p]}, NEW D \in NewDays,
               RedateProject(u, p, st, D)
        PROVE  Made
    BY <2>3, <1>0 DEF RedateProject, OpenOn, Exists
  <2>4. CASE RemoveProject(u, p)
    BY <2>4, <1>0 DEF RemoveProject, NoRow
  <2>5. ASSUME NEW D \in LockDays, LockAll(u, p, D) PROVE Made
    BY <2>5, <1>0 DEF LockAll, AcceptedOn
  <2>6. ASSUME NEW t \in Account, NEW i \in Item \cup {None}, NEW D \in DaySets,
               NEW c \in Booking, CreateRequest(u, p, t, i, D, c)
        PROVE  Made
    <3>1. c = b
      BY <2>6, <1>0 DEF CreateRequest, Put, TypeOK
    <3> QED BY <2>6, <3>1
  <2> QED BY <1>1, <2>1, <2>2, <2>3, <2>4, <2>5, <2>6 DEF ProjectStep
<1>2. ASSUME NEW u \in User, NEW c \in Booking, BookingStep(u, c) PROVE FALSE
  <2>1. rows[c].status # "absent" /\ \E s : Put(c, s)
    BY <1>2 DEF BookingStep, Accept, AcceptTooLate, Decline, Cancel, Lock, CompleteByTarget,
                CompleteByRequester, RequestCancellation, AgreeToCancel, RefuseToCancel,
                MayAnswer, MayWithdraw, MayLock, MayClose, MayCloseAsRequester, MayAsk,
                MayRespond, Active
  <2> QED BY <2>1, <1>p
<1>3. ASSUME NEW u \in User, CalendarStep(u) PROVE FALSE
  BY <1>3, <1>0 DEF CalendarStep, HealCalendar, BulkSet
<1>4. ASSUME NEW c \in Booking, TimePasses(c) PROVE FALSE
  BY <1>4, <1>p DEF TimePasses
<1>5. CASE ExpireTick
  BY <1>5, <1>0 DEF ExpireTick, Overdue
<1>6. CASE UNCHANGED vars
  BY <1>6, <1>0 DEF vars
<1> QED BY <1>1, <1>2, <1>3, <1>4, <1>5, <1>6 DEF Next

\* The history of a row is forgotten only with the row, and asking is remembered.
LEMMA AskingRemembered ==
  ASSUME TypeOK, [Next]_vars, NEW b \in Booking
  PROVE  /\ b \in asked => b \in asked' \/ ~Exists(rows'[b])
         /\ rows'[b].status = "cancel_requested" =>
              b \in asked' \/ (rows[b].status = "cancel_requested" /\ b \notin asked)
<1> DEFINE Kept == /\ b \in asked => b \in asked' \/ ~Exists(rows'[b])
                   /\ rows'[b].status = "cancel_requested" =>
                        b \in asked' \/ (rows[b].status = "cancel_requested" /\ b \notin asked)
<1>r. rows[b] \in Row /\ NoRow.status = "absent"
  BY DEF TypeOK, NoRow
<1>k. ASSUME asked \subseteq asked',
             rows'[b].status = "cancel_requested" => rows[b].status = "cancel_requested"
      PROVE  Kept
  BY <1>k
<1>1. ASSUME NEW u \in User, NEW p \in Project, ProjectStep(u, p) PROVE Kept
  <2>1. CASE CreateProject(u, p)
    BY <2>1 DEF CreateProject
  <2>2. ASSUME NEW st \in SettableStatus, UpdateProject(u, p, st) PROVE Kept
    BY <2>2 DEF UpdateProject
  <2>3. ASSUME NEW st \in SettableStatus \cup {stage[p]}, NEW D \in NewDays,
               RedateProject(u, p, st, D)
        PROVE  Kept
    BY <2>3, <1>r DEF RedateProject, Row
  <2>4. CASE RemoveProject(u, p)
    BY <2>4, <1>r DEF RemoveProject, Exists
  <2>5. ASSUME NEW D \in LockDays, LockAll(u, p, D) PROVE Kept
    <3>1. Locked(rows[b], KeptOr(rows[b], D)).status = "locked"
      BY <1>r DEF Locked, Row
    <3>2. asked' = asked /\ rows'[b] \in {Locked(rows[b], KeptOr(rows[b], D)), rows[b]}
      BY <2>5 DEF LockAll
    <3> QED BY <3>1, <3>2, <1>k
  <2>6. ASSUME NEW t \in Account, NEW i \in Item \cup {None}, NEW D \in DaySets,
               NEW c \in Booking, CreateRequest(u, p, t, i, D, c)
        PROVE  Kept
    BY <2>6, <1>k DEF CreateRequest, Put, NewRow, NoRow, TypeOK
  <2> QED BY <1>1, <2>1, <2>2, <2>3, <2>4, <2>5, <2>6 DEF ProjectStep
<1>2. ASSUME NEW u \in User, NEW c \in Booking, BookingStep(u, c) PROVE Kept
  <2>p. ASSUME NEW s, Put(c, s), asked' = asked, s.status # "cancel_requested" PROVE Kept
    BY <2>p, <1>k DEF Put, TypeOK
  <2>r. rows[c] \in Row
    BY DEF TypeOK
  <2>1. CASE Accept(u, c)
    BY <2>1, <2>p, <2>r DEF Accept, Accepted, Row
  <2>2. CASE AcceptTooLate(u, c)
    BY <2>2, <2>p, <2>r DEF AcceptTooLate, Expired, Row
  <2>3. CASE Decline(u, c)
    BY <2>3, <2>p, <2>r DEF Decline, Declined, Row
  <2>4. CASE Cancel(u, c)
    BY <2>4, <2>p, <2>r DEF Cancel, Cancelled, Row
  <2>5. ASSUME NEW D \in LockDays, Lock(u, c, D) PROVE Kept
    BY <2>5, <2>p, <2>r DEF Lock, Locked, Row
  <2>6. CASE CompleteByTarget(u, c)
    BY <2>6, <2>p, <2>r DEF CompleteByTarget, MayClose, Active, Row
  <2>7. CASE CompleteByRequester(u, c)
    BY <2>7, <2>p, <2>r DEF CompleteByRequester, MayCloseAsRequester, Active, Row
  <2>8. CASE RequestCancellation(u, c)
    BY <2>8 DEF RequestCancellation, Put, TypeOK
  <2>9. CASE AgreeToCancel(u, c)
    BY <2>9, <2>p, <2>r DEF AgreeToCancel, Cancelled, Row
  <2>10. CASE RefuseToCancel(u, c)
    BY <2>10, <2>p, <2>r DEF RefuseToCancel, CancelDenied, Row
  <2> QED BY <1>2, <2>1, <2>2, <2>3, <2>4, <2>5, <2>6, <2>7, <2>8, <2>9, <2>10
         DEF BookingStep
<1>3. ASSUME NEW u \in User, CalendarStep(u) PROVE Kept
  BY <1>3 DEF CalendarStep, HealCalendar, BulkSet
<1>4. ASSUME NEW c \in Booking, TimePasses(c) PROVE Kept
  BY <1>4, <1>k, <1>r DEF TimePasses, Put, TypeOK, Row
<1>5. CASE ExpireTick
  BY <1>5, <1>k, <1>r DEF ExpireTick, Expired, Row
<1>6. CASE UNCHANGED vars
  BY <1>6 DEF vars
<1> QED BY <1>1, <1>2, <1>3, <1>4, <1>5, <1>6 DEF Next

\* A booking under a cancellation request was asked to be cancelled: what makes
\* DuplicateOnlyAfterAsk inductive.
AskedRecorded == \A b \in Booking : rows[b].status = "cancel_requested" => b \in asked

\* Every step preserves the two.
LEMMA DuplicateStep ==
  TypeOK /\ AskedRecorded /\ DuplicateOnlyAfterAsk /\ [Next]_vars
    => AskedRecorded' /\ DuplicateOnlyAfterAsk'
<1> SUFFICES ASSUME TypeOK, AskedRecorded, DuplicateOnlyAfterAsk, [Next]_vars
             PROVE  AskedRecorded' /\ DuplicateOnlyAfterAsk'
  OBVIOUS
<1>1. AskedRecorded'
  BY AskingRemembered DEF AskedRecorded
<1>2. ASSUME NEW b \in Booking, NEW c \in Booking, b # c, InWay(rows'[b]), InWay(rows'[c]),
             SameRequest(rows'[b], rows'[c]), ~Exists(rows[b])
      PROVE  FALSE
  <2>1. Exists(rows'[b]) /\ Exists(rows'[c])
    BY <1>2 DEF InWay, Exists
  <2>2. PICK u \in User, p \in Project, t \in Account, i \in Item \cup {None}, D \in DaySets :
          CreateRequest(u, p, t, i, D, b)
    BY <1>2, <2>1, OnlyCreateInserts
  <2>3. rows'[c] = rows[c] /\ rows'[b] = NewRow(p, MainOf[u], t, i, D)
    BY <2>2, <1>2 DEF CreateRequest, Put, TypeOK
  <2>4. rows[c].project = p /\ rows[c].target = t /\ rows[c].item = i /\ InWay(rows[c])
    BY <2>3, <1>2 DEF SameRequest, NewRow, NoRow
  <2>5. c \in InTheWay(rows, p, t, i)
    BY <2>4 DEF InTheWay
  <2> QED BY <2>2, <2>5 DEF CreateRequest
<1>3. DuplicateOnlyAfterAsk'
  <2> SUFFICES ASSUME NEW b \in Booking, NEW c \in Booking, b # c, InWay(rows'[b]),
                      InWay(rows'[c]), SameRequest(rows'[b], rows'[c])
               PROVE  b \in asked' \/ c \in asked'
    BY DEF DuplicateOnlyAfterAsk
  <2>1. Exists(rows'[b]) /\ Exists(rows'[c])
    BY DEF InWay, Exists
  <2>2. SameRequest(rows'[c], rows'[b])
    BY DEF SameRequest
  <2>3. Exists(rows[b]) /\ Exists(rows[c])
    BY <1>2, <2>2
  <2>4. /\ SameRequest(rows[b], rows'[b]) /\ SameRequest(rows[c], rows'[c])
        /\ InWay(rows[b]) \/ rows[b].status = "cancel_requested"
        /\ InWay(rows[c]) \/ rows[c].status = "cancel_requested"
    BY <2>1, <2>3, RowsStep, RowKeeps DEF TypeOK
  <2>5. SameRequest(rows[b], rows[c])
    BY <2>4 DEF SameRequest
  <2>6. b \in asked \/ c \in asked
    BY <2>4, <2>5 DEF AskedRecorded, DuplicateOnlyAfterAsk
  <2> QED BY <2>1, <2>6, AskingRemembered
<1> QED BY <1>1, <1>3

\* Two live requests for the same target and item of one project exist only after the
\* cancellation of one of them was asked for.
THEOREM DuplicatesExplained == Spec => []DuplicateOnlyAfterAsk
<1>1. Init => AskedRecorded /\ DuplicateOnlyAfterAsk
  BY DEF Init, NoRow, AskedRecorded, DuplicateOnlyAfterAsk, InWay
<1> QED BY <1>1, TypeInit, TypeStep, DuplicateStep, PTL DEF Spec

(***************************************************************************)
(* Liveness.  The rules of the prover cover weak fairness but not ENABLED, *)
(* so that the job can run while something is overdue is a hypothesis,     *)
(* JobCanRun, which the model checker can evaluate in every state.         *)
(***************************************************************************)

\* A request nobody answers in time is expired: the job keeps running, and one run of it
\* settles every overdue request.
THEOREM JobSettlesOverdue ==
  ASSUME QueueEnabled
  PROVE  Spec /\ []JobCanRun => OverdueSettled
<1>1. ASSUME NEW b \in Booking
      PROVE  Spec /\ []JobCanRun => (Overdue(rows[b]) ~> ~Overdue(rows[b]))
  <2>1. JobCanRun /\ Overdue(rows[b]) => ENABLED <<ExpireTick>>_vars
    BY DEF JobCanRun
  <2>2. TypeOK /\ <<ExpireTick>>_vars => (~Overdue(rows[b]))'
    BY DEF ExpireTick, TypeOK, Row, Overdue, Expired
  <2> QED BY <2>1, <2>2, TypeInit, TypeStep, PTL DEF Spec
<1> QED BY <1>1 DEF OverdueSettled
=============================================================================
