---------------------------- MODULE Listings_proofs ----------------------------
(***************************************************************************)
(* Proofs about what the lists, the warnings and the searches show of the  *)
(* booking engine's rows, for any number of them.                          *)
(***************************************************************************)
EXTENDS Listings, Search, Bookings_proofs

(***************************************************************************)
(* What a row is about is there, and fits together: its project exists,    *)
(* because deleting a project deletes its bookings, and its item is one of *)
(* its target's, because createRequest says so and no handler changes it.  *)
(***************************************************************************)

Placed(r) == Exists(r) => r.project \in Project /\ stage[r.project] # "absent"

ItemFits(r) == Exists(r) => r.item \in ItemsOf(r.target) \cup {None}

\* Both, of every row.
RowsFit == \A b \in Booking : Placed(rows[b]) /\ ItemFits(rows[b])

\* A project that goes takes its bookings with it: remove deletes both, and nothing else
\* deletes a project.
LEMMA ProjectGone ==
  ASSUME TypeOK, [Next]_vars, NEW p \in Project, stage[p] # "absent", stage'[p] = "absent",
         NEW b \in Booking
  PROVE  ~Exists(rows'[b]) \/ rows'[b].project # p
<1>0. stage \in [Project -> ProjectStatus] /\ rows \in [Booking -> Row]
  BY DEF TypeOK
<1>s. ASSUME stage' = stage PROVE FALSE
  BY <1>s
<1>1. ASSUME NEW u \in User, NEW q \in Project, ProjectStep(u, q) PROVE RemoveProject(u, p)
  <2>1. CASE CreateProject(u, q)
    BY <2>1, <1>0 DEF CreateProject
  <2>2. ASSUME NEW st \in SettableStatus, UpdateProject(u, q, st) PROVE FALSE
    BY <2>2, <1>0, InputAssumption DEF UpdateProject
  <2>3. ASSUME NEW st \in SettableStatus \cup {stage[q]}, NEW D \in NewDays,
               RedateProject(u, q, st, D)
        PROVE  FALSE
    BY <2>3, <1>0, InputAssumption DEF RedateProject, OwnsProject
  <2>4. CASE RemoveProject(u, q)
    <3>1. p = q
      BY <2>4, <1>0 DEF RemoveProject
    <3> QED BY <2>4, <3>1
  <2>5. ASSUME NEW D \in LockDays, LockAll(u, q, D) PROVE FALSE
    BY <2>5, <1>s DEF LockAll
  <2>6. ASSUME NEW t \in Account, NEW i \in Item \cup {None}, NEW D \in DaySets,
               NEW c \in Booking, CreateRequest(u, q, t, i, D, c)
        PROVE  FALSE
    BY <2>6, <1>s DEF CreateRequest
  <2> QED BY <1>1, <2>1, <2>2, <2>3, <2>4, <2>5, <2>6 DEF ProjectStep
<1>2. ASSUME NEW u \in User, NEW c \in Booking, BookingStep(u, c) PROVE FALSE
  BY <1>2, <1>s DEF BookingStep, Accept, AcceptTooLate, Decline, Cancel, Lock,
     CompleteByTarget, CompleteByRequester, RequestCancellation, AgreeToCancel, RefuseToCancel
<1>3. ASSUME NEW u \in User, CalendarStep(u) PROVE FALSE
  BY <1>3, <1>s DEF CalendarStep, HealCalendar, BulkSet
<1>4. ASSUME NEW c \in Booking, TimePasses(c) PROVE FALSE
  BY <1>4, <1>s DEF TimePasses
<1>5. ASSUME ExpireTick PROVE FALSE
  BY <1>5, <1>s DEF ExpireTick
<1>6. ASSUME UNCHANGED vars PROVE FALSE
  BY <1>6, <1>s DEF vars
<1>7. PICK u \in User : RemoveProject(u, p)
  BY <1>1, <1>2, <1>3, <1>4, <1>5, <1>6 DEF Next
<1>8. rows'[b] = IF rows[b].project = p THEN NoRow ELSE rows[b]
  BY <1>7 DEF RemoveProject
<1> QED BY <1>8 DEF NoRow, Exists

\* At the start there is no row.
LEMMA FitInit == Init => RowsFit
BY DEF Init, RowsFit, Placed, ItemFits, NoRow, Exists

\* Every step keeps what the rows are about in place.
LEMMA FitStep == TypeOK /\ RowsFit /\ [Next]_vars => RowsFit'
<1> SUFFICES ASSUME TypeOK, RowsFit, [Next]_vars, NEW b \in Booking, Exists(rows'[b])
             PROVE  /\ rows'[b].project \in Project /\ stage'[rows'[b].project] # "absent"
                    /\ rows'[b].item \in ItemsOf(rows'[b].target) \cup {None}
  BY DEF RowsFit, Placed, ItemFits
<1>1. CASE Exists(rows[b])
  <2>1. /\ rows[b].project \in Project /\ stage[rows[b].project] # "absent"
        /\ rows[b].item \in ItemsOf(rows[b].target) \cup {None}
    BY <1>1 DEF RowsFit, Placed, ItemFits
  <2>2. SameRequest(rows[b], rows'[b])
    BY <1>1, RowsStep, RowKeeps DEF TypeOK
  <2>3. stage'[rows[b].project] # "absent"
    BY <2>1, <2>2, ProjectGone DEF SameRequest
  <2> QED BY <2>1, <2>2, <2>3 DEF SameRequest
<1>2. CASE ~Exists(rows[b])
  <2>1. PICK u \in User, p \in Project, t \in Account, i \in Item \cup {None}, D \in DaySets :
          CreateRequest(u, p, t, i, D, b)
    BY <1>2, OnlyCreateInserts
  <2>2. /\ rows'[b] = NewRow(p, MainOf[u], t, i, D) /\ stage' = stage
        /\ stage[p] # "absent" /\ i \in ItemsOf(t) \cup {None}
    BY <2>1 DEF CreateRequest, Put, TypeOK
  <2> QED BY <2>2 DEF NewRow, NoRow
<1> QED BY <1>1, <1>2

(***************************************************************************)
(* The lists.                                                              *)
(***************************************************************************)

\* Who may do something with a booking as its target answers for the target account.
LEMMA TargetAnswers ==
  ASSUME NEW r \in Row, Exists(r), SidesApart(r), NEW u \in User, TargetSide(r, u)
  PROVE  r.target = Answers(u)
BY DEF SidesApart, TargetSide, Answers, Account

\* Who may only answer the target's wish to cancel does not stand on both sides.
LEMMA RequesterIsNotTarget ==
  ASSUME NEW r \in Row, Exists(r), SidesApart(r), NEW u \in User, RequesterSide(r, u)
  PROVE  ~TargetSide(r, u)
<1>1. r.target \in Account /\ r.requester # r.target /\ r.requester = MainOf[u]
  BY DEF SidesApart, RequesterSide
<1>2. r.target \notin {MainOf[u], u}
  BY <1>1 DEF Account
<1> QED BY <1>2 DEF TargetSide, Answers

\* A login that may book others for a project finds the project.
LEMMA RequestableIsListed ==
  ASSUME NEW u \in User, NEW p \in Project, stage[p] # "absent", MayRequest(rows, u, p)
  PROVE  /\ MayOpen(u, p) /\ p \in ListedProjects(u)
         /\ MainOf[u] = u => p \in OwnProjects(u)
<1>1. u \in Companies /\ Answers(u) = MainOf[u]
  BY DEF MayRequest, Companies, Answers
<1>2. CASE Owner[p] = MainOf[u] /\ Admitted(u, p)
  BY <1>1, <1>2 DEF HasProject, MayOpen, ListedProjects, OwnProjects
<1>3. CASE MainOf[u] \in CastingDirectors /\ Hired(rows, MainOf[u], p)
  <2>1. HiredOn(u, p) /\ BookedOn(u, p)
    BY <1>1, <1>3 DEF Hired, HiredOn, BookedOn, Ongoing, Active
  <2> QED BY <1>3, <2>1 DEF MayOpen, ListedProjects, OwnProjects
<1> QED BY <1>2, <1>3 DEF MayRequest

\* A login that may act on a booking finds it.
LEMMA ActionableIsListed ==
  ASSUME TypeOK, AllSidesApart, RowsFit, NEW u \in User, NEW b \in Booking, Exists(rows[b])
  PROVE  /\ MayActAsTarget(u, b) =>
              /\ b \in Incoming(u) \/ stage[rows[b].project] = "cancelled"
              /\ rows[b].project \in ListedProjects(u)
              /\ Active(rows[b]) => b \in ProjectBookings(u, rows[b].project)
         /\ MayActAsRequester(u, b) => b \in Outgoing(u) \cup CancelRequests(u)
<1>1. /\ rows[b] \in Row /\ SidesApart(rows[b])
      /\ rows[b].project \in Project /\ stage[rows[b].project] # "absent"
  BY DEF TypeOK, AllSidesApart, RowsFit, Placed
<1>2. ASSUME MayActAsTarget(u, b)
      PROVE  /\ b \in Incoming(u) \/ stage[rows[b].project] = "cancelled"
             /\ rows[b].project \in ListedProjects(u)
             /\ Active(rows[b]) => b \in ProjectBookings(u, rows[b].project)
  <2>1. rows[b].target = Answers(u) /\ Ongoing(rows[b])
    <3>1. CASE MayAnswer(rows[b], u) \/ MayClose(rows[b], u)
      BY <3>1 DEF MayAnswer, MayClose, Ongoing, Active
    <3>2. CASE TargetSide(rows[b], u) /\ (MayAsk(rows[b], u) \/ MayRespond(rows[b], u))
      BY <3>2, <1>1, TargetAnswers DEF MayAsk, MayRespond, Ongoing, Active
    <3> QED BY <1>2, <3>1, <3>2 DEF MayActAsTarget
  <2>2. BookedOn(u, rows[b].project) /\ (Active(rows[b]) => HiredOn(u, rows[b].project))
    BY <2>1 DEF BookedOn, HiredOn
  <2> QED BY <2>1, <2>2, <1>1 DEF Incoming, ListedProjects, ProjectBookings, MayOpen
<1>3. ASSUME MayActAsRequester(u, b) PROVE b \in Outgoing(u) \cup CancelRequests(u)
  <2>1. CASE MayLock(rows[b], u)
    BY <2>1 DEF MayLock, Outgoing
  <2>2. CASE RequesterSide(rows[b], u) /\ MayAsk(rows[b], u)
    BY <2>2 DEF MayAsk, Outgoing
  <2>3. CASE RequesterSide(rows[b], u) /\ MayRespond(rows[b], u)
    <3>1. AskedByTarget(rows[b])
      BY <2>3, <1>1, RequesterIsNotTarget DEF MayRespond
    <3> QED BY <2>3, <3>1 DEF MayRespond, CancelRequests
  <2> QED BY <1>3, <2>1, <2>2, <2>3 DEF MayActAsRequester
<1> QED BY <1>2, <1>3

\* The own calendar shows booked days as booked, and names a booking for each.
LEMMA CalendarIsTrue ==
  ASSUME TypeOK, NEW u \in Persons, NEW d \in Date
  PROVE  /\ \A b \in Booking :
              Active(rows[b]) /\ u = rows[b].target /\ d \in rows[b].dates
                => DayShown(u, d) # "available"
         /\ DayShown(u, d) = "booked" => DayBookings(u, d) # {}
<1>1. ASSUME NEW b \in Booking, Active(rows[b]), u = rows[b].target, d \in rows[b].dates
      PROVE  DayShown(u, d) # "available"
  <2>1. d \in TrueBooked(u)
    BY <1>1 DEF TrueBooked
  <2> QED BY <2>1 DEF DayShown
<1>2. ASSUME DayShown(u, d) = "booked" PROVE DayBookings(u, d) # {}
  <2>1. d \in TrueBooked(u)
    BY <1>2 DEF DayShown
  <2>2. PICK b \in Booking : rows[b].target = u /\ Active(rows[b]) /\ d \in rows[b].dates
    BY <2>1 DEF TrueBooked
  <2>3. b \in DayBookings(u, d)
    BY <2>2 DEF DayBookings
  <2> QED BY <2>3
<1> QED BY <1>1, <1>2

\* Whatever the handlers would let a login do with a booking or a project, a list leads
\* it there, and a person's calendar hides no booked day.
THEOREM WorkListed == Spec => []WorkIsListed
<1>1. TypeOK /\ AllSidesApart /\ RowsFit => WorkIsListed
  <2> SUFFICES ASSUME TypeOK, AllSidesApart, RowsFit PROVE WorkIsListed
    OBVIOUS
  <2>1. \A u \in User, p \in Project : stage[p] # "absent" /\ MayRequest(rows, u, p) =>
          /\ MayOpen(u, p) /\ p \in ListedProjects(u)
          /\ MainOf[u] = u => p \in OwnProjects(u)
    BY RequestableIsListed
  <2>2. \A b \in Booking : rows[b].dates \subseteq Date
    BY DEF TypeOK, Row
  <2>3. \A u \in User, b \in Booking :
          Active(rows[b]) /\ u = rows[b].target /\ u \in Persons =>
            \A d \in rows[b].dates : DayShown(u, d) # "available"
    BY <2>2, CalendarIsTrue
  <2>4. \A u \in User \cap Persons, d \in Date :
          DayShown(u, d) = "booked" => DayBookings(u, d) # {}
    BY CalendarIsTrue
  <2> QED BY <2>1, <2>3, <2>4, ActionableIsListed DEF WorkIsListed
<1> QED BY <1>1, FitInit, FitStep, SidesInit, SidesStep, TypeInit, TypeStep, PTL DEF Spec

(***************************************************************************)
(* The warning on a vendor's request.                                      *)
(***************************************************************************)

\* What is booked as some provider's item takes up that item and nothing else, and the
\* target is the provider that lists it.
LEMMA ItemIsResource ==
  ASSUME TypeOK, RowsFit, NEW x \in Item, NEW b \in Booking, Exists(rows[b])
  PROVE  ResourceOf(rows[b]) = x <=> rows[b].item = x /\ rows[b].target = ItemOwner[x]
<1>1. /\ rows[b].target \in User \cup {None} /\ x # None /\ x \notin User
      /\ ItemOwner[x] \notin Persons
  BY ItemAssumption, NoneAssumption DEF TypeOK, Row, Persons, Provider, Person
<1>2. rows[b].item = x => rows[b].target = ItemOwner[x]
  BY <1>1 DEF RowsFit, ItemFits, ItemsOf
<1>3. Persons \subseteq User
  BY DEF Persons, Account
<1> QED BY <1>1, <1>2, <1>3 DEF ResourceOf

\* The warning counts the same bookings as accept, those of the same project apart.
LEMMA WarningCounts ==
  ASSUME TypeOK, RowsFit, NEW b \in Booking, rows[b].status = "pending", OfKit(b),
         NEW d \in rows[b].dates
  PROVE  LET held == Users(rows, ResourceOf(rows[b]), d) \ {b} IN
         /\ ResourceOf(rows[b]) = rows[b].item
         /\ IsFiniteSet(held) /\ Elsewhere(b, d) \subseteq held
         /\ \A c \in held : c \in Elsewhere(b, d) \/ SameRequest(rows[b], rows[c])
<1> DEFINE x == rows[b].item
           held == Users(rows, ResourceOf(rows[b]), d) \ {b}
<1>1. x \in Item /\ Exists(rows[b]) /\ ~Active(rows[b])
  BY DEF OfKit, Exists, Active
<1>2. ResourceOf(rows[b]) = x /\ rows[b].target = ItemOwner[x]
  <2>1. rows[b].target = ItemOwner[x]
    BY <1>1, NoneAssumption DEF RowsFit, ItemFits, ItemsOf
  <2> QED BY <1>1, <2>1, ItemIsResource
<1>3. IsFiniteSet(held)
  BY UsersFinite, FS_Subset
<1>4. Elsewhere(b, d) \subseteq held
  BY <1>1, <1>2 DEF Elsewhere, Users
<1>5. ASSUME NEW c \in held PROVE c \in Elsewhere(b, d) \/ SameRequest(rows[b], rows[c])
  <2>1. /\ c \in Booking /\ Exists(rows[c]) /\ ResourceOf(rows[c]) = x
        /\ c \in Users(rows, x, d)
    BY <1>2 DEF Users, Active, Exists
  <2>2. rows[c].item = x /\ rows[c].target = ItemOwner[x]
    BY <1>1, <2>1, ItemIsResource
  <2> QED BY <1>2, <2>1, <2>2 DEF Elsewhere, SameRequest
<1> QED BY <1>2, <1>3, <1>4, <1>5

\* A request for kit that carries the warning is refused, and one without it can be
\* accepted, unless the same project holds the kit a second time.
THEOREM WarningsTrue == Spec => []WarningTrue
<1>1. TypeOK /\ RowsFit => WarningTrue
  <2> SUFFICES ASSUME TypeOK, RowsFit, NEW b \in Booking, rows[b].status = "pending", OfKit(b)
               PROVE  /\ Warned(b) => CapacityReached(rows, b, rows[b].dates)
                      /\ CapacityReached(rows, b, rows[b].dates) =>
                           \/ Warned(b)
                           \/ \E c \in Booking \ {b} :
                                Active(rows[c]) /\ SameRequest(rows[b], rows[c])
    BY DEF WarningTrue
  <2> DEFINE x == rows[b].item
             held(d) == Users(rows, ResourceOf(rows[b]), d) \ {b}
  <2>1. x \in Item /\ x # None /\ Capacity(x) \in Nat
    BY NoneAssumption, ItemAssumption DEF OfKit, Capacity
  <2>2. ASSUME NEW d \in rows[b].dates
        PROVE  /\ ResourceOf(rows[b]) = x
               /\ IsFiniteSet(held(d)) /\ Elsewhere(b, d) \subseteq held(d)
               /\ \A c \in held(d) : c \in Elsewhere(b, d) \/ SameRequest(rows[b], rows[c])
    BY WarningCounts
  <2>3. ASSUME NEW d \in rows[b].dates, Cardinality(Elsewhere(b, d)) >= Capacity(x)
        PROVE  Cardinality(held(d)) >= Capacity(x)
    <3>1. /\ IsFiniteSet(Elsewhere(b, d))
          /\ Cardinality(Elsewhere(b, d)) <= Cardinality(held(d))
      BY <2>2, FS_Subset
    <3>2. Cardinality(Elsewhere(b, d)) \in Nat /\ Cardinality(held(d)) \in Nat
      BY <2>2, <3>1, FS_CardinalityType
    <3> QED BY <2>1, <2>3, <3>1, <3>2
  <2>4. Warned(b) => CapacityReached(rows, b, rows[b].dates)
    BY <2>1, <2>2, <2>3 DEF Warned, CapacityReached
  <2>5. ASSUME NEW d \in rows[b].dates, Cardinality(held(d)) >= Capacity(x),
               \A c \in Booking \ {b} : ~(Active(rows[c]) /\ SameRequest(rows[b], rows[c]))
        PROVE  Cardinality(Elsewhere(b, d)) >= Capacity(x)
    <3>1. \A c \in held(d) : c \in Booking \ {b} /\ Active(rows[c])
      BY DEF Users
    <3>2. Elsewhere(b, d) = held(d)
      BY <2>2, <2>5, <3>1
    <3> QED BY <2>5, <3>2
  <2>6. CapacityReached(rows, b, rows[b].dates) =>
          \/ Warned(b)
          \/ \E c \in Booking \ {b} : Active(rows[c]) /\ SameRequest(rows[b], rows[c])
    BY <2>1, <2>2, <2>5 DEF Warned, CapacityReached
  <2> QED BY <2>4, <2>6
<1> QED BY <1>1, FitInit, FitStep, TypeInit, TypeStep, PTL DEF Spec

(***************************************************************************)
(* The searches.                                                           *)
(***************************************************************************)

\* A set of days has a first one ...
LEMMA LeastNumber ==
  ASSUME NEW T \in SUBSET Nat, T # {}
  PROVE  \E n \in T : \A m \in T : n <= m
<1> DEFINE R == OpToRel(<, Nat)
<1>1. IsWellFoundedOn(R, Nat)
  BY Zenon, NatLessThanWellFounded
<1>2. \E n \in T : \A m \in T : <<m, n>> \notin R
  <2> HIDE DEF R
  <2> QED BY <1>1, WFMin
<1>3. \A m, n \in Nat : m < n => <<m, n>> \in R
  BY DEF OpToRel
<1>4. PICK n \in T : \A m \in T : <<m, n>> \notin R
  BY Zenon, <1>2
<1>5. \A m \in T : ~(m < n)
  <2> HIDE DEF R
  <2> TAKE m \in T
  <2> QED BY <1>3, <1>4
<1>6. \A m \in T : m \in Nat /\ n \in Nat
  OBVIOUS
<1>7. \A m \in T : n <= m
  BY <1>5, <1>6
<1> QED BY <1>7

\* ... and, if it is finite, a last one: the one with the fewest days after it.
LEMMA GreatestNumber ==
  ASSUME NEW S \in SUBSET Nat, IsFiniteSet(S), S # {}
  PROVE  \E n \in S : \A m \in S : m <= n
<1> DEFINE above(n) == {m \in S : n < m}
           T == {Cardinality(above(n)) : n \in S}
<1>1. \A n \in S : IsFiniteSet(above(n)) /\ Cardinality(above(n)) \in Nat
  BY FS_Subset, FS_CardinalityType
<1>2. PICK n \in S : \A m \in S : Cardinality(above(n)) <= Cardinality(above(m))
  <2>1. T \in SUBSET Nat /\ T # {}
    BY <1>1
  <2>2. \E k \in T : \A l \in T : k <= l
    BY <2>1, LeastNumber
  <2> QED BY <2>2
<1>3. ASSUME NEW m \in S, n < m PROVE FALSE
  <2>1. above(m) \subseteq above(n) /\ m \in above(n) /\ m \notin above(m)
    <3>1. \A k \in S : k \in Nat
      OBVIOUS
    <3>2. n \in Nat /\ m \in Nat /\ ~(m < m)
      BY <3>1
    <3>3. \A k \in S : m < k => n < k
      BY <3>1, <3>2, <1>3
    <3> QED BY <3>2, <3>3, <1>3
  <2>2. /\ Cardinality(above(m)) <= Cardinality(above(n))
        /\ Cardinality(above(m)) # Cardinality(above(n))
    BY <2>1, <1>1, FS_Subset
  <2>3. Cardinality(above(n)) <= Cardinality(above(m))
    BY <1>2
  <2>4. Cardinality(above(m)) \in Nat /\ Cardinality(above(n)) \in Nat
    BY <1>1
  <2> HIDE DEF above
  <2> QED BY <2>2, <2>3, <2>4
<1> QED BY <1>3

\* A booking spans from its first to its last day.
LEMMA Spans ==
  ASSUME NEW r \in Row, NEW d \in r.dates
  PROVE  /\ Start(r) \in Date /\ End(r) \in Date
         /\ Start(r) <= d /\ d <= End(r)
<1>1. r.dates \in SUBSET Nat /\ r.dates # {} /\ r.dates \subseteq Date
  BY SearchAssumption DEF Row
<1>2. IsFiniteSet(r.dates)
  BY <1>1, SearchAssumption, FS_Subset
<1>3. Start(r) \in r.dates /\ \A e \in r.dates : Start(r) <= e
  BY <1>1, LeastNumber DEF Start
<1>4. End(r) \in r.dates /\ \A e \in r.dates : e <= End(r)
  BY <1>1, <1>2, GreatestNumber DEF End
<1> QED BY <1>1, <1>3, <1>4

\* A booking of an item on a day of the window takes the item out of the search.
LEMMA HeldIsFound ==
  ASSUME TypeOK, NEW q \in Query, BothDates(q), NEW x \in Item, NEW d \in Window(q),
         NEW b \in Users(rows, x, d)
  PROVE  BookedOut(x, q)
<1>1. b \in Booking /\ rows[b] \in Row /\ Active(rows[b]) /\ d \in rows[b].dates
  BY DEF Users, TypeOK
<1>2. rows[b].item = x
  BY <1>1, ItemAssumption DEF Users, ResourceOf, Persons, Account
<1>3. b \in Held(x)
  BY <1>1, <1>2 DEF Held
<1>4. Start(rows[b]) \in Date /\ End(rows[b]) \in Date /\ Start(rows[b]) <= d /\ d <= End(rows[b])
  BY <1>1, Spans
<1>5. /\ From(q) \in Date /\ To(q) \in Date /\ d \in Date /\ Date \subseteq Nat
      /\ From(q) <= d /\ d <= To(q)
  BY SearchAssumption DEF Query, BothDates, From, To, Window
<1>6. Meets(rows[b], q, 0)
  <2> DEFINE first == Start(rows[b])
             last == End(rows[b])
             from == From(q)
             to == To(q)
  <2>1. first \in Nat /\ last \in Nat /\ from \in Nat /\ to \in Nat /\ d \in Nat
    BY <1>4, <1>5
  <2>2. first <= d /\ d <= last /\ from <= d /\ d <= to
    BY <1>4, <1>5
  <2> HIDE DEF first, last, from, to
  <2>3. first <= to /\ from <= last + 0
    BY <2>1, <2>2
  <2> QED BY <2>3 DEF Meets, first, last, from, to
<1> QED BY <1>3, <1>6 DEF BookedOut

\* The items and the cast that a search with both dates shows can be had on each of those
\* days: an item by its bookings, a cast member by the calendar, which agrees with the
\* bookings on the undisturbed days.
THEOREM ItemsAndCastFree == Spec => []ItemsAndCastShownFree
<1>1. IInv => ItemsAndCastShownFree
  <2> SUFFICES ASSUME IInv, NEW q \in Query, BothDates(q)
               PROVE  /\ \A x \in Item : ItemShown(x, q) =>
                           \A d \in Window(q) : Users(rows, x, d) = {}
                      /\ \A u \in Persons : RoleOf[u] = "cast" /\ CastShown(u, q) =>
                           \A d \in Window(q) :
                             <<u, d>> \in disturbed \/ Users(rows, u, d) = {}
    BY DEF ItemsAndCastShownFree
  <2>1. ASSUME NEW x \in Item, ItemShown(x, q), NEW d \in Window(q)
        PROVE  Users(rows, x, d) = {}
    <3>1. ~BookedOut(x, q)
      BY <2>1 DEF ItemShown, EquipmentShown, PropertyShown, Dated, BothDates
    <3> QED BY <3>1, HeldIsFound DEF IInv
  <2>2. ASSUME NEW u \in Persons, CastShown(u, q), NEW d \in Window(q), <<u, d>> \notin disturbed
        PROVE  Users(rows, u, d) = {}
    <3>1. slot[u][d] # "booked" /\ d \in Date
      BY <2>2 DEF CastShown, Window
    <3>2. d \notin TrueBooked(u)
      BY <2>2, <3>1 DEF IInv, CalendarAgrees
    <3> QED BY <3>1, <3>2, TrueBookedUsers DEF IInv
  <2> QED BY <2>1, <2>2
<1> QED BY <1>1, InvInit, InvStep, PTL DEF Spec
=============================================================================
