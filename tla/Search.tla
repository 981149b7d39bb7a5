-------------------------------- MODULE Search --------------------------------
(***************************************************************************)
(* What the searches for equipment, properties and cast show for a city    *)
(* and a window of days (SearchService), read from the rows and slots of   *)
(* the booking engine.  Days are numbers here.  Filters on names, rates,   *)
(* skills and looks narrow a result without looking at any booking and are *)
(* left out.  So is the crew search: of the calendar it asks for blocked   *)
(* days alone, and shows people who are booked on the days asked for.      *)
(***************************************************************************)
EXTENDS Bookings

CONSTANTS
  City,
  CityOf,     \* where a project shoots
  HomeCity,   \* the city of a profile or of an item
  Listed,     \* equipment_availability and property_availability rows of an item
  Buffer      \* TEMP_LOCATION_BUFFER_DAYS

ASSUME SearchAssumption ==
  /\ Date \subseteq Nat /\ IsFiniteSet(Date)   \* a date column has a first and a last day
  /\ Buffer \in Nat
  /\ CityOf \in [Project -> City]
  /\ HomeCity \in [User \cup Item -> City]
  /\ Listed \in [Item -> SUBSET [city : City, from : Date, to : Date]]

Query == [from : Date \cup {None}, to : Date \cup {None}, city : City \cup {None}]
Dated(q)     == q.from # None \/ q.to # None
BothDates(q) == q.from # None /\ q.to # None

\* A request with one date searches that day.
From(q) == IF q.from = None THEN q.to ELSE q.from
To(q)   == IF q.to = None THEN q.from ELSE q.to
Window(q) == {d \in Date : From(q) <= d /\ d <= To(q)}

\* resolveBookingShootRange: from the first to the last shoot day.
Start(r) == CHOOSE d \in r.dates : \A e \in r.dates : d <= e
End(r)   == CHOOSE d \in r.dates : \A e \in r.dates : e <= d

\* Without shoot days the code goes by the dates of the project; here such a booking holds
\* nothing, and more is shown.
Held(x) ==
  {b \in Booking : Active(rows[b]) /\ x \in {rows[b].item, rows[b].target} /\ rows[b].dates # {}}

\* Mutant of Meets: forgets what comes after the first day.
MeetsAtStart(r, q, after) == Start(r) <= To(q) /\ From(q) <= Start(r) + after

Meets(r, q, after) == Start(r) <= To(q) /\ From(q) <= End(r) + after

BookedOut(x, q) == \E b \in Held(x) : Meets(rows[b], q, 0)

(***************************************************************************)
(* Where an item is on a day: on the job begun last among those that cover *)
(* it, the days after the shoot included; the longer one of two begun on   *)
(* the same day.  Of two equal ones the database's order decides.          *)
(***************************************************************************)
Covering(x, d) ==
  {b \in Held(x) : Start(rows[b]) <= d /\ d <= End(rows[b]) + Buffer}

Latest(x, d) ==
  {b \in Covering(x, d) :
     \A c \in Covering(x, d) :
       \/ Start(rows[c]) < Start(rows[b])
       \/ Start(rows[c]) = Start(rows[b]) /\ End(rows[c]) <= End(rows[b])}

\* Whether a search may find x in the city because of a job.
MovedTo(x, q) ==
  Dated(q) /\ \E d \in Window(q) : \E b \in Latest(x, d) : CityOf[rows[b].project] = q.city

(***************************************************************************)
(* The searches.                                                           *)
(***************************************************************************)
CastShown(u, q) ==
  BothDates(q) => \A d \in Window(q) : slot[u][d] \notin {"booked", "blocked"}

WindowFits(w, q) ==
  /\ q.city \in {None, w.city}
  /\ Dated(q) => w.from <= To(q) /\ From(q) <= w.to

\* A city counts as the kit's own or as the one its last job took it to; a search by
\* dates alone wants a listed window.
EquipmentShown(x, q) ==
  /\ Dated(q) => ~BookedOut(x, q)
  /\ \/ ~Dated(q) /\ q.city = None
     \/ \E w \in Listed[x] : WindowFits(w, q)
     \/ q.city # None /\ (HomeCity[x] = q.city \/ MovedTo(x, q))

\* A property is looked up among the bookings only when both dates are given, and is
\* listed for every day unless it has windows of its own.
PropertyShown(x, q) ==
  /\ BothDates(q) => ~BookedOut(x, q)
  /\ q.city \in {None, HomeCity[x]}
  /\ Dated(q) /\ Listed[x] # {} => \E w \in Listed[x] : w.from <= To(q) /\ From(q) <= w.to

(***************************************************************************)
(* Property.                                                               *)
(***************************************************************************)

ItemShown(x, q) ==
  IF RoleOf[ItemOwner[x]] = "vendor" THEN EquipmentShown(x, q)
  ELSE PropertyShown(x, q)

\* The equipment, properties and cast that a search with both dates shows can be had on
\* each of those days: no accepted or locked booking takes them, whichever status, span
\* and city led there.  The calendar the cast search reads is kept by other handlers than
\* the bookings; the disturbed days are those it is not held to.
ItemsAndCastShownFree ==
  \A q \in Query : BothDates(q) =>
    /\ \A x \in Item : ItemShown(x, q) => \A d \in Window(q) : Users(rows, x, d) = {}
    /\ \A u \in Persons : RoleOf[u] = "cast" /\ CastShown(u, q) =>
         \A d \in Window(q) : <<u, d>> \in disturbed \/ Users(rows, u, d) = {}
=============================================================================
