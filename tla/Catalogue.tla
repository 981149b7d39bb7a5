------------------------------ MODULE Catalogue ------------------------------
(***************************************************************************)
(* What vendors and location providers list (EquipmentService,             *)
(* PropertiesService): items with a number of units and windows in which   *)
(* they can be had, and the bookings that hold on to an item while its     *)
(* owner changes or deletes it.  Only what a booking has to do with its    *)
(* item is here: BookingRows with a quantity that changes.  Names, prices, *)
(* notes and photos are left out.                                          *)
(***************************************************************************)
EXTENDS Naturals, FiniteSets

CONSTANTS
  Booking, Project, User, Item, Date, None, RoleOf, MainOf, Owner, CastingDirectors,
  ItemOwner, Assigned,   \* see BookingRows
  MaxUnits               \* bound: units of an item

ASSUME CatalogueAssumption ==
  /\ MaxUnits \in Nat \ {0} /\ Date \subseteq Nat
  /\ IsFiniteSet(Booking) /\ None \notin User \cup Item   \* as in BookingRows
  /\ Owner \in [Project -> User] /\ ItemOwner \in [Item -> User]

VARIABLES
  units,     \* quantityTotal, 1 for a property; 0 when there is no such row
  window,    \* availability rows of an item
  bookings   \* booking_requests
catalogueVars == <<units, window, bookings>>

INSTANCE BookingRows WITH Quantity <- units

Windows == {w \in [from : Date, to : Date] : w.from <= w.to}

CatalogueInit ==
  /\ units = [x \in Item |-> 0]
  /\ window = [x \in Item |-> {}]
  /\ bookings = [b \in Booking |-> NoRow]

Listed(x) == units[x] > 0
IsKit(x)  == RoleOf[ItemOwner[x]] = "vendor"
OwnsKit(u, x)   == ItemOwner[x] = u /\ Listed(x) /\ IsKit(x)    \* ensureVendor and the row
OwnsPlace(u, x) == ItemOwner[x] = u /\ Listed(x) /\ ~IsKit(x)   \* ensureOwnedProperty

(***************************************************************************)
(* Items.                                                                  *)
(***************************************************************************)
AddKit(u, x, n) ==
  /\ ItemOwner[x] = u /\ IsKit(x) /\ ~Listed(x)
  /\ units' = [units EXCEPT ![x] = n]
  /\ UNCHANGED <<window, bookings>>

\* A property has one unit.
AddPlace(u, x) ==
  /\ ItemOwner[x] = u /\ ~IsKit(x) /\ ~Listed(x)
  /\ units' = [units EXCEPT ![x] = 1]
  /\ UNCHANGED <<window, bookings>>

\* update with quantityTotal: no booking is looked at.
SetUnits(u, x, n) ==
  /\ OwnsKit(u, x)
  /\ units' = [units EXCEPT ![x] = n]
  /\ UNCHANGED <<window, bookings>>

\* The windows go with the row, the bookings keep standing without an item (the foreign
\* keys say SET NULL).
Delisted(x) ==
  /\ units' = [units EXCEPT ![x] = 0]
  /\ window' = [window EXCEPT ![x] = {}]
  /\ bookings' = [b \in Booking |-> IF bookings[b].item = x
                                    THEN [bookings[b] EXCEPT !.item = None]
                                    ELSE bookings[b]]
RemoveKit(u, x)   == OwnsKit(u, x) /\ Delisted(x)
RemovePlace(u, x) == OwnsPlace(u, x) /\ Delisted(x)

(***************************************************************************)
(* Windows.                                                                *)
(***************************************************************************)
WindowsBecome(x, W) == window' = [window EXCEPT ![x] = W] /\ UNCHANGED <<units, bookings>>

AddKitWindow(u, x, w)   == OwnsKit(u, x) /\ WindowsBecome(x, window[x] \cup {w})
AddPlaceWindow(u, x, w) == OwnsPlace(u, x) /\ WindowsBecome(x, window[x] \cup {w})

\* Mutant of Moved: checks only the ends the request names.
MovedUnchecked(w, from, to) ==
  {v \in [from : Date, to : Date] :
     /\ v.from = IF from = None THEN w.from ELSE from
     /\ v.to = IF to = None THEN w.to ELSE to
     /\ from # None /\ to # None => from <= to}

\* The window w with the ends a request names, None where it keeps the old one.
Moved(w, from, to) ==
  {v \in Windows : /\ v.from = IF from = None THEN w.from ELSE from
                   /\ v.to = IF to = None THEN w.to ELSE to}

EditKitWindow(u, x, w, from, to) ==
  /\ OwnsKit(u, x) /\ w \in window[x]
  /\ \E v \in Moved(w, from, to) : WindowsBecome(x, (window[x] \ {w}) \cup {v})
EditPlaceWindow(u, x, w, from, to) ==
  /\ OwnsPlace(u, x) /\ w \in window[x]
  /\ \E v \in Moved(w, from, to) : WindowsBecome(x, (window[x] \ {w}) \cup {v})

DropKitWindow(u, x, w) ==
  OwnsKit(u, x) /\ w \in window[x] /\ WindowsBecome(x, window[x] \ {w})
DropPlaceWindow(u, x, w) ==
  OwnsPlace(u, x) /\ w \in window[x] /\ WindowsBecome(x, window[x] \ {w})

(***************************************************************************)
(* Bookings: one request per item and project, accepted against the number *)
(* of units the item has by then.                                          *)
(***************************************************************************)
Unused == {b \in Booking : bookings[b] = NoRow}

AskFor(x, p, D) ==
  /\ Listed(x) /\ Unused # {}
  /\ InTheWay(bookings, p, ItemOwner[x], x) = {}
  /\ bookings' = [bookings EXCEPT ![CHOOSE b \in Unused : TRUE] =
                                    NewRow(p, Owner[p], ItemOwner[x], x, D)]
  /\ UNCHANGED <<units, window>>

AcceptFor(b) ==
  /\ bookings[b].status = "pending"
  /\ ~CapacityReached(bookings, b, bookings[b].dates)
  /\ bookings' = [bookings EXCEPT ![b] = Accepted(@)]
  /\ UNCHANGED <<units, window>>

\* The booking is cancelled; its id serves again (bound).
EndBooking(b) ==
  /\ Exists(bookings[b])
  /\ bookings' = [bookings EXCEPT ![b] = NoRow]
  /\ UNCHANGED <<units, window>>

ItemStep(u, x) ==
  \/ \E n \in 1 .. MaxUnits : AddKit(u, x, n) \/ SetUnits(u, x, n)
  \/ AddPlace(u, x)
  \/ RemoveKit(u, x) \/ RemovePlace(u, x)

WindowStep(u, x) ==
  \E w \in Windows :
    \/ AddKitWindow(u, x, w) \/ AddPlaceWindow(u, x, w)
    \/ DropKitWindow(u, x, w) \/ DropPlaceWindow(u, x, w)
    \/ \E from, to \in Date \cup {None} :
         EditKitWindow(u, x, w, from, to) \/ EditPlaceWindow(u, x, w, from, to)

HoldStep ==
  \/ \E x \in Item, p \in Project, D \in (SUBSET Date) \ {{}} : AskFor(x, p, D)
  \/ \E b \in Booking : AcceptFor(b) \/ EndBooking(b)

CatalogueNext ==
  \/ \E u \in User : \E x \in Item : ItemStep(u, x) \/ WindowStep(u, x)
  \/ HoldStep

CatalogueSpec == CatalogueInit /\ [][CatalogueNext]_catalogueVars

(***************************************************************************)
(* Properties.                                                             *)
(***************************************************************************)

\* Every variable has its type; no window ends before it begins.
CatalogueTypeOK ==
  /\ units \in [Item -> 0 .. MaxUnits]
  /\ window \in [Item -> SUBSET Windows]
  /\ bookings \in [Booking -> Row]

\* A vendor may lower the number of units under bookings that were accepted, and a day
\* is then promised more often than there are units; but accept never adds to such a
\* day, nor makes one, whatever was lowered, deleted and listed again before.
OverbookedOnlyByLowering ==
  [][\A x \in Item, d \in Date :
       Cardinality(Users(bookings, x, d)') > Capacity(x)' =>
         Cardinality(Users(bookings, x, d)') <= Cardinality(Users(bookings, x, d))]_catalogueVars
=============================================================================
