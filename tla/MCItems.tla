-------------------------------- MODULE MCItems --------------------------------
(* Small instances of Bookings in which other things are booked than the crew   *)
(* member of MCBookings, and of Search over their rows.  A behaviour keeps to   *)
(* one of the shapes, chosen at the start:                                      *)
(*   units  a vendor with two units of a kit, three projects, one day           *)
(*   sides  a company with a sub-user, an agency it may hire with a sub-user    *)
(*          assigned to nothing, two projects, one day                          *)
(*   place  a location with one property, two projects, one day                *)
(*   items  the kit and the property, two projects out of town, three days; no   *)
(*          booking is completed, declined or expires                           *)
(*   cast   an actor and her calendar, two projects, two days                   *)
EXTENDS MCBookings, Search, Listings

CONSTANTS star, temp, home, away, p1, p2, p3

VARIABLE shape
itemVars == <<shape, vars>>

MCItemRoleOf == [u \in User |-> CASE u = star -> "cast" [] u = temp -> "company"
                                 [] OTHER -> MCRoleOf[u]]
MCItemMainOf == [u \in User |-> IF u = temp THEN agency ELSE MCMainOf[u]]
MCCityOf   == [p \in Project |-> away]
MCHomeCity == [x \in User \cup Item |-> home]
MCListed   == [x \in Item |-> IF x = kit THEN {[city |-> away, from |-> 2, to |-> 3]} ELSE {}]

Who == CASE shape = "units" -> {co, rig}
         [] shape = "sides" -> {co, cosub, agency, temp}
         [] shape = "place" -> {co, yard}
         [] shape = "items" -> {co, rig, yard}
         [] shape = "cast"  -> {co, star}
Things == CASE shape = "units" -> {kit}
            [] shape = "place" -> {place}
            [] shape = "items" -> {kit, place}
            [] OTHER -> {}
Where == IF shape = "units" THEN Project ELSE {p1, p2}
When  == CASE shape = "items" -> Date [] shape = "cast" -> {1, 2} [] OTHER -> {1}
Which == IF shape = "units" THEN Booking ELSE {b \in Booking : b # CHOOSE c \in Booking : TRUE}

Ask(u, p) ==
  \E t \in Account \cap Who, i \in Things \cup {None}, D \in (SUBSET When) \ {{}}, b \in Which :
    /\ shape \in {"items", "units"} => i # None
    /\ CreateRequest(u, p, t, i, D, b)

OnProjects(u, p) ==
  \/ CreateProject(u, p)
  \/ Ask(u, p)
  \/ LockAll(u, p, None)
  \/ shape \in {"units", "sides", "place"} /\ RemoveProject(u, p)
  \/ shape = "sides" /\ \E st \in SettableStatus : UpdateProject(u, p, st)

OnItems(u, b) ==
  \/ Accept(u, b)
  \/ Lock(u, b, None)
  \/ RequestCancellation(u, b)
  \/ AgreeToCancel(u, b)
  \/ RefuseToCancel(u, b)

ItemsInit == Init /\ shape \in {"units", "sides", "place", "items", "cast"}

ItemsNext ==
  /\ UNCHANGED shape
  /\ \/ \E u \in Who, p \in Where : OnProjects(u, p)
     \/ \E u \in Who, b \in Which :
          IF shape = "items" THEN OnItems(u, b) ELSE BookingStep(u, b)
     \/ \E u \in Who \cap Persons : CalendarStep(u)
     \/ /\ shape \in {"units", "sides", "place"}
        /\ ExpireTick \/ \E b \in Which : TimePasses(b)

ItemsSpec == ItemsInit /\ [][ItemsNext]_itemVars

Alike == Permutations(Booking) \cup Permutations(Project)
ItemsView == <<shape, Relevant>>
=============================================================================
