--------------------------- MODULE BookingLifecycle ---------------------------
(***************************************************************************)
(* What the platform promises about the life of a booking request, apart   *)
(* from how any handler does it.  A request is pending until it is         *)
(* answered, withdrawn or expires; once accepted it may be locked; what    *)
(* was agreed ends only through a cancellation request, and a refused      *)
(* request puts the booking back at the very point it was at.  A declined, *)
(* expired or cancelled request stays so.  Only deleting the project takes *)
(* a request away.  One step may move several bookings.                    *)
(***************************************************************************)
CONSTANT Booking
VARIABLE point

Point == {"absent", "pending", "accepted", "locked", "asked_accepted",
          "asked_locked", "declined", "expired", "cancelled"}

Edge == {
  <<"absent", "pending">>,
  <<"pending", "accepted">>, <<"pending", "declined">>,
  <<"pending", "expired">>,  <<"pending", "cancelled">>,
  <<"accepted", "locked">>,
  <<"accepted", "asked_accepted">>, <<"locked", "asked_locked">>,
  <<"asked_accepted", "accepted">>, <<"asked_locked", "locked">>,
  <<"asked_accepted", "cancelled">>, <<"asked_locked", "cancelled">>
} \cup (Point \X {"absent"})

Init == point = [b \in Booking |-> "absent"]

Move(b) == point'[b] = point[b] \/ <<point[b], point'[b]>> \in Edge

Next == point' \in [Booking -> Point] /\ \A b \in Booking : Move(b)

Spec == Init /\ [][Next]_point
=============================================================================
