---------------------------- MODULE MCBookingRaces ----------------------------
(* Instances of BookingRaces small enough for TLC: one company, one crew member. *)
EXTENDS BookingRaces, TLC

CONSTANTS co, ann

MCRoleOf == [u \in User |-> IF u = co THEN "company" ELSE "individual"]
MCMainOf == [u \in User |-> u]
MCOwner  == [p \in Project |-> co]
NoItems  == [i \in {} |-> co]
Interchangeable ==
  Permutations(Booking) \cup Permutations(Project) \cup Permutations(Date)
    \cup Permutations(Worker)
=============================================================================
