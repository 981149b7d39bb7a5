------------------------------ MODULE MCBookings ------------------------------
(* Instances of Bookings small enough for TLC. *)
EXTENDS Bookings, TLC

CONSTANTS co, cosub, agency, ann, rig, yard, kit, place

\* Users of every instance: a production company with a sub-user, a casting
\* agency, one crew member, one equipment vendor, one location provider.
MCRoleOf == [u \in User |-> CASE u \in {co, cosub, agency} -> "company"
                              [] u = ann -> "individual"
                              [] u = rig -> "vendor"
                              [] u = yard -> "location"]
MCMainOf == [u \in User |-> IF u = cosub THEN co ELSE u]
MCOwner  == [p \in Project |-> co]
MCAgencies == {agency} \cap User
MCItemOwner == [i \in Item |-> IF i = kit THEN rig ELSE yard]
MCQuantity  == [i \in Item |-> IF i = kit THEN 2 ELSE 1]
MCAssigned  == IF cosub \in User THEN {cosub} \X Project ELSE {}
Interchangeable == Permutations(Booking) \cup Permutations(Project) \cup Permutations(Date)

\* States that differ only in what no handler reads count as one: the columns of a
\* closed booking, which is only ever deleted with its project, the requester's
\* completion stamp, which only its own step looks at, and the calendars of companies
\* and providers, which decide nothing but their own next values.
Seen(r) == IF Closed(r)
           THEN [NoRow EXCEPT !.status = "cancelled", !.project = r.project]
           ELSE [r EXCEPT !.doneByRequester = FALSE]
Relevant == <<[b \in Booking |-> Seen(rows[b])], [u \in Persons |-> slot[u]],
              stage, disturbed,
              {b \in asked : ~Closed(rows[b])}>>

OneOrTheOther == {{d} : d \in Date}
KeepOrWiden   == {None, Date}
=============================================================================
