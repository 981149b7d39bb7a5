----------------------------- MODULE MCRacesPair -----------------------------
(* Two requests in flight at every await, next to the expiry job.  A behaviour  *)
(* is about one of two contests, chosen at the start:                           *)
(*   person  one booking of a crew member: every handler, and the job           *)
(*   unit    the only unit of a kit, asked for on three projects: the requests  *)
(*           are accepted, locked and withdrawn                                 *)
EXTENDS MCBookingRaces

CONSTANTS rig, kit, p1, b1

PairRoleOf == [u \in User |-> IF u = rig THEN "vendor" ELSE MCRoleOf[u]]
PairItemOwner == [i \in Item |-> rig]
One == [i \in Item |-> 1]

OwnProject ==
  CHOOSE f \in [Booking -> Project] : \A b, c \in Booking : b # c => f[b] # f[c]

PairInit ==
  /\ rows \in {[b \in Booking |-> NoRow],
               [b \in Booking |-> NewRow(OwnProject[b], co, rig, kit, Date)]}
  /\ slot = [u \in User |-> [d \in Date |-> "available"]]
  /\ stage = [p \in Project |-> "active"]
  /\ disturbed = {} /\ asked = {} /\ tick = {} /\ agreed = {}
  /\ flight = [w \in Worker |-> Idle]

\* Rows are not deleted here.
AboutPerson == \A b \in Booking : rows[b].target # rig

Opening(w) ==
  IF AboutPerson
  THEN \/ BeginCreate(w, co, p1, ann, None, Date)
       \/ \E op \in Op, u \in User : Begin(w, op, u, b1)
       \/ BeginHeal(w, ann)
  ELSE \E op \in {"accept", "lock", "cancel"}, u \in User, b \in Booking : Begin(w, op, u, b)

Contest(w) ==
  \/ Opening(w)
  \/ Insert(w, b1)
  \/ ReadSlots(w) \/ ReadRivals(w) \/ (\E d \in Date : WriteDay(w, d)) \/ WriteRow(w)
  \/ ReadBookings(w) \/ WriteHeal(w)
  \/ Fail(w)

PairNext ==
  \/ \E w \in Worker : Contest(w)
  \/ AboutPerson /\ ClockTick(b1)
  \/ TickRead
  \/ TickWrite

PairSpec == PairInit /\ [][PairNext]_raceVars /\ WF_raceVars(TickRead) /\ WF_raceVars(TickWrite)
=============================================================================
