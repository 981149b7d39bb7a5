-------------------------------- MODULE Reviews --------------------------------
(***************************************************************************)
(* Reviews that the two parties of a booking leave about each other        *)
(* (ReviewsService).  createReview reads the booking, looks for a review   *)
(* of the same login and inserts, one query after the other; the foreign   *)
(* key and the unique key on booking and reviewer may refuse the insert.   *)
(* Of the bookings only the life is here, as `BookingLifecycle' promises   *)
(* it; ratings and texts are left out.                                     *)
(***************************************************************************)
EXTENDS Logins

CONSTANTS
  Hire,         \* ids of bookings
  RequesterOf,  \* requesterUserId of a booking
  TargetOf,     \* targetUserId
  Review        \* ids a reviews row may get

\* createRequest refuses to book one's own account.
ASSUME ReviewsAssumption ==
  /\ RequesterOf \in [Hire -> Login] /\ TargetOf \in [Hire -> Login]
  /\ \A b \in Hire : RequesterOf[b] # TargetOf[b]
  /\ IsFiniteSet(Hire) /\ IsFiniteSet(Review) /\ Nobody \notin Hire

VARIABLES
  point,    \* where each booking is in its life
  review,   \* the reviews rows
  pen,      \* the createReview each handler works on
  agreed    \* history: bookings that were accepted once
reviewVars == <<point, review, pen, agreed>>

Life == INSTANCE BookingLifecycle WITH Booking <- Hire

ReviewRow == [hire : Hire \cup {Nobody}, by : Login \cup {Nobody}, of : Login \cup {Nobody}]
NoReview  == [hire |-> Nobody, by |-> Nobody, of |-> Nobody]
Pen       == [at : {"idle", "search", "insert"}, row : ReviewRow]
Down      == [at |-> "idle", row |-> NoReview]

ReviewsInit ==
  /\ Life!Init
  /\ review = [r \in Review |-> NoReview]
  /\ pen = [h \in Handler |-> Down]
  /\ agreed = {}

Parties(b)  == {RequesterOf[b], TargetOf[b]}
Stored      == {r \in Review : review[r] # NoReview}
SameKey(row) == {r \in Stored : review[r].hire = row.hire /\ review[r].by = row.by}

\* Everything that happens to bookings; an id serves once.  A booking that goes with its
\* project takes its reviews along (the foreign key cascades).
BookingsMove ==
  /\ Life!Next
  /\ \A b \in agreed : point[b] = "absent" => point'[b] = "absent"
  /\ review' = [r \in Review |->
       IF \E b \in Hire : review[r].hire = b /\ point'[b] = "absent" THEN NoReview ELSE review[r]]
  /\ agreed' = agreed \cup {b \in Hire : point'[b] \in {"accepted", "locked"}}
  /\ UNCHANGED pen

(***************************************************************************)
(* createReview, query by query.                                           *)
(***************************************************************************)
\* Mutant of Reviewable: any booking may be reviewed.
ReviewableAny(b) == point[b] # "absent"

Reviewable(b) == point[b] \in {"accepted", "locked"}

ReadBooking(h, u, b) ==
  /\ pen[h] = Down
  /\ Reviewable(b) /\ u \in Parties(b)
  /\ \E v \in Parties(b) \ {u} :
       pen' = [pen EXCEPT ![h] = [at |-> "search", row |-> [hire |-> b, by |-> u, of |-> v]]]
  /\ UNCHANGED <<point, review, agreed>>

SearchOwn(h) ==
  /\ pen[h].at = "search"
  /\ pen' = [pen EXCEPT ![h] = IF SameKey(pen[h].row) = {} THEN [@ EXCEPT !.at = "insert"]
                               ELSE Down]
  /\ UNCHANGED <<point, review, agreed>>

\* Mutant of Insertable: without the unique key.
InsertableTwice(row) == point[row.hire] # "absent"

Insertable(row) == point[row.hire] # "absent" /\ SameKey(row) = {}

InsertReview(h) ==
  LET row == pen[h].row IN
  /\ pen[h].at = "insert" /\ Insertable(row)
  /\ \E r \in Review \ Stored : review' = [review EXCEPT ![r] = row]
  /\ pen' = [pen EXCEPT ![h] = Down]
  /\ UNCHANGED <<point, agreed>>

\* The insert is refused, or the process dies.
DropPen(h) ==
  /\ pen[h] # Down
  /\ pen' = [pen EXCEPT ![h] = Down]
  /\ UNCHANGED <<point, review, agreed>>

ReviewStep ==
  \/ BookingsMove
  \/ \E h \in Handler :
       \/ \E u \in Login, b \in Hire : ReadBooking(h, u, b)
       \/ SearchOwn(h) \/ InsertReview(h) \/ DropPen(h)

ReviewsSpec == ReviewsInit /\ [][ReviewStep]_reviewVars

(***************************************************************************)
(* What is shown.                                                          *)
(***************************************************************************)
ReviewsForUser(u)    == {r \in Stored : review[r].of = u}
MyReviews(u)         == {r \in Stored : review[r].by = u}
ReviewsForBooking(b) == {r \in Stored : review[r].hire = b}
TotalReviews(u)      == Cardinality(ReviewsForUser(u))

(***************************************************************************)
(* Properties.                                                             *)
(***************************************************************************)

\* Every variable has its type.
ReviewsTypeOK ==
  /\ point \in [Hire -> Life!Point]
  /\ review \in [Review -> ReviewRow]
  /\ pen \in [Handler -> Pen]
  /\ agreed \subseteq Hire

\* Nobody's rating counts more reviews than bookings the user was in that were once
\* accepted and still exist, however often a review is sent, and in whatever state
\* the booking is by the time it is stored; nobody has left more than that either, and
\* a booking shows one review of each side at most.
RatingBacked ==
  /\ \A u \in Login :
       LET backing == {b \in agreed : point[b] # "absent" /\ u \in Parties(b)} IN
       /\ TotalReviews(u) <= Cardinality(backing)
       /\ Cardinality(MyReviews(u)) <= Cardinality(backing)
  /\ \A b \in Hire, r, s \in Review :
       r \in ReviewsForBooking(b) /\ s \in ReviewsForBooking(b) /\ r # s =>
         b \in agreed /\ {review[r].by, review[s].by} = Parties(b)
=============================================================================
