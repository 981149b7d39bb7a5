---------------------------- MODULE Services_proofs ----------------------------
(***************************************************************************)
(* Proofs about the components that keep rows of their own: notifications, *)
(* invoice numbers, the catalogue, the pages of a search and reviews, for  *)
(* any number of logins, rows, requests and items.                         *)
(***************************************************************************)
EXTENDS Notices, Numbering, Catalogue, SearchPages, Reviews, FiniteSetTheorems,
        WellFoundedInduction, TLAPS

(***************************************************************************)
(* Notifications.                                                          *)
(***************************************************************************)

(***************************************************************************)
(* Counting the unread rows of a box.                                      *)
(***************************************************************************)

\* The number of unread rows is a number.
LEMMA CountIsNat == \A o : Count(o) \in Nat
<1> TAKE o
<1>1. UnreadIn(o) \subseteq Notice
  BY DEF UnreadIn
<1> QED BY <1>1, NoticeAssumption, FS_Subset, FS_CardinalityType DEF Count

\* A box whose unread rows stay the same keeps its number.
LEMMA CountKept ==
  ASSUME NEW o, UnreadIn(o)' = UnreadIn(o)
  PROVE  Count(o)' = Count(o)
BY DEF Count

\* The account of a login is a login.
LEMMA BoxIsLogin == \A u \in Login : BoxOf(u) \in Login
BY LoginAssumption DEF BoxOf

(***************************************************************************)
(* Type correctness.                                                       *)
(***************************************************************************)

\* The first state is well-typed.
LEMMA NoticesTypeInit == NoticesInit => NoticesTypeOK
<1> SUFFICES ASSUME NoticesInit PROVE NoticesTypeOK
  OBVIOUS
<1>1. \A u \in Login : [c \in Channel |-> IF c = "sms" THEN "off" ELSE "on"] \in Preferences
  BY DEF Preferences
<1> QED BY <1>1 DEF NoticesInit, NoticesTypeOK, NoticeRow, Desk, Free, NoEntry

\* Every step writes well-typed values.
LEMMA NoticesTypeStep == NoticesTypeOK /\ [NoticesNext]_noticeVars => NoticesTypeOK'
<1> SUFFICES ASSUME NoticesTypeOK, [NoticesNext]_noticeVars PROVE NoticesTypeOK'
  OBVIOUS
<1> USE DEF NoticesTypeOK
<1>d. \A g \in Handler, o \in Login :
        /\ [Free EXCEPT !.at = "drop", !.box = o] \in Desk
        /\ [desk[g] EXCEPT !.late = TRUE] \in Desk
  BY DEF Free, Desk
<1>w. ASSUME NEW h \in Handler, NEW o \in Login, Written(h, o)
      PROVE  desk' \in [Handler -> Desk]
  BY <1>w, <1>d DEF Written
<1>f. Free \in Desk
  BY DEF Free, Desk
<1>1. ASSUME NEW h \in Handler, NEW u \in Login, NEW n \in Notice, CreateForUser(h, u, n)
      PROVE  NoticesTypeOK'
  BY <1>1, <1>w DEF CreateForUser, NoticeRow
<1>2. ASSUME NEW h \in Handler, NEW u \in Login, NEW n \in Notice, MarkRead(h, u, n)
      PROVE  NoticesTypeOK'
  <2>1. notice[n].owner \in Login
    BY <1>2 DEF MarkRead, NoticeRow
  <2>2. desk' \in [Handler -> Desk]
    BY <1>2, <2>1, <1>w DEF MarkRead
  <2> QED BY <1>2, <2>2 DEF MarkRead, NoticeRow
<1>3. ASSUME NEW h \in Handler, NEW u \in Login, MarkAllRead(h, u)
      PROVE  NoticesTypeOK'
  <2>1. desk' \in [Handler -> Desk]
    BY <1>3, <1>d, BoxIsLogin DEF MarkAllRead, DroppedBy
  <2>2. notice' \in [Notice -> NoticeRow]
    BY <1>3 DEF MarkAllRead, NoticeRow
  <2> QED BY <1>3, <2>1, <2>2 DEF MarkAllRead
<1>4. ASSUME NEW h \in Handler, NEW u \in Login, CountUnread(h, u)
      PROVE  NoticesTypeOK'
  BY <1>4, CountIsNat, BoxIsLogin DEF CountUnread, Desk
<1>5. ASSUME NEW h \in Handler, DropKey(h) PROVE NoticesTypeOK'
  BY <1>5, <1>f DEF DropKey
<1>6. ASSUME NEW h \in Handler, LoseDrop(h) PROVE NoticesTypeOK'
  BY <1>6, <1>f DEF LoseDrop
<1>7. ASSUME NEW h \in Handler, StoreCount(h) PROVE NoticesTypeOK'
  BY <1>7, <1>f DEF StoreCount, Desk
<1>8. ASSUME NEW h \in Handler, LoseCount(h) PROVE NoticesTypeOK'
  BY <1>8, <1>f DEF LoseCount
<1>9. ASSUME NEW o \in Login, BadgeLapses(o) PROVE NoticesTypeOK'
  BY <1>9 DEF BadgeLapses
<1>10. ASSUME NEW o \in Login, NEW n \in Notice, ClearAlert(o, n) PROVE NoticesTypeOK'
  <2>1. desk' \in [Handler -> Desk]
    BY <1>10, <1>d DEF ClearAlert
  <2>2. notice' \in [Notice -> NoticeRow]
    BY <1>10 DEF ClearAlert, NoticeRow
  <2>3. excused' \in [Login -> BOOLEAN]
    BY <1>10, Zenon DEF ClearAlert
  <2> QED BY <1>10, <2>1, <2>2, <2>3 DEF ClearAlert
<1>11. ASSUME NEW u \in Login, NEW dto \in Preferences, UpdatePreferences(u, dto)
       PROVE  NoticesTypeOK'
  BY <1>11 DEF UpdatePreferences
<1>12. CASE UNCHANGED noticeVars
  BY <1>12 DEF noticeVars
<1> QED
  BY <1>1, <1>2, <1>3, <1>4, <1>5, <1>6, <1>7, <1>8, <1>9, <1>10, <1>11, <1>12
  DEF NoticesNext, BadgeStep

(***************************************************************************)
(* The badge.  A count under way that nothing overtook is the number of    *)
(* unread rows; that makes what is stored from it true.                    *)
(***************************************************************************)
CountsTrue ==
  \A h \in Handler :
    /\ desk[h].at # "idle" => desk[h].box \in Login
    /\ \A a \in Login : desk[h].at = "fill" /\ desk[h].box = a /\ ~desk[h].late =>
                         desk[h].count = Count(a)

BadgeInv == NoticesTypeOK /\ CountsTrue /\ BadgeStaleOnlyInRace

\* It holds at first: there is no entry and no request.
LEMMA BadgeInit == NoticesInit => BadgeInv
<1> SUFFICES ASSUME NoticesInit PROVE BadgeInv
  OBVIOUS
<1>1. CountsTrue
  BY DEF NoticesInit, CountsTrue, Free
<1>2. BadgeStaleOnlyInRace
  BY DEF NoticesInit, BadgeStaleOnlyInRace
<1> QED BY <1>1, <1>2, NoticesTypeInit DEF BadgeInv

\* A request that writes rows of one box and goes on to delete its key excuses the entry
\* of that box and marks the counts of it as late; the other boxes do not change.
LEMMA WriteKeeps ==
  ASSUME BadgeInv, NEW h \in Handler, NEW o \in Login, desk[h] = Free, Written(h, o),
         \A a \in Login \ {o} : UnreadIn(a)' = UnreadIn(a),
         UNCHANGED <<badge, excused>>
  PROVE  CountsTrue' /\ BadgeStaleOnlyInRace'
<1> USE DEF BadgeInv, NoticesTypeOK
<1>1. \A a \in Login \ {o} : Count(a)' = Count(a)
  BY CountKept
<1>2. desk'[h].at = "drop" /\ desk'[h].box = o
  BY DEF Written, Free
<1>3. ASSUME NEW g \in Handler, g # h
      PROVE  /\ desk'[g].at = desk[g].at /\ desk'[g].box = desk[g].box
             /\ desk'[g].count = desk[g].count
             /\ desk[g].at = "fill" /\ desk[g].box = o => desk'[g].late
             /\ ~(desk[g].at = "fill" /\ desk[g].box = o) => desk'[g] = desk[g]
  BY <1>3 DEF Written, Desk
<1>4. CountsTrue'
  <2>1. ASSUME NEW g \in Handler, desk'[g].at # "idle" PROVE desk'[g].box \in Login
    BY <2>1, <1>2, <1>3 DEF CountsTrue
  <2>2. ASSUME NEW g \in Handler, NEW a \in Login,
               desk'[g].at = "fill", desk'[g].box = a, ~desk'[g].late
        PROVE  desk'[g].count = Count(a)'
    <3>1. g # h
      BY <2>2, <1>2
    <3>2. a # o /\ desk'[g] = desk[g]
      BY <2>2, <3>1, <1>3
    <3>3. desk[g].count = Count(a)
      BY <2>2, <3>2 DEF CountsTrue
    <3> QED BY <3>2, <3>3, <1>1
  <2> QED BY <2>1, <2>2 DEF CountsTrue
<1>5. BadgeStaleOnlyInRace'
  <2> SUFFICES ASSUME NEW a \in Login, badge'[a] \notin {NoEntry, Count(a)'}
               PROVE  excused'[a] \/ \E g \in Handler : desk'[g].at = "drop" /\ desk'[g].box = a
    BY DEF BadgeStaleOnlyInRace
  <2>1. CASE a = o
    BY <2>1, <1>2
  <2>2. CASE a # o
    <3>1. excused[a] \/ \E g \in Handler : desk[g].at = "drop" /\ desk[g].box = a
      BY <2>2, <1>1 DEF BadgeStaleOnlyInRace
    <3>2. ASSUME NEW g \in Handler, desk[g].at = "drop", desk[g].box = a
          PROVE  desk'[g].at = "drop" /\ desk'[g].box = a
      <4>1. g # h
        BY <3>2 DEF Free
      <4> QED BY <3>2, <4>1, <1>3
    <3> QED BY <3>1, <3>2
  <2> QED BY <2>1, <2>2
<1> QED BY <1>4, <1>5

\* Marking a row as read changes the box of its owner only.
LEMMA ReadOthers ==
  ASSUME NoticesTypeOK, NEW n \in Notice, notice' = [notice EXCEPT ![n].read = TRUE],
         NEW a \in Login, a # notice[n].owner
  PROVE  UnreadIn(a)' = UnreadIn(a)
<1>1. ASSUME NEW m \in Notice
      PROVE  notice'[m].owner = notice[m].owner /\ (m # n => notice'[m].read = notice[m].read)
  BY DEF NoticesTypeOK, NoticeRow
<1> QED BY <1>1 DEF UnreadIn

\* Every step keeps the badge true but for the races named.
LEMMA BadgeInvStep == BadgeInv /\ [NoticesNext]_noticeVars => BadgeInv'
<1> SUFFICES ASSUME BadgeInv, [NoticesNext]_noticeVars PROVE CountsTrue' /\ BadgeStaleOnlyInRace'
  BY NoticesTypeStep DEF BadgeInv
<1> USE DEF BadgeInv
<1>0. ASSUME UNCHANGED notice PROVE \A a \in Login : Count(a)' = Count(a)
  BY <1>0 DEF Count, UnreadIn
<1>1. ASSUME NEW h \in Handler, NEW u \in Login, NEW n \in Notice, CreateForUser(h, u, n)
      PROVE  CountsTrue' /\ BadgeStaleOnlyInRace'
  <2>1. \A a \in Login \ {u} : UnreadIn(a)' = UnreadIn(a)
    <3>1. \A a \in Login : notice[n].owner # a
      BY <1>1, LoginAssumption DEF CreateForUser
    <3>2. ASSUME NEW m \in Notice, m # n PROVE notice'[m] = notice[m]
      BY <1>1, <3>2 DEF CreateForUser, NoticesTypeOK
    <3>3. notice'[n].owner = u
      BY <1>1 DEF CreateForUser, NoticesTypeOK
    <3> QED BY <3>1, <3>2, <3>3 DEF UnreadIn
  <2> QED BY <1>1, <2>1, WriteKeeps DEF CreateForUser
<1>2. ASSUME NEW h \in Handler, NEW u \in Login, NEW n \in Notice, MarkRead(h, u, n)
      PROVE  CountsTrue' /\ BadgeStaleOnlyInRace'
  <2>1. notice[n].owner \in Login
    BY <1>2 DEF MarkRead, NoticesTypeOK, NoticeRow
  <2>2. \A a \in Login \ {notice[n].owner} : UnreadIn(a)' = UnreadIn(a)
    BY <1>2, ReadOthers DEF MarkRead
  <2> QED BY <1>2, <2>1, <2>2, WriteKeeps DEF MarkRead
<1>3. ASSUME NEW h \in Handler, NEW u \in Login, MarkAllRead(h, u)
      PROVE  CountsTrue' /\ BadgeStaleOnlyInRace'
  <2>1. BoxOf(u) \in Login /\ Written(h, BoxOf(u))
    BY <1>3, BoxIsLogin DEF MarkAllRead, DroppedBy, Written
  <2>2. ASSUME NEW a \in Login \ {BoxOf(u)} PROVE UnreadIn(a)' = UnreadIn(a)
    <3>1. ASSUME NEW m \in Notice, notice[m].owner = a PROVE notice'[m] = notice[m]
      BY <1>3, <2>2, <3>1 DEF MarkAllRead, UnreadIn
    <3>2. ASSUME NEW m \in Notice PROVE notice'[m].owner = notice[m].owner
      BY <1>3 DEF MarkAllRead, NoticesTypeOK, NoticeRow
    <3> QED BY <3>1, <3>2 DEF UnreadIn
  <2> QED BY <1>3, <2>1, <2>2, WriteKeeps DEF MarkAllRead
<1>4. ASSUME NEW h \in Handler, NEW u \in Login, CountUnread(h, u)
      PROVE  CountsTrue' /\ BadgeStaleOnlyInRace'
  <2>1. \A a \in Login : Count(a)' = Count(a)
    BY <1>4, <1>0 DEF CountUnread
  <2>2. desk'[h].at = "fill" /\ desk'[h].box = BoxOf(u) /\ desk'[h].count = Count(BoxOf(u))
    BY <1>4 DEF CountUnread, NoticesTypeOK
  <2>3. \A g \in Handler : g # h => desk'[g] = desk[g]
    BY <1>4 DEF CountUnread, NoticesTypeOK
  <2>4. desk[h].at = "idle"
    BY <1>4 DEF CountUnread, Free
  <2>5. CountsTrue'
    BY <2>1, <2>2, <2>3, BoxIsLogin DEF CountsTrue
  <2>6. badge' = badge /\ excused' = excused
    BY <1>4 DEF CountUnread
  <2>7. BadgeStaleOnlyInRace'
    BY <2>1, <2>3, <2>4, <2>6 DEF BadgeStaleOnlyInRace
  <2> QED BY <2>5, <2>7
<1>5. ASSUME NEW h \in Handler, DropKey(h) \/ LoseDrop(h)
      PROVE  CountsTrue' /\ BadgeStaleOnlyInRace'
  <2>1. \A a \in Login : Count(a)' = Count(a)
    BY <1>5, <1>0 DEF DropKey, LoseDrop
  <2>2. desk'[h] = Free /\ \A g \in Handler : g # h => desk'[g] = desk[g]
    BY <1>5 DEF DropKey, LoseDrop, NoticesTypeOK
  <2>3. CountsTrue'
    BY <2>1, <2>2 DEF CountsTrue, Free
  <2>4. desk[h].box \in Login
    BY <1>5 DEF DropKey, LoseDrop, CountsTrue
  <2>5. badge'[desk[h].box] = NoEntry \/ excused'[desk[h].box]
    BY <1>5, <2>4 DEF DropKey, LoseDrop, NoticesTypeOK
  <2>6. \A a \in Login : a # desk[h].box => badge'[a] = badge[a] /\ excused'[a] = excused[a]
    BY <1>5 DEF DropKey, LoseDrop, NoticesTypeOK
  <2>7. BadgeStaleOnlyInRace'
    <3> SUFFICES ASSUME NEW a \in Login, a # desk[h].box, badge'[a] \notin {NoEntry, Count(a)'}
                 PROVE  excused'[a] \/ \E g \in Handler : desk'[g].at = "drop" /\ desk'[g].box = a
      BY <2>5 DEF BadgeStaleOnlyInRace
    <3> QED BY <2>1, <2>2, <2>6 DEF BadgeStaleOnlyInRace
  <2> QED BY <2>3, <2>7
<1>6. ASSUME NEW h \in Handler, StoreCount(h) \/ LoseCount(h)
      PROVE  CountsTrue' /\ BadgeStaleOnlyInRace'
  <2>1. \A a \in Login : Count(a)' = Count(a)
    BY <1>6, <1>0 DEF StoreCount, LoseCount
  <2>2. desk'[h] = Free /\ \A g \in Handler : g # h => desk'[g] = desk[g]
    BY <1>6 DEF StoreCount, LoseCount, NoticesTypeOK
  <2>3. CountsTrue'
    BY <2>1, <2>2 DEF CountsTrue, Free
  <2>4. desk[h].at = "fill" /\ desk[h].box \in Login
    BY <1>6 DEF StoreCount, LoseCount, CountsTrue
  <2>5. desk[h].late \/ desk[h].count = Count(desk[h].box)
    BY <2>4 DEF CountsTrue
  <2>6. \/ badge' = badge /\ excused' = excused
        \/ /\ badge'[desk[h].box] = desk[h].count
           /\ excused'[desk[h].box] = desk[h].late
           /\ \A a \in Login : a # desk[h].box => badge'[a] = badge[a] /\ excused'[a] = excused[a]
    BY <1>6, <2>4 DEF StoreCount, LoseCount, NoticesTypeOK
  <2>7. BadgeStaleOnlyInRace'
    <3> SUFFICES ASSUME NEW a \in Login, badge'[a] \notin {NoEntry, Count(a)'}
                 PROVE  excused'[a] \/ \E g \in Handler : desk'[g].at = "drop" /\ desk'[g].box = a
      BY DEF BadgeStaleOnlyInRace
    <3>1. CASE badge'[a] = badge[a] /\ excused'[a] = excused[a]
      BY <3>1, <2>1, <2>2, <2>4 DEF BadgeStaleOnlyInRace
    <3>2. CASE a = desk[h].box /\ badge'[a] = desk[h].count /\ excused'[a] = desk[h].late
      BY <3>2, <2>1, <2>5
    <3> QED BY <3>1, <3>2, <2>6
  <2> QED BY <2>3, <2>7
<1>7. ASSUME NEW o \in Login, BadgeLapses(o) PROVE CountsTrue' /\ BadgeStaleOnlyInRace'
  <2>1. \A a \in Login : Count(a)' = Count(a)
    BY <1>7, <1>0 DEF BadgeLapses
  <2>2. desk' = desk
    BY <1>7 DEF BadgeLapses
  <2>3. /\ badge'[o] = NoEntry
        /\ \A a \in Login : a # o => badge'[a] = badge[a] /\ excused'[a] = excused[a]
    BY <1>7 DEF BadgeLapses, NoticesTypeOK
  <2> QED BY <2>1, <2>2, <2>3 DEF CountsTrue, BadgeStaleOnlyInRace
<1>8. ASSUME NEW o \in Login, NEW n \in Notice, ClearAlert(o, n)
      PROVE  CountsTrue' /\ BadgeStaleOnlyInRace'
  <2>1. \A a \in Login \ {o} : Count(a)' = Count(a)
    <3>1. notice[n].owner = o
      BY <1>8 DEF ClearAlert, UnreadIn
    <3> QED BY <1>8, <3>1, ReadOthers, CountKept DEF ClearAlert
  <2>2. ASSUME NEW g \in Handler
        PROVE  /\ desk'[g].at = desk[g].at /\ desk'[g].box = desk[g].box
               /\ desk'[g].count = desk[g].count
               /\ desk[g].at = "fill" /\ desk[g].box = o => desk'[g].late
               /\ ~(desk[g].at = "fill" /\ desk[g].box = o) => desk'[g] = desk[g]
    BY <1>8 DEF ClearAlert, NoticesTypeOK, Desk
  <2>3. CountsTrue'
    <3>1. ASSUME NEW g \in Handler, NEW a \in Login,
                 desk'[g].at = "fill", desk'[g].box = a, ~desk'[g].late
          PROVE  desk'[g].count = Count(a)'
      <4>1. a # o /\ desk'[g] = desk[g]
        BY <3>1, <2>2
      <4> QED BY <3>1, <4>1, <2>1 DEF CountsTrue
    <3> QED BY <3>1, <2>2 DEF CountsTrue
  <2>4. badge' = badge /\ (badge[o] # NoEntry => excused'[o])
    BY <1>8 DEF ClearAlert, NoticesTypeOK
  <2>5. \A a \in Login : a # o => excused'[a] = excused[a]
    BY <1>8 DEF ClearAlert, NoticesTypeOK
  <2>6. BadgeStaleOnlyInRace'
    BY <2>1, <2>2, <2>4, <2>5 DEF BadgeStaleOnlyInRace
  <2> QED BY <2>3, <2>6
<1>9. ASSUME UNCHANGED <<notice, badge, desk, excused>> PROVE CountsTrue' /\ BadgeStaleOnlyInRace'
  BY <1>9, <1>0 DEF CountsTrue, BadgeStaleOnlyInRace
<1> QED
  BY <1>1, <1>2, <1>3, <1>4, <1>5, <1>6, <1>7, <1>8, <1>9
  DEF NoticesNext, BadgeStep, UpdatePreferences, noticeVars

\* Whatever the number of logins, rows and requests, a badge read from the cache is the
\* number of unread rows, or its entry is being deleted, or one of the races that leave
\* it behind for its 30 seconds took place: no writer forgets the box it wrote to.
THEOREM BadgeTrue == NoticesSpec => [](NoticesTypeOK /\ BadgeStaleOnlyInRace)
<1>1. BadgeInv => NoticesTypeOK /\ BadgeStaleOnlyInRace
  BY DEF BadgeInv
<1> QED BY BadgeInit, BadgeInvStep, <1>1, PTL DEF NoticesSpec

(***************************************************************************)
(* Invoice numbers.                                                        *)
(***************************************************************************)

\* A bounded set of serial numbers that is not empty has a largest one.
LEMMA LargestSerial ==
  ASSUME NEW S \in SUBSET (0 .. MaxNumber), S # {}
  PROVE  \E s \in S : \A t \in S : t <= s
<1> DEFINE T == {MaxNumber - s : s \in S}
<1>0. \A s \in S : s \in 0 .. MaxNumber /\ MaxNumber - s \in Nat
  BY NumberingAssumption
<1>1. T \subseteq Nat /\ T # {}
  BY <1>0
<1>2. \E x \in T : \A y \in T : ~(<<y, x>> \in OpToRel(<, Nat))
  BY <1>1, NatLessThanWellFounded, WFMin
<1>3. PICK x \in T : \A y \in T : ~(y < x)
  BY <1>1, <1>2 DEF OpToRel
<1>4. PICK s \in S : x = MaxNumber - s
  BY <1>3
<1>5. ASSUME NEW t \in S PROVE t <= s
  <2>1. ~(MaxNumber - t < MaxNumber - s)
    BY <1>3, <1>4
  <2>2. s \in 0 .. MaxNumber /\ t \in 0 .. MaxNumber
    BY <1>0
  <2> HIDE DEF T
  <2> QED BY <2>1, <2>2, NumberingAssumption
<1> QED BY <1>5

\* What the steps make of a request is a request.
LEMMA ClerkUpdates ==
  ASSUME NEW x \in Clerks, NEW n \in Number
  PROVE  /\ LET r == [x EXCEPT !.at = "read", !.tries = 1]
            IN  r \in Clerks /\ r.at = "read" /\ r.tries = 1
         /\ LET r == [x EXCEPT !.at = "chosen", !.number = n, !.tries = 0]
            IN  r \in Clerks /\ r.at = "chosen" /\ r.number = n
         /\ Done(x) \in Clerks /\ Done(x).at = "idle"
         /\ x.tries < RetryLimit =>
              LET r == AfterConflict(x)
              IN  r \in Clerks /\ r.at = "read" /\ r.tries = x.tries + 1
<1>0. /\ RetryLimit \in Nat \ {0} /\ MaxNumber \in Nat \ {0} /\ n \in 0 .. MaxNumber + 1
      /\ x.tries \in 0 .. RetryLimit
  BY NumberingAssumption DEF Number, Clerks
<1>1. 0 \in 0 .. RetryLimit /\ 1 \in 0 .. RetryLimit /\ 0 \in 0 .. MaxNumber + 1
      /\ (x.tries < RetryLimit => x.tries + 1 \in 0 .. RetryLimit)
  BY <1>0
<1>2. LET r == [x EXCEPT !.at = "read", !.tries = 1]
      IN  r \in Clerks /\ r.at = "read" /\ r.tries = 1
  BY <1>1 DEF Clerks
<1>3. LET r == [x EXCEPT !.at = "chosen", !.number = n, !.tries = 0]
      IN  r \in Clerks /\ r.at = "chosen" /\ r.number = n
  BY <1>0, <1>1 DEF Clerks
<1>4. Done(x) \in Clerks /\ Done(x).at = "idle"
  BY <1>1 DEF Done, Clerks
<1>5. x.tries < RetryLimit =>
        LET r == AfterConflict(x)
        IN  r \in Clerks /\ r.at = "read" /\ r.tries = x.tries + 1
  BY <1>1 DEF AfterConflict, Clerks
<1> QED BY <1>2, <1>3, <1>4, <1>5

(***************************************************************************)
(* A request at its k-th try has seen an invoice of another request before *)
(* every earlier one, or a number chosen by hand; and if an automatic      *)
(* number has taken the one it holds, that is one invoice more.            *)
(***************************************************************************)
SerialIn(n) == \E i \in issued : i.number = n /\ i.serial # 0

Crowded(c) ==
  LET r == clerk[c] IN
  /\ r.at \in {"insert", "chosen"} => r.number \in Number
  /\ r.at \in {"read", "insert", "refused"} => c \in met \/ crowd[c] + 1 >= r.tries
  /\ r.at = "insert" => c \in met \/ (SerialIn(r.number) => crowd[c] >= r.tries)
  /\ r.at = "refused" => c \in met \/ crowd[c] >= RetryLimit

CrowdInv ==
  /\ NumberingTypeOK
  /\ \A i \in issued : i.serial # 0 => i.number = i.serial
  /\ \A c \in Clerk : Crowded(c)

\* Every serial number is up to the latest one, which is a number.
LEMMA LatestIsLargest ==
  ASSUME NumberingTypeOK
  PROVE  LatestSerial \in 0 .. MaxNumber /\ \A i \in issued : i.serial <= LatestSerial
<1> DEFINE serials == {i.serial : i \in issued} \cup {0}
<1>1. serials \in SUBSET (0 .. MaxNumber) /\ serials # {}
  BY NumberingAssumption DEF NumberingTypeOK, Issued
<1>2. \E s \in serials : \A t \in serials : t <= s
  BY <1>1, LargestSerial
<1>3. LatestSerial \in serials /\ \A t \in serials : t <= LatestSerial
  BY <1>2 DEF LatestSerial
<1> QED BY <1>1, <1>3

\* It holds at first.
LEMMA CrowdInit == NumberingInit => CrowdInv
<1> SUFFICES ASSUME NumberingInit PROVE CrowdInv
  OBVIOUS
<1>1. issued = {} /\ crowd = [c \in Clerk |-> 0] /\ met = {}
      /\ clerk \in [Clerk -> {c \in Clerks : c.at = "idle" /\ c.number = 0 /\ c.tries = 0}]
  BY DEF NumberingInit
<1>2. \A c \in Clerk : clerk[c] \in Clerks /\ clerk[c].at = "idle"
  BY <1>1
<1>3. clerk \in [Clerk -> Clerks]
  BY <1>1
<1>4. NumberingTypeOK
  BY <1>1, <1>3, NumberingAssumption DEF NumberingTypeOK
<1> QED BY <1>1, <1>2, <1>4 DEF CrowdInv, Crowded

\* A request that inserts an invoice counts for all the others.
LEMMA FiledStep ==
  ASSUME CrowdInv, NEW c \in Clerk, NEW n \in Number, NEW s \in {0, n}, File(c, n, s),
         Go(c, Done(clerk[c])), met' = met
  PROVE  CrowdInv'
<1> USE DEF CrowdInv, NumberingTypeOK
<1>0. RetryLimit \in Nat /\ MaxNumber \in Nat /\ n \in 1 .. MaxNumber
  BY NumberingAssumption DEF Number
<1>1. issued' = issued \cup {[number |-> n, serial |-> s, job |-> clerk[c].job]}
  BY DEF File
<1>2. [number |-> n, serial |-> s, job |-> clerk[c].job] \in Issued
  BY <1>0 DEF Issued, Number, Clerks
<1>3. \A i \in issued' : i.serial # 0 => i.number = i.serial
  BY <1>1
<1>4. Done(clerk[c]) \in Clerks /\ Done(clerk[c]).at = "idle"
  <2>1. clerk[c] \in Clerks
    OBVIOUS
  <2> QED BY <2>1, ClerkUpdates
<1>5. clerk' \in [Clerk -> Clerks] /\ clerk'[c].at = "idle"
      /\ \A d \in Clerk : d # c => clerk'[d] = clerk[d]
  BY <1>4 DEF Go
<1>6. \A d \in Clerk : d # c => crowd'[d] = IF crowd[d] < RetryLimit THEN crowd[d] + 1 ELSE crowd[d]
  BY DEF File
<1>7. crowd' \in [Clerk -> 0 .. RetryLimit]
  BY <1>0 DEF File
<1>8. ASSUME NEW d \in Clerk PROVE Crowded(d)'
  <2>1. CASE d = c
    BY <1>5, <2>1 DEF Crowded
  <2>2. CASE d # c
    <3>1. clerk'[d] = clerk[d] /\ clerk[d].tries \in 0 .. RetryLimit /\ crowd[d] \in 0 .. RetryLimit
      BY <1>5, <2>2 DEF Clerks
    <3>2. crowd'[d] >= crowd[d] /\ (crowd[d] + 1 >= clerk[d].tries => crowd'[d] >= clerk[d].tries)
      BY <1>0, <1>6, <2>2, <3>1
    <3>3. crowd'[d] \in 0 .. RetryLimit /\ Crowded(d)
      BY <1>7
    <3>4. /\ clerk[d].at \in {"insert", "chosen"} => clerk[d].number \in Number
          /\ clerk[d].at \in {"read", "insert", "refused"} => d \in met \/ crowd[d] + 1 >= clerk[d].tries
          /\ clerk[d].at = "refused" => d \in met \/ crowd[d] >= RetryLimit
      BY <3>3 DEF Crowded
    <3>5. clerk[d].at \in {"read", "insert", "refused"} => d \in met \/ crowd'[d] >= clerk[d].tries
      BY <3>2, <3>4
    <3>6. clerk[d].at = "refused" => d \in met \/ crowd'[d] >= RetryLimit
      BY <1>0, <3>1, <3>2, <3>3, <3>4
    <3>7. clerk[d].at \in {"read", "insert", "refused"} => d \in met \/ crowd'[d] + 1 >= clerk[d].tries
      BY <3>1, <3>3, <3>5
    <3> QED BY <3>1, <3>4, <3>5, <3>6, <3>7 DEF Crowded
  <2> QED BY <2>1, <2>2
<1>9. met' \subseteq Clerk /\ issued' \subseteq Issued
  BY <1>1, <1>2
<1> QED BY <1>3, <1>5, <1>7, <1>8, <1>9

\* A request that only moves on leaves the others where they are.
LEMMA MovedStep ==
  ASSUME CrowdInv, NEW c \in Clerk, NEW r \in Clerks, Go(c, r), issued' = issued,
         NEW n \in 0 .. RetryLimit, crowd' = [crowd EXCEPT ![c] = n],
         met' \subseteq Clerk, met' \ {c} = met \ {c},
         r.at \in {"insert", "chosen"} => r.number \in Number,
         r.at \in {"read", "insert", "refused"} => c \in met' \/ n + 1 >= r.tries,
         r.at = "insert" => c \in met' \/ (SerialIn(r.number) => n >= r.tries),
         r.at = "refused" => c \in met' \/ n >= RetryLimit
  PROVE  CrowdInv'
<1> USE DEF CrowdInv, NumberingTypeOK
<1>1. clerk' \in [Clerk -> Clerks] /\ clerk'[c] = r /\ \A d \in Clerk : d # c => clerk'[d] = clerk[d]
  BY DEF Go
<1>2. crowd' \in [Clerk -> 0 .. RetryLimit] /\ crowd'[c] = n
      /\ \A d \in Clerk : d # c => crowd'[d] = crowd[d]
  OBVIOUS
<1>3. ASSUME NEW d \in Clerk PROVE Crowded(d)'
  <2>1. CASE d = c
    BY <1>1, <1>2, <2>1 DEF Crowded, SerialIn
  <2>2. CASE d # c
    <3>1. clerk'[d] = clerk[d] /\ crowd'[d] = crowd[d] /\ (d \in met <=> d \in met')
      BY <1>1, <1>2, <2>2
    <3> QED BY <3>1 DEF Crowded, SerialIn
  <2> QED BY <2>1, <2>2
<1> QED BY <1>1, <1>2, <1>3

\* Every step keeps it.
LEMMA CrowdStep == CrowdInv /\ [NumberingNext]_numberVars => CrowdInv'
<1> SUFFICES ASSUME CrowdInv, [NumberingNext]_numberVars PROVE CrowdInv'
  OBVIOUS
<1>0. /\ RetryLimit \in Nat \ {0} /\ MaxNumber \in Nat \ {0}
      /\ NumberingTypeOK /\ clerk \in [Clerk -> Clerks] /\ crowd \in [Clerk -> 0 .. RetryLimit]
      /\ met \subseteq Clerk /\ issued \subseteq Issued
  BY NumberingAssumption DEF CrowdInv, NumberingTypeOK
<1>1. ASSUME NEW c \in Clerk, StartSerial(c) PROVE CrowdInv'
  <2> DEFINE r == [clerk[c] EXCEPT !.at = "read", !.tries = 1]
  <2>1. r \in Clerks /\ r.at = "read" /\ r.tries = 1
    <3>1. 1 \in Number /\ clerk[c] \in Clerks
      BY <1>0 DEF Number
    <3> QED BY <3>1, ClerkUpdates
  <2>2. Go(c, r) /\ issued' = issued /\ crowd' = [crowd EXCEPT ![c] = 0] /\ met' = met \ {c}
    BY <1>1 DEF StartSerial
  <2>3. 0 \in 0 .. RetryLimit /\ 0 + 1 >= r.tries
    BY <1>0, <2>1
  <2>4. met' \subseteq Clerk /\ met' \ {c} = met \ {c}
    BY <1>0, <2>2
  <2> HIDE DEF r
  <2> QED BY <2>1, <2>2, <2>3, <2>4, MovedStep
<1>2. ASSUME NEW c \in Clerk, ReadLatest(c) PROVE CrowdInv'
  <2> DEFINE r == [clerk[c] EXCEPT !.at = "insert", !.number = LatestSerial + 1]
  <2>1. LatestSerial \in 0 .. MaxNumber /\ \A i \in issued : i.serial <= LatestSerial
    BY <1>0, LatestIsLargest
  <2>2. LatestSerial + 1 \in Number /\ LatestSerial + 1 \in 0 .. MaxNumber + 1
    BY <1>0, <1>2, <2>1 DEF ReadLatest, Number
  <2>3. r \in Clerks /\ r.at = "insert" /\ r.number = LatestSerial + 1 /\ r.tries = clerk[c].tries
    BY <1>0, <2>2 DEF Clerks
  <2>4. ~SerialIn(LatestSerial + 1)
    <3> SUFFICES ASSUME NEW i \in issued, i.number = LatestSerial + 1, i.serial # 0 PROVE FALSE
      BY DEF SerialIn
    <3>1. i.serial = LatestSerial + 1 /\ i.serial <= LatestSerial
      BY <2>1 DEF CrowdInv
    <3> QED BY <2>1, <3>1
  <2>5. Go(c, r) /\ UNCHANGED <<issued, crowd, met>>
    BY <1>2 DEF ReadLatest
  <2>6. c \in met \/ crowd[c] + 1 >= clerk[c].tries
    BY <1>2 DEF ReadLatest, CrowdInv, Crowded
  <2>7. crowd' = [crowd EXCEPT ![c] = crowd[c]] /\ crowd[c] \in 0 .. RetryLimit
    BY <1>0, <2>5
  <2> HIDE DEF r
  <2> QED BY <1>0, <2>2, <2>3, <2>4, <2>5, <2>6, <2>7, MovedStep
<1>3. ASSUME NEW c \in Clerk, InsertSerial(c) PROVE CrowdInv'
  <2>1. clerk[c].at = "insert" /\ clerk[c].number \in Number /\ clerk[c] \in Clerks
    BY <1>0, <1>3 DEF InsertSerial, CrowdInv, Crowded
  <2>2. CASE ~Taken(clerk[c].number)
    BY <1>3, <2>1, <2>2, FiledStep DEF InsertSerial
  <2>3. CASE Taken(clerk[c].number)
    <3>1. issued' = issued /\ crowd' = [crowd EXCEPT ![c] = crowd[c]] /\ crowd[c] \in 0 .. RetryLimit
      BY <1>0, <1>3, <2>3 DEF InsertSerial
    <3>2. met' = IF ByHand(clerk[c].number) THEN met \cup {c} ELSE met
      BY <1>3, <2>3 DEF InsertSerial
    <3>3. c \in met' \/ crowd[c] >= clerk[c].tries
      <4>1. ByHand(clerk[c].number) \/ SerialIn(clerk[c].number)
        BY <2>3 DEF Taken, ByHand, SerialIn
      <4> QED BY <2>1, <3>2, <4>1 DEF CrowdInv, Crowded
    <3>4. met' \subseteq Clerk /\ met' \ {c} = met \ {c}
      BY <1>0, <3>2
    <3>5. CASE clerk[c].tries < RetryLimit
      <4> DEFINE r == AfterConflict(clerk[c])
      <4>1. r \in Clerks /\ r.at = "read" /\ r.tries = clerk[c].tries + 1
        BY <2>1, <3>5, ClerkUpdates
      <4>2. Go(c, r)
        BY <1>3, <2>3, <3>5 DEF InsertSerial
      <4>3. c \in met' \/ crowd[c] + 1 >= r.tries
        BY <1>0, <2>1, <3>1, <3>3, <4>1 DEF Clerks
      <4> HIDE DEF r
      <4> QED BY <3>1, <3>4, <4>1, <4>2, <4>3, MovedStep
    <3>6. CASE ~(clerk[c].tries < RetryLimit)
      <4> DEFINE r == [clerk[c] EXCEPT !.at = "refused"]
      <4>1. r \in Clerks /\ r.at = "refused" /\ r.tries = clerk[c].tries
        BY <2>1 DEF Clerks
      <4>2. Go(c, r)
        BY <1>3, <2>3, <3>6 DEF InsertSerial
      <4>3. clerk[c].tries = RetryLimit
        BY <1>0, <2>1, <3>6 DEF Clerks
      <4> HIDE DEF r
      <4>4. c \in met' \/ (crowd[c] + 1 >= r.tries /\ crowd[c] >= RetryLimit)
        BY <1>0, <3>1, <3>3, <4>1, <4>3
      <4> QED BY <3>1, <3>4, <4>1, <4>2, <4>4, MovedStep
    <3> QED BY <3>5, <3>6
  <2> QED BY <2>2, <2>3
<1>4. ASSUME NEW c \in Clerk, NEW n \in Number, Choose(c, n) PROVE CrowdInv'
  <2> DEFINE r == [clerk[c] EXCEPT !.at = "chosen", !.number = n, !.tries = 0]
  <2>1. r \in Clerks /\ r.at = "chosen" /\ r.number = n
    <3>1. clerk[c] \in Clerks
      BY <1>0
    <3> QED BY <3>1, ClerkUpdates
  <2>2. Go(c, r) /\ UNCHANGED <<issued, crowd, met>>
    BY <1>4 DEF Choose
  <2>3. crowd' = [crowd EXCEPT ![c] = crowd[c]] /\ crowd[c] \in 0 .. RetryLimit
    BY <1>0, <2>2
  <2> HIDE DEF r
  <2> QED BY <1>0, <2>1, <2>2, <2>3, MovedStep
<1>5. ASSUME NEW c \in Clerk, InsertChosen(c) PROVE CrowdInv'
  <2>1. clerk[c].number \in Number /\ clerk[c] \in Clerks
    BY <1>0, <1>5 DEF InsertChosen, CrowdInv, Crowded
  <2>2. CASE ~Taken(clerk[c].number)
    BY <1>5, <2>1, <2>2, FiledStep DEF InsertChosen
  <2>3. CASE Taken(clerk[c].number)
    <3>1. Done(clerk[c]) \in Clerks /\ Done(clerk[c]).at = "idle"
      BY <2>1, ClerkUpdates
    <3>2. Go(c, Done(clerk[c])) /\ UNCHANGED <<issued, crowd, met>>
      BY <1>5, <2>3 DEF InsertChosen
    <3>3. crowd' = [crowd EXCEPT ![c] = crowd[c]] /\ crowd[c] \in 0 .. RetryLimit
      BY <1>0, <3>2
    <3> QED BY <1>0, <3>1, <3>2, <3>3, MovedStep
  <2> QED BY <2>2, <2>3
<1>6. ASSUME NEW j \in Job, DeleteJob(j) PROVE CrowdInv'
  <2>1. issued' \subseteq issued /\ UNCHANGED <<clerk, crowd, met>>
    BY <1>6 DEF DeleteJob
  <2>2. \A c \in Clerk : Crowded(c)'
    BY <2>1 DEF CrowdInv, Crowded, SerialIn
  <2> QED BY <1>0, <2>1, <2>2 DEF CrowdInv, NumberingTypeOK
<1>7. CASE UNCHANGED numberVars
  BY <1>0, <1>7 DEF numberVars, CrowdInv, NumberingTypeOK, Crowded, SerialIn
<1> QED BY <1>1, <1>2, <1>3, <1>4, <1>5, <1>6, <1>7 DEF NumberingNext

\* However many requests number invoices at one time, none is refused an automatic number
\* unless others took one before each of its tries or a number chosen by hand is in the way.
THEOREM NumbersGiven == NumberingSpec => [](NumberingTypeOK /\ RefusedOnlyWhenCrowded)
<1>1. CrowdInv => NumberingTypeOK /\ RefusedOnlyWhenCrowded
  BY DEF CrowdInv, Crowded, RefusedOnlyWhenCrowded
<1> QED BY CrowdInit, CrowdStep, <1>1, PTL DEF NumberingSpec

(***************************************************************************)
(* The catalogue.                                                          *)
(***************************************************************************)

\* At the start nothing is listed.
LEMMA CatalogueTypeInit == CatalogueInit => CatalogueTypeOK
BY CatalogueAssumption DEF CatalogueInit, CatalogueTypeOK, NoRow, Row, Status

\* Every step of the owners and of the bookings writes well-typed values.
LEMMA CatalogueTypeStep ==
  CatalogueTypeOK /\ [CatalogueNext]_catalogueVars => CatalogueTypeOK'
<1> SUFFICES ASSUME CatalogueTypeOK, [CatalogueNext]_catalogueVars PROVE CatalogueTypeOK'
  OBVIOUS
<1> USE DEF CatalogueTypeOK
<1>n. \A n \in 1 .. MaxUnits : n \in 0 .. MaxUnits
  BY CatalogueAssumption
<1>z. 0 \in 0 .. MaxUnits /\ 1 \in 0 .. MaxUnits
  BY CatalogueAssumption
<1>1. ASSUME NEW u \in User, NEW x \in Item, ItemStep(u, x) PROVE CatalogueTypeOK'
  <2>1. ASSUME NEW n \in 1 .. MaxUnits, AddKit(u, x, n) \/ SetUnits(u, x, n)
        PROVE  CatalogueTypeOK'
    BY <2>1, <1>n DEF AddKit, SetUnits
  <2>2. CASE AddPlace(u, x)
    BY <2>2, <1>z DEF AddPlace
  <2>3. CASE Delisted(x)
    <3>1. \A b \in Booking : [bookings[b] EXCEPT !.item = None] \in Row
      BY DEF Row
    <3> QED BY <2>3, <3>1, <1>z DEF Delisted
  <2> QED BY <1>1, <2>1, <2>2, <2>3 DEF ItemStep, RemoveKit, RemovePlace
<1>2. ASSUME NEW u \in User, NEW x \in Item, WindowStep(u, x) PROVE CatalogueTypeOK'
  <2>1. PICK W \in SUBSET Windows : WindowsBecome(x, W)
    BY <1>2 DEF WindowStep, AddKitWindow, AddPlaceWindow, DropKitWindow, DropPlaceWindow,
                EditKitWindow, EditPlaceWindow, Moved
  <2> QED BY <2>1 DEF WindowsBecome
<1>3. ASSUME NEW x \in Item, NEW p \in Project, NEW D \in SUBSET Date, AskFor(x, p, D)
      PROVE  CatalogueTypeOK'
  <2>1. NewRow(p, Owner[p], ItemOwner[x], x, D) \in Row
    BY CatalogueAssumption DEF NewRow, NoRow, Row, Status
  <2> QED BY <1>3, <2>1 DEF AskFor
<1>4. ASSUME NEW b \in Booking, AcceptFor(b) \/ EndBooking(b) PROVE CatalogueTypeOK'
  <2>1. Accepted(bookings[b]) \in Row /\ NoRow \in Row
    BY DEF Accepted, NoRow, Row, Status
  <2> QED BY <1>4, <2>1 DEF AcceptFor, EndBooking
<1>5. CASE UNCHANGED catalogueVars
  BY <1>5 DEF catalogueVars
<1> QED BY <1>1, <1>2, <1>3, <1>4, <1>5 DEF CatalogueNext, HoldStep

\* No step but accepting adds a booking to those that hold a day of an item.
LEMMA NoneAdded ==
  ASSUME NEW x \in Item, NEW d, Users(bookings', x, d) \subseteq Users(bookings, x, d)
  PROVE  Cardinality(Users(bookings', x, d)) <= Cardinality(Users(bookings, x, d))
<1>1. Users(bookings, x, d) \subseteq Booking
  BY DEF Users
<1> QED BY <1>1, CatalogueAssumption, FS_Subset

\* Accepting adds one to fewer than there are units.
LEMMA AcceptFits ==
  ASSUME CatalogueTypeOK, NEW b \in Booking, AcceptFor(b), NEW x \in Item, NEW d \in Date
  PROVE  \/ Users(bookings', x, d) \subseteq Users(bookings, x, d)
         \/ Cardinality(Users(bookings', x, d)) <= Capacity(x)
<1>1. /\ bookings' = [bookings EXCEPT ![b] = Accepted(bookings[b])]
      /\ bookings[b] \in Row /\ bookings[b].status = "pending"
  BY DEF AcceptFor, CatalogueTypeOK
<1>2. /\ ResourceOf(bookings'[b]) = ResourceOf(bookings[b])
      /\ bookings'[b].dates = bookings[b].dates
      /\ \A c \in Booking : c # b => bookings'[c] = bookings[c]
  BY <1>1 DEF Accepted, ResourceOf, Row, CatalogueTypeOK
<1>3. CASE ResourceOf(bookings[b]) = x /\ d \in bookings[b].dates
  <2> DEFINE held == Users(bookings, x, d) \ {b}
  <2>1. ~(Cardinality(held) >= Capacity(x))
    BY <1>3, CatalogueAssumption DEF AcceptFor, CapacityReached
  <2>2. IsFiniteSet(held)
    BY CatalogueAssumption, FS_Subset DEF Users
  <2>3. Users(bookings', x, d) \subseteq held \cup {b}
    BY <1>2 DEF Users
  <2>4. IsFiniteSet(held \cup {b}) /\ Cardinality(held \cup {b}) = Cardinality(held) + 1
    BY <2>2, FS_AddElement
  <2>5. Cardinality(Users(bookings', x, d)) <= Cardinality(held) + 1
    BY <2>3, <2>4, FS_Subset
  <2>6. /\ Cardinality(held) \in Nat /\ Cardinality(Users(bookings', x, d)) \in Nat
        /\ Capacity(x) \in Nat
    BY <2>2, <2>3, <2>4, FS_Subset, FS_CardinalityType, CatalogueAssumption
       DEF Capacity, CatalogueTypeOK
  <2> QED BY <2>1, <2>5, <2>6
<1>4. CASE ~(ResourceOf(bookings[b]) = x /\ d \in bookings[b].dates)
  BY <1>2, <1>4 DEF Users
<1> QED BY <1>3, <1>4

\* However units are lowered under accepted bookings, and items deleted and listed again:
\* accept never adds to a day that is promised more often than there are units.
THEOREM AcceptNeverOverbooks == CatalogueSpec => OverbookedOnlyByLowering
<1>1. CatalogueTypeOK /\ [CatalogueNext]_catalogueVars =>
        \A x \in Item, d \in Date :
          Cardinality(Users(bookings, x, d)') > Capacity(x)' =>
            Cardinality(Users(bookings, x, d)') <= Cardinality(Users(bookings, x, d))
  <2> SUFFICES ASSUME CatalogueTypeOK, [CatalogueNext]_catalogueVars,
                      NEW x \in Item, NEW d \in Date,
                      Cardinality(Users(bookings', x, d)) > Capacity(x)'
               PROVE  Cardinality(Users(bookings', x, d)) <= Cardinality(Users(bookings, x, d))
    BY DEF Users
  <2>s. ASSUME bookings' = bookings
        PROVE  Users(bookings', x, d) \subseteq Users(bookings, x, d)
    BY <2>s
  <2>1. ASSUME NEW u \in User, NEW y \in Item, ItemStep(u, y)
        PROVE  Users(bookings', x, d) \subseteq Users(bookings, x, d)
    <3>1. CASE Delisted(y)
      <4>1. \A b \in Booking : bookings'[b] \in {bookings[b], [bookings[b] EXCEPT !.item = None]}
        BY <3>1 DEF Delisted
      <4> QED BY <4>1, CatalogueAssumption DEF Users, ResourceOf, Active, CatalogueTypeOK, Row
    <3>2. CASE bookings' = bookings
      BY <3>2
    <3> QED BY <2>1, <3>1, <3>2 DEF ItemStep, AddKit, SetUnits, AddPlace, RemoveKit, RemovePlace
  <2>2. ASSUME NEW u \in User, NEW y \in Item, WindowStep(u, y)
        PROVE  Users(bookings', x, d) \subseteq Users(bookings, x, d)
    BY <2>2, <2>s DEF WindowStep, AddKitWindow, AddPlaceWindow, DropKitWindow, DropPlaceWindow,
                      EditKitWindow, EditPlaceWindow, WindowsBecome
  <2>3. ASSUME NEW y \in Item, NEW p \in Project, NEW D \in SUBSET Date, AskFor(y, p, D)
        PROVE  Users(bookings', x, d) \subseteq Users(bookings, x, d)
    <3>1. PICK b \in Booking :
            bookings' = [bookings EXCEPT ![b] = NewRow(p, Owner[p], ItemOwner[y], y, D)]
      BY <2>3 DEF AskFor, Unused
    <3>2. ~Active(NewRow(p, Owner[p], ItemOwner[y], y, D))
      BY DEF Active, NewRow, NoRow
    <3> QED BY <3>1, <3>2 DEF Users, CatalogueTypeOK
  <2>4. ASSUME NEW b \in Booking, AcceptFor(b)
        PROVE  Users(bookings', x, d) \subseteq Users(bookings, x, d)
    <3>1. Capacity(x)' = Capacity(x)
      BY <2>4 DEF AcceptFor, Capacity
    <3>2. Cardinality(Users(bookings', x, d)) \in Nat /\ Capacity(x) \in Nat
      BY CatalogueAssumption, FS_Subset, FS_CardinalityType DEF Users, Capacity, CatalogueTypeOK
    <3> QED BY <2>4, <3>1, <3>2, AcceptFits
  <2>5. ASSUME NEW b \in Booking, EndBooking(b)
        PROVE  Users(bookings', x, d) \subseteq Users(bookings, x, d)
    BY <2>5 DEF EndBooking, Users, Active, NoRow, CatalogueTypeOK
  <2>6. CASE UNCHANGED catalogueVars
    BY <2>6, <2>s, NoneAdded DEF catalogueVars
  <2> QED BY <2>1, <2>2, <2>3, <2>4, <2>5, <2>6, NoneAdded DEF CatalogueNext, HoldStep
<1> QED BY <1>1, CatalogueTypeInit, CatalogueTypeStep, PTL
        DEF CatalogueSpec, OverbookedOnlyByLowering

(***************************************************************************)
(* The pages of a search.  A match is told by its rank, the number of      *)
(* matches before it: page p of a list that was filtered first holds the   *)
(* ranks from (p - 1) * limit on, limit of them.                           *)
(***************************************************************************)

Before(S, i, pos) == {j \in S : pos[j] < pos[i]}
Rank(S, i, pos)   == Cardinality(Before(S, i, pos))

\* Positions tell the members of a set apart.
Placed(S, pos) == \A i \in S : pos[i] \in Nat /\ \A j \in S : pos[i] = pos[j] => i = j

\* A set of numbers that is not empty has a least one.
LEMMA LeastOf ==
  ASSUME NEW T \in SUBSET Nat, T # {}
  PROVE  \E n \in T : \A m \in T : n <= m
<1> DEFINE R == OpToRel(<, Nat)
<1>1. IsWellFoundedOn(R, Nat)
  BY Zenon, NatLessThanWellFounded
<1>2. \E n \in T : \A m \in T : <<m, n>> \notin R
  <2> HIDE DEF R
  <2> QED BY <1>1, WFMin
<1>3. \A m, n \in Nat : m < n => <<m, n>> \in R
  BY DEF OpToRel
<1>4. PICK n \in T : \A m \in T : <<m, n>> \notin R
  BY Zenon, <1>2
<1>5. \A m \in T : ~(m < n)
  <2> HIDE DEF R
  <2> TAKE m \in T
  <2> QED BY <1>3, <1>4
<1>6. \A m \in T : m \in Nat /\ n \in Nat
  OBVIOUS
<1>7. \A m \in T : n <= m
  BY <1>5, <1>6
<1> QED BY <1>7

\* Ranks are numbers, less than there are elements, and grow with the elements.
LEMMA Ranks ==
  ASSUME NEW pos, NEW S, Placed(S, pos), IsFiniteSet(S)
  PROVE  /\ Cardinality(S) \in Nat
         /\ \A i \in S : Rank(S, i, pos) \in Nat /\ Rank(S, i, pos) < Cardinality(S)
         /\ \A i, j \in S : pos[i] < pos[j] <=> Rank(S, i, pos) < Rank(S, j, pos)
         /\ \A i, j \in S : Rank(S, i, pos) = Rank(S, j, pos) => i = j
<1>1. Cardinality(S) \in Nat
  BY FS_CardinalityType
<1>2. ASSUME NEW i \in S
      PROVE  /\ Rank(S, i, pos) \in Nat /\ Rank(S, i, pos) < Cardinality(S)
             /\ IsFiniteSet(Before(S, i, pos))
  <2>1. Before(S, i, pos) \subseteq S /\ i \notin Before(S, i, pos)
    BY DEF Before, Placed
  <2>2. /\ IsFiniteSet(Before(S, i, pos)) /\ Cardinality(Before(S, i, pos)) <= Cardinality(S)
        /\ Cardinality(Before(S, i, pos)) # Cardinality(S)
    BY <2>1, FS_Subset
  <2>3. Cardinality(Before(S, i, pos)) \in Nat
    BY <2>2, FS_CardinalityType
  <2> QED BY <1>1, <2>2, <2>3 DEF Rank
<1>3. ASSUME NEW i \in S, NEW j \in S, pos[i] < pos[j] PROVE Rank(S, i, pos) < Rank(S, j, pos)
  <2>1. /\ Before(S, i, pos) \subseteq Before(S, j, pos)
        /\ i \in Before(S, j, pos) /\ i \notin Before(S, i, pos)
    <3>1. \A x \in S : pos[x] \in Nat
      BY DEF Placed
    <3>2. ~(pos[i] < pos[i]) /\ \A x \in S : pos[x] < pos[i] => pos[x] < pos[j]
      BY <1>3, <3>1
    <3> QED BY <1>3, <3>2 DEF Before
  <2>2. /\ Cardinality(Before(S, i, pos)) <= Cardinality(Before(S, j, pos))
        /\ Cardinality(Before(S, i, pos)) # Cardinality(Before(S, j, pos))
    BY <1>2, <2>1, FS_Subset
  <2> QED BY <1>2, <2>2 DEF Rank
<1>4. \A i, j \in S : /\ pos[i] \in Nat /\ pos[j] \in Nat
                      /\ Rank(S, i, pos) \in Nat /\ Rank(S, j, pos) \in Nat
                      /\ pos[i] = pos[j] => i = j
  BY <1>2 DEF Placed
<1>5. \A i, j \in S : pos[i] < pos[j] <=> Rank(S, i, pos) < Rank(S, j, pos)
  BY <1>3, <1>4
<1>6. \A i, j \in S : Rank(S, i, pos) = Rank(S, j, pos) => i = j
  BY <1>3, <1>4
<1> QED BY <1>1, <1>2, <1>5, <1>6

\* slice(0, k) holds the ranks below k.
LEMMA FirstOfRanks ==
  \A S, k, pos : FirstOf(S, k, pos) = {i \in S : Rank(S, i, pos) < k}
BY DEF FirstOf, Rank, Before

\* What slice(0, k) holds one element more of than slice(0, k - 1), while there is one.
LEMMA NextOfRank ==
  ASSUME NEW pos, NEW S, Placed(S, pos), IsFiniteSet(S), NEW k \in Nat,
         Cardinality(FirstOf(S, k, pos)) = k, k < Cardinality(S)
  PROVE  \E m \in S : /\ m \notin FirstOf(S, k, pos)
                      /\ FirstOf(S, k + 1, pos) = FirstOf(S, k, pos) \cup {m}
<1> DEFINE F == FirstOf(S, k, pos)
<1>1. F \subseteq S /\ F # S
  BY FirstOfRanks
<1>2. PICK m \in S \ F : \A j \in S \ F : pos[m] <= pos[j]
  <2> DEFINE T == {pos[j] : j \in S \ F}
  <2>1. T \in SUBSET Nat /\ T # {}
    BY <1>1 DEF Placed
  <2>2. PICK n \in T : \A o \in T : n <= o
    <3> HIDE DEF T
    <3> QED BY <2>1, LeastOf
  <2> QED BY <2>2
<1>3. ~(Rank(S, m, pos) < k) /\ \A j \in F : Rank(S, j, pos) < k
  BY <1>2, FirstOfRanks
<1>4. ASSUME NEW j \in S PROVE pos[j] < pos[m] <=> j \in F
  <2>1. pos[j] \in Nat /\ pos[m] \in Nat
    BY <1>2 DEF Placed
  <2>2. CASE j \in F
    <3>1. Rank(S, j, pos) < k /\ Rank(S, j, pos) \in Nat /\ Rank(S, m, pos) \in Nat
      BY <1>3, <2>2, Ranks
    <3>2. Rank(S, j, pos) < Rank(S, m, pos)
      BY <1>3, <3>1
    <3> QED BY <2>2, <3>2, Ranks
  <2>3. CASE j \notin F
    <3>1. pos[m] <= pos[j]
      BY <1>2, <2>3
    <3> QED BY <2>1, <2>3, <3>1
  <2> QED BY <2>2, <2>3
<1>5. Before(S, m, pos) = F
  BY <1>1, <1>4 DEF Before
<1>6. Rank(S, m, pos) = k
  BY <1>5 DEF Rank
<1>7. \A i \in S : Rank(S, i, pos) \in Nat /\ (Rank(S, i, pos) = k => i = m)
  BY <1>6, Ranks
<1>8. FirstOf(S, k + 1, pos) = F \cup {m}
  <2>1. \A i \in S : Rank(S, i, pos) < k + 1 <=> Rank(S, i, pos) < k \/ i = m
    BY <1>6, <1>7
  <2> QED BY <2>1, FirstOfRanks
<1> QED BY <1>2, <1>8

\* slice(0, k) has k elements, or all there are.
LEMMA FirstOfSize ==
  ASSUME NEW pos, NEW S, Placed(S, pos), IsFiniteSet(S)
  PROVE  \A k \in Nat :
           /\ IsFiniteSet(FirstOf(S, k, pos))
           /\ Cardinality(FirstOf(S, k, pos)) = IF k <= Cardinality(S) THEN k ELSE Cardinality(S)
<1> DEFINE size(k) == Cardinality(FirstOf(S, k, pos))
           Right(k) == size(k) = IF k <= Cardinality(S) THEN k ELSE Cardinality(S)
           wrong == {k \in Nat : ~Right(k)}
<1>1. Cardinality(S) \in Nat
  BY FS_CardinalityType
<1>2. \A k : FirstOf(S, k, pos) \subseteq S
  BY FirstOfRanks
<1>3. \A k : IsFiniteSet(FirstOf(S, k, pos))
  BY <1>2, FS_Subset
<1>4. Right(0)
  <2>1. FirstOf(S, 0, pos) = {}
    <3>1. \A i \in S : Rank(S, i, pos) \in Nat /\ ~(Rank(S, i, pos) < 0)
      BY Ranks
    <3> QED BY <3>1, FirstOfRanks
  <2> QED BY <1>1, <2>1, FS_EmptySet
<1>5. ASSUME NEW k \in Nat, Right(k) PROVE Right(k + 1)
  <2>1. CASE k < Cardinality(S)
    <3>1. size(k) = k
      BY <1>1, <1>5, <2>1
    <3>2. PICK m \in S : /\ m \notin FirstOf(S, k, pos)
                         /\ FirstOf(S, k + 1, pos) = FirstOf(S, k, pos) \cup {m}
      BY <2>1, <3>1, NextOfRank
    <3>3. size(k + 1) = k + 1
      BY <1>3, <3>1, <3>2, FS_AddElement
    <3> QED BY <1>1, <2>1, <3>3
  <2>2. CASE ~(k < Cardinality(S))
    <3>1. size(k) = Cardinality(S)
      BY <1>1, <1>5, <2>2
    <3>2. FirstOf(S, k, pos) = S
      BY <1>2, <3>1, FS_Subset
    <3>3. FirstOf(S, k, pos) \subseteq FirstOf(S, k + 1, pos)
      <4>1. \A i \in S : Rank(S, i, pos) \in Nat
        BY Ranks
      <4>2. \A i \in S : Rank(S, i, pos) < k => Rank(S, i, pos) < k + 1
        BY <4>1
      <4> QED BY <4>2, FirstOfRanks
    <3>4. FirstOf(S, k + 1, pos) = S
      BY <1>2, <3>2, <3>3
    <3> QED BY <1>1, <2>2, <3>4
  <2> QED BY <2>1, <2>2
<1>6. wrong = {}
  <2> SUFFICES ASSUME wrong # {} PROVE FALSE
    OBVIOUS
  <2>1. PICK k \in wrong : \A j \in wrong : k <= j
    <3>1. wrong \in SUBSET Nat
      OBVIOUS
    <3> HIDE DEF wrong
    <3> QED BY <3>1, LeastOf
  <2>2. k \in Nat /\ ~Right(k) /\ \A j \in Nat : ~Right(j) => k <= j
    BY <2>1
  <2> HIDE DEF Right
  <2>3. k # 0 /\ k - 1 \in Nat /\ ~(k <= k - 1)
    BY <1>4, <2>2
  <2>4. Right(k - 1)
    BY <2>2, <2>3
  <2>5. (k - 1) + 1 = k
    BY <2>2
  <2> QED BY <1>5, <2>2, <2>3, <2>4, <2>5
<1> QED BY <1>3, <1>6

\* slice(s, s + k) holds the ranks from s on, k of them.
LEMMA SliceRanks ==
  ASSUME NEW pos, NEW S, Placed(S, pos), IsFiniteSet(S), NEW s \in Nat, NEW k \in Nat
  PROVE  Slice(S, s, k, pos) = {i \in S : s <= Rank(S, i, pos) /\ Rank(S, i, pos) < s + k}
<1> DEFINE F == FirstOf(S, s, pos)
           A == S \ F
<1>1. /\ F = {i \in S : Rank(S, i, pos) < s}
      /\ \A i \in S : Rank(S, i, pos) \in Nat /\ Rank(S, i, pos) < Cardinality(S)
      /\ Cardinality(S) \in Nat
  BY FirstOfRanks, Ranks
<1>2. ASSUME NEW i \in A PROVE s <= Rank(S, i, pos) /\ Rank(A, i, pos) = Rank(S, i, pos) - s
  <2>1. i \in S /\ s <= Rank(S, i, pos) /\ s <= Cardinality(S)
    BY <1>1
  <2>2. Cardinality(F) = s
    BY <2>1, FirstOfSize
  <2>3. F \subseteq Before(S, i, pos)
    <3> SUFFICES ASSUME NEW j \in F PROVE pos[j] < pos[i]
      BY DEF Before, FirstOf
    <3>1. j \in S /\ Rank(S, j, pos) < s /\ Rank(S, j, pos) \in Nat /\ Rank(S, i, pos) \in Nat
      BY <1>1, <2>1
    <3>2. Rank(S, j, pos) < Rank(S, i, pos)
      BY <2>1, <3>1
    <3> QED BY <2>1, <3>1, <3>2, Ranks
  <2>4. Before(A, i, pos) = Before(S, i, pos) \ F /\ Before(S, i, pos) \cap F = F
    BY <2>3 DEF Before
  <2>5. IsFiniteSet(Before(S, i, pos))
    BY FS_Subset DEF Before
  <2>6. Cardinality(Before(S, i, pos) \ F)
          = Cardinality(Before(S, i, pos)) - Cardinality(Before(S, i, pos) \cap F)
    BY <2>5, FS_Difference
  <2> QED BY <2>1, <2>2, <2>4, <2>6 DEF Rank
<1>3. \A i \in A : Rank(A, i, pos) < k <=> Rank(S, i, pos) < s + k
  BY <1>1, <1>2
<1>4. Slice(S, s, k, pos) = {i \in A : Rank(A, i, pos) < k}
  BY FirstOfRanks DEF Slice
<1>5. A = {i \in S : s <= Rank(S, i, pos)}
  <2>1. \A i \in S : s <= Rank(S, i, pos) <=> ~(Rank(S, i, pos) < s)
    BY <1>1
  <2> QED BY <1>1, <2>1
<1> HIDE DEF A
<1> QED BY <1>3, <1>4, <1>5

\* One element beyond a page is fetched exactly if there is one.
LEMMA SliceShowsMore ==
  ASSUME NEW pos, NEW S, Placed(S, pos), IsFiniteSet(S),
         NEW s \in Nat, NEW k \in Nat, NEW n \in Nat,
         k < n
  PROVE  Cardinality(Slice(S, s, n, pos)) > k <=> s + k < Cardinality(S)
<1> DEFINE F == FirstOf(S, s, pos)
           A == S \ F
<1>1. /\ F \subseteq S /\ IsFiniteSet(F) /\ Cardinality(S) \in Nat
      /\ Cardinality(F) = IF s <= Cardinality(S) THEN s ELSE Cardinality(S)
  BY FirstOfRanks, FirstOfSize, FS_CardinalityType
<1>2. IsFiniteSet(A) /\ Cardinality(A) = Cardinality(S) - Cardinality(S \cap F)
  BY FS_Difference
<1>3. S \cap F = F
  BY <1>1
<1>4. Placed(A, pos)
  BY DEF Placed
<1>5. Cardinality(FirstOf(A, n, pos)) = IF n <= Cardinality(A) THEN n ELSE Cardinality(A)
  <2> HIDE DEF A
  <2> QED BY <1>2, <1>4, FirstOfSize
<1>6. Cardinality(A) = IF s <= Cardinality(S) THEN Cardinality(S) - s ELSE 0
  BY <1>1, <1>2, <1>3
<1>7. Slice(S, s, n, pos) = FirstOf(A, n, pos)
  BY DEF Slice
<1> HIDE DEF A, F
<1> QED BY <1>1, <1>5, <1>6, <1>7

\* Cutting the page out of what was fetched for it.
LEMMA FirstOfSlice ==
  ASSUME NEW pos, NEW S, Placed(S, pos), IsFiniteSet(S),
         NEW s \in Nat, NEW k \in Nat, NEW n \in Nat,
         k <= n
  PROVE  FirstOf(Slice(S, s, n, pos), k, pos) = Slice(S, s, k, pos)
<1> DEFINE A == S \ FirstOf(S, s, pos)
           B == FirstOf(A, n, pos)
<1>1. Placed(A, pos) /\ IsFiniteSet(A)
  BY FS_Subset DEF Placed
<1> HIDE DEF A
<1>2. B = {i \in A : Rank(A, i, pos) < n} /\ \A i \in A : Rank(A, i, pos) \in Nat
  BY <1>1, FirstOfRanks, Ranks
<1>3. ASSUME NEW i \in B PROVE Rank(B, i, pos) = Rank(A, i, pos)
  <2>1. i \in A /\ Rank(A, i, pos) < n
    BY <1>2
  <2>2. ASSUME NEW j \in A, pos[j] < pos[i] PROVE j \in B
    <3>1. Rank(A, j, pos) < Rank(A, i, pos)
      BY <1>1, <2>1, <2>2, Ranks
    <3>2. Rank(A, j, pos) < n
      BY <1>2, <2>1, <3>1
    <3> QED BY <1>2, <3>2
  <2>3. B \subseteq A
    BY <1>2
  <2>4. Before(B, i, pos) = Before(A, i, pos)
    <3> HIDE DEF B
    <3> QED BY <2>2, <2>3 DEF Before
  <2> QED BY <2>4 DEF Rank
<1>4. FirstOf(B, k, pos) = {i \in B : Rank(A, i, pos) < k}
  <2> HIDE DEF B
  <2> QED BY <1>3, FirstOfRanks
<1>5. \A i \in A : Rank(A, i, pos) < k => Rank(A, i, pos) < n
  BY <1>2
<1>6. FirstOf(A, k, pos) = {i \in A : Rank(A, i, pos) < k}
  BY FirstOfRanks
<1>7. FirstOf(B, k, pos) = FirstOf(A, k, pos)
  BY <1>2, <1>4, <1>5, <1>6
<1> QED BY <1>7 DEF A, Slice

Queries == [search : Search, size : 0 .. MaxProfiles, tied : SUBSET Nat, matches : SUBSET Nat,
            limit : PageSizes, bySkill : BOOLEAN, dated : BOOLEAN]

\* A query and its matches, finitely many.
Asked == query \in Queries /\ query.matches \subseteq Profiles

\* The size of a page is a positive number, the matches are finitely many numbers.
LEMMA AskedIsFinite ==
  ASSUME Asked
  PROVE  /\ query.limit \in Nat /\ query.limit > 0
         /\ query.matches \in SUBSET Nat /\ IsFiniteSet(query.matches)
         /\ \A pos \in Positions : Placed(query.matches, pos)
<1>1. query.size \in 0 .. MaxProfiles /\ query.matches \in SUBSET Nat /\ query.limit \in Nat \ {0}
  BY PagesAssumption DEF Asked, Queries
<1>2. IsFiniteSet(1 .. query.size)
  BY <1>1, FS_Interval
<1>3. ASSUME NEW pos \in Positions PROVE Placed(query.matches, pos)
  <2>1. query.matches \subseteq 1 .. MaxProfiles /\ MaxProfiles \in Nat
    BY <1>1, PagesAssumption DEF Asked, Profiles
  <2>2. \A i, j \in 1 .. MaxProfiles : pos[i] \in 1 .. MaxProfiles /\ (pos[i] = pos[j] => i = j)
    BY DEF Positions
  <2> QED BY <2>1, <2>2 DEF Placed
<1> QED BY <1>1, <1>2, <1>3, FS_Subset DEF Asked, Profiles

\* The rank of a match lies where the column puts it and its equals.
LEMMA RankOfTies ==
  ASSUME Asked, NEW pos \in Positions, Sorted(pos), NEW i \in query.matches
  PROVE  /\ Above(i) \in Nat /\ UpTo(i) \in Nat /\ Rank(query.matches, i, pos) \in Nat
         /\ Above(i) <= Rank(query.matches, i, pos)
         /\ Rank(query.matches, i, pos) < UpTo(i)
<1> DEFINE S == query.matches
           A == {j \in S : Ahead(j, i)}
           B == Before(S, i, pos)
           U == {j \in S : ~Ahead(i, j)}
<1>1. IsFiniteSet(S) /\ S \subseteq Profiles /\ S \in SUBSET Nat /\ Placed(S, pos)
  BY AskedIsFinite DEF Asked
<1>2. A \subseteq B
  BY <1>1 DEF Before, Sorted
<1>3. B \subseteq U
  <2> SUFFICES ASSUME NEW j \in B, Ahead(i, j) PROVE FALSE
    BY DEF Before
  <2>1. pos[i] < pos[j] /\ pos[j] < pos[i] /\ pos[i] \in Nat /\ pos[j] \in Nat
    BY <1>1 DEF Before, Sorted, Placed
  <2> QED BY <2>1
<1>4. i \in U /\ i \notin B
  BY <1>1 DEF Ahead, Before, Placed
<1>5. IsFiniteSet(A) /\ IsFiniteSet(B) /\ IsFiniteSet(U)
  BY <1>1, FS_Subset DEF Before
<1>6. Cardinality(A) \in Nat /\ Cardinality(B) \in Nat /\ Cardinality(U) \in Nat
  BY <1>5, FS_CardinalityType
<1> HIDE DEF A, B, U
<1>7. Cardinality(A) <= Cardinality(B)
  BY <1>2, <1>5, FS_Subset
<1>8. Cardinality(B) <= Cardinality(U) /\ Cardinality(B) # Cardinality(U)
  BY <1>3, <1>4, <1>5, FS_Subset
<1> QED BY <1>6, <1>7, <1>8 DEF A, B, U, Above, UpTo, Rank

\* Something comes after what is above a match: the match.
LEMMA AboveIsLess ==
  ASSUME Asked, NEW i \in query.matches
  PROVE  Above(i) \in Nat /\ Above(i) < Cardinality(query.matches)
<1> DEFINE A == {j \in query.matches : Ahead(j, i)}
<1>1. IsFiniteSet(query.matches) /\ A \subseteq query.matches /\ i \notin A
  BY AskedIsFinite DEF Ahead
<1>2. IsFiniteSet(A) /\ Cardinality(A) <= Cardinality(query.matches)
      /\ Cardinality(A) # Cardinality(query.matches)
  BY <1>1, FS_Subset
<1>3. Cardinality(A) \in Nat /\ Cardinality(query.matches) \in Nat
  BY <1>1, <1>2, FS_CardinalityType
<1> QED BY <1>2, <1>3 DEF Above

\* The directory cuts nothing off if no role has more than three pages.
LEMMA MergedIsAll ==
  ASSUME Asked, query.search \in {"role", "people"}, PagedAfterFiltering,
         NEW pos \in Positions
  PROVE  Merged(pos) = query.matches
<1>1. query.limit \in Nat /\ query.matches \in SUBSET Nat /\ IsFiniteSet(query.matches)
      /\ Placed(query.matches, pos)
  BY AskedIsFinite
<1>2. ASSUME NEW r \in {0, 1} PROVE FirstOf(Bucket(r), query.limit * 3, pos) = Bucket(r)
  <2>1. Bucket(r) \subseteq query.matches
    BY DEF Bucket
  <2>2. Placed(Bucket(r), pos) /\ IsFiniteSet(Bucket(r))
    BY <1>1, <2>1, FS_Subset DEF Placed
  <2>3. Cardinality(Bucket(r)) <= query.limit * 3
    BY DEF PagedAfterFiltering
  <2>4. \A i \in Bucket(r) : Rank(Bucket(r), i, pos) < query.limit * 3
    BY <1>1, <2>2, <2>3, Ranks
  <2> QED BY <2>4, FirstOfRanks
<1>3. query.matches = Bucket(0) \cup Bucket(1)
  BY <1>1 DEF Bucket
<1>4. Merged(pos) = Bucket(0) \cup Bucket(1)
  BY <1>2 DEF Merged
<1> QED BY <1>3, <1>4

\* The crew search fetches more than a page of the matches from the page's start on.
LEMMA CrewFetchesMore ==
  ASSUME Asked, query.search = "crew", PagedAfterFiltering, NEW p, NEW pos
  PROVE  \E n \in Nat :
           query.limit < n /\ CrewPaged(p, pos) = Slice(query.matches, Skip(p), n, pos)
<1>1. query.limit \in Nat /\ query.limit > 0 /\ query.matches \subseteq Profiles
  BY AskedIsFinite DEF Asked
<1>2. CASE query.bySkill
  <2>1. CrewFetched(p, pos) \cap query.matches = query.matches
    BY <1>1, <1>2 DEF CrewFetched
  <2>2. CrewPaged(p, pos) = Slice(query.matches, Skip(p), query.limit + 1, pos)
    BY <1>2, <2>1 DEF CrewPaged
  <2> QED BY <1>1, <2>2
<1>3. CASE ~query.bySkill
  <2> DEFINE n == IF query.dated THEN query.limit * 3 ELSE query.limit + 1
  <2>1. query.matches = Profiles
    BY <1>3 DEF PagedAfterFiltering
  <2>2. CrewPaged(p, pos) = Slice(query.matches, Skip(p), n, pos) \cap query.matches
    BY <1>3, <2>1 DEF CrewPaged, CrewFetched
  <2>3. Slice(query.matches, Skip(p), n, pos) \subseteq query.matches
    BY DEF Slice, FirstOf
  <2>4. n \in Nat /\ query.limit < n
    BY <1>1
  <2> QED BY <2>2, <2>3, <2>4
<1> QED BY <1>2, <1>3

\* A page of a list that was filtered first holds the ranks of its turn, and says whether
\* there are more.
LEMMA PageAnswer ==
  ASSUME Asked, PagedAfterFiltering, NEW pos \in Positions, NEW p, Skip(p) \in Nat,
         p * query.limit = Skip(p) + query.limit
  PROVE  LET S == query.matches
             a == Answer(p, pos) IN
         /\ a.items = {i \in S : /\ Skip(p) <= Rank(S, i, pos)
                                 /\ Rank(S, i, pos) < Skip(p) + query.limit}
         /\ a.more <=> Skip(p) + query.limit < Cardinality(S)
<1> DEFINE S == query.matches
<1>1. query.limit \in Nat /\ Placed(S, pos) /\ IsFiniteSet(S)
  BY AskedIsFinite
<1>2. Slice(S, Skip(p), query.limit, pos) =
        {i \in S : Skip(p) <= Rank(S, i, pos) /\ Rank(S, i, pos) < Skip(p) + query.limit}
  BY <1>1, SliceRanks
<1>3. CASE query.search = "crew"
  <2>1. PICK n \in Nat : query.limit < n /\ CrewPaged(p, pos) = Slice(S, Skip(p), n, pos)
    BY <1>3, CrewFetchesMore
  <2>2. FirstOf(CrewPaged(p, pos), query.limit, pos) = Slice(S, Skip(p), query.limit, pos)
    BY <1>1, <2>1, FirstOfSlice
  <2>3. Cardinality(CrewPaged(p, pos)) > query.limit <=> Skip(p) + query.limit < Cardinality(S)
    BY <1>1, <2>1, SliceShowsMore
  <2>4. Answer(p, pos) = CrewAnswer(p, pos)
    BY <1>3 DEF Answer
  <2>5. Answer(p, pos).items = FirstOf(CrewPaged(p, pos), query.limit, pos)
    BY <2>4 DEF CrewAnswer
  <2>6. Answer(p, pos).more <=> Cardinality(CrewPaged(p, pos)) > query.limit
    <3> DEFINE more == Cardinality(CrewPaged(p, pos)) > query.limit
               items == FirstOf(CrewPaged(p, pos), query.limit, pos)
    <3>1. Answer(p, pos) = [items |-> items, more |-> more]
      BY <2>4 DEF CrewAnswer
    <3> HIDE DEF more, items
    <3>2. Answer(p, pos).more <=> more
      BY <3>1
    <3> QED BY <3>2 DEF more
  <2> QED BY <1>2, <2>2, <2>3, <2>5, <2>6
<1>4. CASE query.search # "crew"
  <2>1. Answer(p, pos) = PageOf(S, p, pos)
    BY <1>4, MergedIsAll DEF Answer
  <2>2. Answer(p, pos).items = Slice(S, Skip(p), query.limit, pos)
    BY <2>1 DEF PageOf
  <2>3. Answer(p, pos).more <=> p * query.limit < Cardinality(S)
    <3> DEFINE more == p * query.limit < Cardinality(S)
               items == Slice(S, Skip(p), query.limit, pos)
    <3>1. Answer(p, pos) = [items |-> items, more |-> more]
      BY <2>1 DEF PageOf
    <3> HIDE DEF more, items
    <3>2. Answer(p, pos).more <=> more
      BY <3>1
    <3> QED BY <3>2 DEF more
  <2> QED BY <1>2, <2>2, <2>3
<1> QED BY <1>3, <1>4

\* More pages hold more.
LEMMA PagesGrow ==
  ASSUME NEW limit \in Nat, NEW p \in Nat, NEW q \in Nat, p <= q
  PROVE  p * limit <= q * limit
OBVIOUS

\* After so many pages: only matches were shown, each at most once on each page that its
\* equals reach, and exactly once if one of the pages held them all.
Shown(i, n) ==
  /\ i \notin query.matches => times[i] = 0
  /\ i \in query.matches =>
       /\ times[i] <= Cardinality({p \in 1 .. n : Reaches(i, p)})
       /\ \A p \in Nat \ {0} : Holds(i, p) => times[i] = IF p <= n THEN 1 ELSE 0

\* If no further page is announced, the pages hold all matches.
PagesInv ==
  /\ Asked
  /\ page \in Nat
  /\ times \in [Profiles -> Nat]
  /\ PagedAfterFiltering =>
       /\ \A i \in Profiles : Shown(i, page)
       /\ over => Cardinality(query.matches) <= page * query.limit

\* Before the first page nothing was shown.
LEMMA PagesInvInit == PagesInit => PagesInv
<1> SUFFICES ASSUME PagesInit PROVE PagesInv
  OBVIOUS
<1>1. Asked
  <2>1. PICK n \in 0 .. MaxProfiles :
          query \in [search : Search, size : {n}, tied : SUBSET (2 .. n),
                     matches : SUBSET (1 .. n), limit : PageSizes,
                     bySkill : BOOLEAN, dated : BOOLEAN]
    BY DEF PagesInit
  <2>2. 1 .. n \subseteq Nat /\ 2 .. n \subseteq Nat
    BY PagesAssumption
  <2> QED BY <2>1, <2>2 DEF Asked, Queries, Profiles
<1>2. page = 0 /\ times = [i \in Profiles |-> 0] /\ ~over
  BY DEF PagesInit
<1>3. ASSUME NEW i \in Profiles PROVE Shown(i, 0)
  <2>1. {p \in 1 .. 0 : Reaches(i, p)} = {}
    OBVIOUS
  <2>2. Cardinality({p \in 1 .. 0 : Reaches(i, p)}) = 0
    BY <2>1, FS_EmptySet
  <2> QED BY <1>2, <2>2 DEF Shown
<1> QED BY <1>1, <1>2, <1>3 DEF PagesInv

\* One page more shows a match that holds the turn's rank, and leaves the others alone.
LEMMA ShownStep ==
  ASSUME Asked, NEW n \in Nat, NEW pos \in Positions, Sorted(pos), NEW i \in query.matches,
         times[i] \in Nat, Shown(i, n)
  PROVE  LET rank == Rank(query.matches, i, pos)
             due == Skip(n + 1) <= rank /\ rank < (n + 1) * query.limit
             now == times[i] + (IF due THEN 1 ELSE 0) IN
         /\ now <= Cardinality({p \in 1 .. n + 1 : Reaches(i, p)})
         /\ \A p \in Nat \ {0} : Holds(i, p) => now = IF p <= n + 1 THEN 1 ELSE 0
<1> DEFINE limit == query.limit
           rank == Rank(query.matches, i, pos)
           due == Skip(n + 1) <= rank /\ rank < (n + 1) * limit
           now == times[i] + (IF due THEN 1 ELSE 0)
           old == {p \in 1 .. n : Reaches(i, p)}
           new == {p \in 1 .. n + 1 : Reaches(i, p)}
<1>1. /\ limit \in Nat /\ limit > 0
      /\ Above(i) \in Nat /\ UpTo(i) \in Nat /\ rank \in Nat
      /\ Above(i) <= rank /\ rank < UpTo(i)
  BY AskedIsFinite, RankOfTies
<1>2. ASSUME NEW p \in Nat \ {0}
      PROVE  /\ Skip(p) \in Nat /\ p * limit \in Nat /\ p * limit = Skip(p) + limit
             /\ \A q \in Nat : p < q => p * limit <= Skip(q)
  <2>1. p - 1 \in Nat /\ p = (p - 1) + 1
    OBVIOUS
  <2>2. p * limit = (p - 1) * limit + limit /\ (p - 1) * limit \in Nat /\ p * limit \in Nat
    BY <1>1, <2>1
  <2>3. ASSUME NEW q \in Nat, p < q PROVE p * limit <= (q - 1) * limit
    <3>1. q - 1 \in Nat /\ p <= q - 1
      BY <2>3
    <3> QED BY <1>1, <3>1, PagesGrow
  <2> QED BY <2>2, <2>3 DEF Skip
<1>3. n + 1 \in Nat \ {0}
  OBVIOUS
<1>4. now <= Cardinality(new)
  <2>1. IsFiniteSet(old) /\ Cardinality(old) \in Nat
    <3>1. IsFiniteSet(1 .. n) /\ old \subseteq 1 .. n
      BY FS_Interval
    <3>2. IsFiniteSet(old)
      BY <3>1, FS_Subset
    <3> QED BY <3>2, FS_CardinalityType
  <2>2. times[i] <= Cardinality(old)
    BY DEF Shown
  <2>3. CASE Reaches(i, n + 1)
    <3>1. new = old \cup {n + 1} /\ n + 1 \notin old
      BY <2>3
    <3>2. Cardinality(new) = Cardinality(old) + 1
      <4> HIDE DEF old, new
      <4> QED BY <2>1, <3>1, FS_AddElement
    <3> QED BY <2>1, <2>2, <3>2
  <2>4. CASE ~Reaches(i, n + 1)
    <3>1. new = old
      BY <2>4
    <3>2. ~due
      BY <1>1, <1>2, <1>3, <2>4 DEF Reaches
    <3>3. now = times[i] /\ Cardinality(new) = Cardinality(old)
      BY <3>1, <3>2
    <3> QED BY <2>2, <3>3
  <2> QED BY <2>3, <2>4
<1>5. ASSUME NEW p \in Nat \ {0}, Holds(i, p)
      PROVE  now = IF p <= n + 1 THEN 1 ELSE 0
  <2>1. /\ times[i] = IF p <= n THEN 1 ELSE 0
        /\ Skip(p) <= Above(i) /\ UpTo(i) <= p * limit
    BY <1>5 DEF Shown, Holds
  <2>2. CASE p = n + 1
    <3>1. Skip(n + 1) <= Above(i) /\ UpTo(i) <= (n + 1) * limit
      BY <2>1, <2>2
    <3>2. Skip(n + 1) \in Nat /\ (n + 1) * limit \in Nat
      BY <1>2, <1>3
    <3>3. due
      BY <1>1, <3>1, <3>2
    <3> QED BY <2>1, <2>2, <3>3
  <2>3. CASE p < n + 1
    <3>1. p * limit <= Skip(n + 1) /\ Skip(n + 1) \in Nat /\ p * limit \in Nat
      BY <1>2, <1>3, <2>3
    <3>2. ~due
      BY <1>1, <2>1, <3>1
    <3> QED BY <2>1, <2>3, <3>2
  <2>4. CASE n + 1 < p
    <3>1. (n + 1) * limit <= Skip(p) /\ (n + 1) * limit \in Nat /\ Skip(p) \in Nat
      BY <1>2, <1>3, <2>4
    <3>2. ~due
      BY <1>1, <2>1, <3>1
    <3> QED BY <2>1, <2>4, <3>2
  <2> QED BY <2>2, <2>3, <2>4
<1> QED BY <1>4, <1>5

\* A page more shows its turn of ranks.
LEMMA PagesInvStep == PagesInv /\ [AskPage]_pagesVars => PagesInv'
<1> SUFFICES ASSUME PagesInv, [AskPage]_pagesVars PROVE PagesInv'
  OBVIOUS
<1>1. CASE UNCHANGED pagesVars
  <2>1. query' = query /\ page' = page /\ times' = times /\ over' = over
    BY <1>1 DEF pagesVars
  <2>2. Asked' = Asked /\ PagedAfterFiltering' = PagedAfterFiltering
    BY <2>1 DEF Asked, Profiles, PagedAfterFiltering, Bucket
  <2>3. \A i, n : Shown(i, n)' = Shown(i, n)
    BY <2>1 DEF Shown, Reaches, Holds, Above, UpTo, Ahead, Skip
  <2> QED BY <2>1, <2>2, <2>3 DEF PagesInv, Profiles
<1>2. CASE AskPage
  <2> DEFINE S == query.matches
             next == (page + 1) * query.limit
  <2>1. /\ query' = query /\ page' = page + 1 /\ page \in Nat /\ Asked
        /\ query.limit \in Nat /\ S \in SUBSET Nat /\ IsFiniteSet(S) /\ S \subseteq Profiles
        /\ times \in [Profiles -> Nat]
    BY <1>2, AskedIsFinite DEF AskPage, PagesInv, Asked
  <2>2. Asked' /\ (PagedAfterFiltering' <=> PagedAfterFiltering) /\ Profiles' = Profiles
    BY <2>1 DEF Asked, Profiles, PagedAfterFiltering, Bucket
  <2>3. Skip(page + 1) \in Nat /\ next = Skip(page + 1) + query.limit /\ next \in Nat
    <3>1. (page + 1) - 1 = page /\ page * query.limit \in Nat
      BY <2>1
    <3>2. next = page * query.limit + query.limit
      BY <2>1
    <3> QED BY <2>1, <3>1, <3>2 DEF Skip
  <2>4. PICK pos \in Positions :
          /\ Sorted(pos)
          /\ times' = [i \in Profiles |->
                         times[i] + (IF i \in Answer(page + 1, pos).items THEN 1 ELSE 0)]
          /\ over' = ~Answer(page + 1, pos).more
    BY Zenon, <1>2 DEF AskPage
  <2>5. times' \in [Profiles -> Nat]
    BY <2>1, <2>4
  <2>n. PICK n \in Nat : n = page + 1
    BY <2>1
  <2>6. ASSUME PagedAfterFiltering
        PROVE  /\ \A i \in Profiles : Shown(i, n)'
               /\ over' => Cardinality(S) <= next
    <3>1. /\ Answer(page + 1, pos).items =
               {i \in S : Skip(page + 1) <= Rank(S, i, pos) /\ Rank(S, i, pos) < next}
          /\ Answer(page + 1, pos).more <=> next < Cardinality(S)
      BY <2>1, <2>3, <2>6, PageAnswer
    <3>2. ASSUME NEW i \in Profiles PROVE Shown(i, n)'
      <4>1. Shown(i, page)
        BY <2>6 DEF PagesInv
      <4>2. times'[i] = times[i] + (IF i \in Answer(page + 1, pos).items THEN 1 ELSE 0)
        BY <2>4
      <4>3. CASE i \notin S
        <5>1. times'[i] = 0
          BY <2>1, <3>1, <4>1, <4>2, <4>3 DEF Shown
        <5> QED BY <2>1, <4>3, <5>1 DEF Shown
      <4>4. CASE i \in S
        <5> DEFINE due == /\ Skip(page + 1) <= Rank(S, i, pos)
                          /\ Rank(S, i, pos) < next
                   now == times[i] + (IF due THEN 1 ELSE 0)
        <5>1. /\ now <= Cardinality({p \in 1 .. n : Reaches(i, p)})
              /\ \A p \in Nat \ {0} : Holds(i, p) => now = IF p <= n THEN 1 ELSE 0
          BY <2>1, <2>4, <2>n, <4>1, <4>4, ShownStep
        <5>2. times'[i] = now
          BY <3>1, <4>2, <4>4
        <5>3. \A p : Reaches(i, p)' = Reaches(i, p) /\ Holds(i, p)' = Holds(i, p)
          BY <2>1 DEF Reaches, Holds, Above, UpTo, Ahead, Skip
        <5> HIDE DEF now
        <5>4. {p \in 1 .. n : Reaches(i, p)'} = {p \in 1 .. n : Reaches(i, p)}
          BY <5>3
        <5> QED BY <2>1, <4>4, <5>1, <5>2, <5>3, <5>4 DEF Shown
      <4> QED BY <4>3, <4>4
    <3>3. over' => Cardinality(S) <= next
      <4>1. over' => ~(next < Cardinality(S))
        BY Zenon, <2>4, <3>1
      <4>2. Cardinality(S) \in Nat
        BY <2>1, FS_CardinalityType
      <4> HIDE DEF next
      <4> QED BY <2>3, <4>1, <4>2
    <3> QED BY <3>2, <3>3
  <2> QED BY <2>1, <2>2, <2>5, <2>6, <2>n DEF PagesInv
<1> QED BY <1>1, <1>2

\* Leafing through a search that filters first shows matches only, and every match once
\* whose equals are on one page: whatever the size of the pages, however many profiles
\* match, and in whichever order each query returns those that are equal.
THEOREM PagesComplete == PagesSpec => []MatchOncePerTie
<1>1. PagesInv => MatchOncePerTie
  <2> SUFFICES ASSUME PagesInv, PagedAfterFiltering, NEW i \in Profiles
               PROVE  /\ times[i] <= IF i \in query.matches
                                     THEN Cardinality({p \in 1 .. page : Reaches(i, p)}) ELSE 0
                      /\ i \in query.matches => \A p \in 1 .. query.size :
                           Holds(i, p) /\ (p <= page \/ over) => times[i] = 1
    BY DEF MatchOncePerTie
  <2>1. Shown(i, page) /\ Asked /\ page \in Nat /\ query.limit \in Nat
        /\ (over => Cardinality(query.matches) <= page * query.limit)
    BY AskedIsFinite DEF PagesInv
  <2>2. ASSUME i \in query.matches, NEW p \in 1 .. query.size, Holds(i, p), p <= page \/ over
        PROVE  times[i] = 1
    <3>1. p \in Nat \ {0} /\ p - 1 \in Nat
      OBVIOUS
    <3>2. p <= page
      <4> SUFFICES ASSUME over, page <= p - 1 PROVE FALSE
        BY <2>1, <2>2, <3>1
      <4>1. page * query.limit <= (p - 1) * query.limit
        BY <2>1, <3>1, PagesGrow
      <4>2. (p - 1) * query.limit <= Above(i)
        BY <2>2 DEF Holds, Skip
      <4>3. Above(i) \in Nat /\ Above(i) < Cardinality(query.matches)
        BY <2>1, <2>2, AboveIsLess
      <4>4. Cardinality(query.matches) \in Nat
        BY <2>1, AskedIsFinite, FS_CardinalityType
      <4>5. page * query.limit \in Nat /\ (p - 1) * query.limit \in Nat
        BY <2>1, <3>1
      <4> QED BY <2>1, <4>1, <4>2, <4>3, <4>4, <4>5
    <3> QED BY <2>1, <2>2, <3>1, <3>2 DEF Shown
  <2> QED BY <2>1, <2>2 DEF Shown
<1> QED BY <1>1, PagesInvInit, PagesInvStep, PTL DEF PagesSpec

(***************************************************************************)
(* Reviews.                                                                *)
(***************************************************************************)

\* A review, and one about to be looked for or inserted, is by one party of an agreed
\* booking about the other; a stored one is of a booking that exists, and the only one
\* of its key.
ByParty(row) == /\ row.hire \in agreed /\ row.by \in Login /\ row.of \in Login
                /\ row.by # row.of /\ {row.by, row.of} = Parties(row.hire)

ReviewsInv ==
  /\ ReviewsTypeOK
  /\ \A r \in Stored : ByParty(review[r]) /\ point[review[r].hire] # "absent"
  /\ \A r, s \in Stored : review[r].hire = review[s].hire /\ review[r].by = review[s].by => r = s
  /\ \A h \in Handler : pen[h].at # "idle" => ByParty(pen[h].row)
  /\ \A b \in Hire : Reviewable(b) => b \in agreed

\* Without reviews the invariant holds.
LEMMA ReviewsInitial == ReviewsInit => ReviewsInv
<1> SUFFICES ASSUME ReviewsInit PROVE ReviewsInv
  OBVIOUS
<1>1. NoReview \in ReviewRow /\ Down \in Pen
  BY DEF NoReview, ReviewRow, Down, Pen
<1>2. ReviewsTypeOK
  BY <1>1 DEF ReviewsInit, ReviewsTypeOK, Life!Init, Life!Point
<1>3. Stored = {}
  BY DEF ReviewsInit, Stored
<1>4. \A h \in Handler : pen[h].at = "idle"
  BY DEF ReviewsInit, Down
<1>5. \A b \in Hire : ~Reviewable(b)
  BY DEF ReviewsInit, Life!Init, Reviewable
<1> QED BY <1>2, <1>3, <1>4, <1>5 DEF ReviewsInv

\* Bookings only ever add to what was agreed, and one that goes takes its reviews along.
LEMMA BookingsMoveKeeps == ReviewsInv /\ BookingsMove => ReviewsInv'
<1> SUFFICES ASSUME ReviewsInv, BookingsMove PROVE ReviewsInv'
  OBVIOUS
<1> USE DEF ReviewsInv
<1>1. \A r \in Review : review'[r] \in {NoReview, review[r]}
  BY DEF BookingsMove
<1>2. NoReview \in ReviewRow
  BY DEF NoReview, ReviewRow
<1>3. ReviewsTypeOK'
  <2>1. point' \in [Hire -> Life!Point]
    BY DEF BookingsMove, Life!Next
  <2>2. review' \in [Review -> ReviewRow]
    BY <1>2 DEF BookingsMove, ReviewsTypeOK
  <2>3. pen' = pen /\ agreed' \subseteq Hire
    BY DEF BookingsMove, ReviewsTypeOK
  <2> QED BY <2>1, <2>2, <2>3 DEF ReviewsTypeOK, Life!Point
<1>4. agreed \subseteq agreed' /\ pen' = pen
  BY DEF BookingsMove
<1>5. ASSUME NEW r \in Stored'
      PROVE  r \in Stored /\ review'[r] = review[r] /\ point'[review[r].hire] # "absent"
  <2>1. r \in Review /\ review'[r] # NoReview
    BY DEF Stored
  <2>2. review'[r] = review[r] /\ r \in Stored
    BY <1>1, <2>1 DEF Stored
  <2>3. review[r].hire \in Hire
    BY <2>2 DEF ByParty, ReviewsTypeOK
  <2>4. point'[review[r].hire] # "absent"
    BY <2>1, <2>3 DEF BookingsMove
  <2> QED BY <2>2, <2>4
<1>6. \A row : ByParty(row) => ByParty(row)'
  BY <1>4 DEF ByParty, Parties
<1>7. (\A r \in Stored : ByParty(review[r]) /\ point[review[r].hire] # "absent")'
  <2> TAKE r \in Stored'
  <2>1. r \in Stored /\ review'[r] = review[r] /\ point'[review[r].hire] # "absent"
    BY <1>5
  <2>2. ByParty(review[r])
    BY <2>1
  <2> QED BY <1>4, <2>1, <2>2 DEF ByParty, Parties
<1>8. (\A h \in Handler : pen[h].at # "idle" => ByParty(pen[h].row))'
  BY <1>4 DEF ByParty, Parties
<1>9. (\A b \in Hire : Reviewable(b) => b \in agreed)'
  BY DEF BookingsMove, Reviewable
<1> QED BY <1>3, <1>5, <1>7, <1>8, <1>9

\* A step that touches one handler only, and leaves it idle or with a row by a party.
LEMMA PenKeeps ==
  ASSUME ReviewsInv, UNCHANGED <<point, review, agreed>>, NEW h \in Handler,
         NEW p \in Pen, pen' = [pen EXCEPT ![h] = p], p.at # "idle" => ByParty(p.row)
  PROVE  ReviewsInv'
<1> USE DEF ReviewsInv, ReviewsTypeOK
<1>1. ReviewsTypeOK'
  OBVIOUS
<1>2. Stored' = Stored
  BY DEF Stored
<1>3. \A g \in Handler : pen'[g] = IF g = h THEN p ELSE pen[g]
  OBVIOUS
<1>4. \A g \in Handler : pen'[g].at # "idle" => ByParty(pen'[g].row)
  BY <1>3
<1>5. (\A g \in Handler : pen[g].at # "idle" => ByParty(pen[g].row))'
  BY <1>4 DEF ByParty, Parties
<1>6. (\A r \in Stored : ByParty(review[r]) /\ point[review[r].hire] # "absent")'
  BY <1>2 DEF ByParty, Parties
<1>7. (\A b \in Hire : Reviewable(b) => b \in agreed)'
  BY DEF Reviewable
<1> QED BY <1>1, <1>2, <1>5, <1>6, <1>7

\* Every step preserves the invariant.
LEMMA ReviewsStep == ReviewsInv /\ [ReviewStep]_reviewVars => ReviewsInv'
<1> SUFFICES ASSUME ReviewsInv, [ReviewStep]_reviewVars PROVE ReviewsInv'
  OBVIOUS
<1>0. Down \in Pen /\ Down.at = "idle" /\ NoReview.hire = Nobody
  BY DEF Down, Pen, NoReview, ReviewRow
<1>1. CASE BookingsMove
  BY <1>1, BookingsMoveKeeps
<1>2. ASSUME NEW h \in Handler, NEW u \in Login, NEW b \in Hire, ReadBooking(h, u, b)
      PROVE  ReviewsInv'
  <2>1. PICK v \in Parties(b) \ {u} :
          pen' = [pen EXCEPT ![h] = [at |-> "search", row |-> [hire |-> b, by |-> u, of |-> v]]]
    BY Zenon, <1>2 DEF ReadBooking
  <2> DEFINE row == [hire |-> b, by |-> u, of |-> v]
             p == [at |-> "search", row |-> row]
  <2>2. v \in Login /\ v # u /\ {u, v} = Parties(b)
    BY <1>2, <2>1, ReviewsAssumption DEF ReadBooking, Parties
  <2>3. b \in agreed
    BY <1>2 DEF ReadBooking, Reviewable, ReviewsInv, ReviewsTypeOK
  <2>4. ByParty(row)
    BY <2>2, <2>3 DEF ByParty
  <2>5. p \in Pen
    BY <2>2 DEF Pen, ReviewRow
  <2>6. UNCHANGED <<point, review, agreed>>
    BY <1>2 DEF ReadBooking
  <2> QED BY <2>1, <2>4, <2>5, <2>6, PenKeeps
<1>3. ASSUME NEW h \in Handler, SearchOwn(h) PROVE ReviewsInv'
  <2> DEFINE p == [pen[h] EXCEPT !.at = "insert"]
  <2>1. pen[h] \in Pen /\ ByParty(pen[h].row)
    BY <1>3 DEF SearchOwn, ReviewsInv, ReviewsTypeOK
  <2>2. p \in Pen /\ p.row = pen[h].row
    BY <2>1 DEF Pen
  <2>3. /\ UNCHANGED <<point, review, agreed>>
        /\ pen' = [pen EXCEPT ![h] = p] \/ pen' = [pen EXCEPT ![h] = Down]
    BY <1>3 DEF SearchOwn
  <2> HIDE DEF p
  <2> QED BY <1>0, <2>1, <2>2, <2>3, PenKeeps
<1>4. ASSUME NEW h \in Handler, InsertReview(h) PROVE ReviewsInv'
  <2> DEFINE row == pen[h].row
  <2>1. /\ ByParty(row) /\ row \in ReviewRow /\ row.hire \in Hire
        /\ point[row.hire] # "absent" /\ SameKey(row) = {}
    BY <1>4 DEF InsertReview, Insertable, ReviewsInv, ReviewsTypeOK, Pen, ByParty
  <2>2. PICK r \in Review \ Stored : review' = [review EXCEPT ![r] = row]
    BY <1>4 DEF InsertReview
  <2>3. UNCHANGED <<point, agreed>> /\ pen' = [pen EXCEPT ![h] = Down]
    BY <1>4 DEF InsertReview
  <2> HIDE DEF row
  <2>4. row # NoReview
    BY <1>0, <2>1, ReviewsAssumption
  <2>5. review'[r] = row /\ \A s \in Review : s # r => review'[s] = review[s]
    BY <2>2 DEF ReviewsInv, ReviewsTypeOK
  <2>6. \A s \in Review : s \in Stored' <=> s \in Stored \/ s = r
    BY <2>4, <2>5 DEF Stored
  <2>7. ReviewsTypeOK'
    BY <1>0, <2>1, <2>2, <2>3 DEF ReviewsInv, ReviewsTypeOK
  <2>8. (\A s \in Stored : ByParty(review[s]) /\ point[review[s].hire] # "absent")'
    <3> TAKE s \in Stored'
    <3>1. ByParty(review'[s]) /\ point[review'[s].hire] # "absent"
      BY <2>1, <2>5, <2>6 DEF ReviewsInv, Stored
    <3> QED BY <2>3, <3>1 DEF ByParty, Parties
  <2>9. (\A g \in Handler : pen[g].at # "idle" => ByParty(pen[g].row))'
    <3>1. \A g \in Handler : pen'[g].at # "idle" => ByParty(pen'[g].row)
      BY <1>0, <2>3 DEF ReviewsInv, ReviewsTypeOK
    <3> QED BY <2>3, <3>1 DEF ByParty, Parties
  <2>10. (\A s, t \in Stored :
            review[s].hire = review[t].hire /\ review[s].by = review[t].by => s = t)'
    <3> SUFFICES ASSUME NEW s \in Stored', NEW t \in Stored',
                        review'[s].hire = review'[t].hire, review'[s].by = review'[t].by
                 PROVE  s = t
      OBVIOUS
    <3>1. s \in Review /\ t \in Review
      BY DEF Stored
    <3>2. \A q \in Stored : ~(review[q].hire = row.hire /\ review[q].by = row.by)
      BY <2>1 DEF SameKey
    <3>3. CASE s = r
      BY <2>5, <2>6, <3>1, <3>2, <3>3
    <3>4. CASE s # r /\ t = r
      BY <2>5, <2>6, <3>1, <3>2, <3>4
    <3>5. CASE s # r /\ t # r
      BY <2>5, <2>6, <3>1, <3>5 DEF ReviewsInv
    <3> QED BY <3>3, <3>4, <3>5
  <2>11. (\A b \in Hire : Reviewable(b) => b \in agreed)'
    BY <2>3 DEF ReviewsInv, Reviewable
  <2> QED BY <2>7, <2>8, <2>9, <2>10, <2>11 DEF ReviewsInv
<1>5. ASSUME NEW h \in Handler, DropPen(h) PROVE ReviewsInv'
  BY <1>0, <1>5, PenKeeps DEF DropPen
<1>6. CASE UNCHANGED reviewVars
  BY <1>6 DEF reviewVars, ReviewsInv, ReviewsTypeOK, Stored, ByParty, Parties, Reviewable,
              Life!Point
<1> QED BY <1>1, <1>2, <1>3, <1>4, <1>5, <1>6 DEF ReviewStep

\* A set of reviews of which no two are about one booking is no larger than the bookings
\* behind it.
LEMMA BackedBy ==
  ASSUME ReviewsInv, NEW u \in Login, NEW R \in SUBSET Stored,
         \A r \in R : u \in {review[r].by, review[r].of},
         \A r, s \in R : review[r].hire = review[s].hire => r = s
  PROVE  Cardinality(R) <= Cardinality({b \in agreed : point[b] # "absent" /\ u \in Parties(b)})
<1> DEFINE B == {b \in agreed : point[b] # "absent" /\ u \in Parties(b)}
           f == [r \in R |-> review[r].hire]
<1>1. IsFiniteSet(B)
  <2>1. B \subseteq Hire
    BY DEF ReviewsInv, ReviewsTypeOK
  <2> QED BY <2>1, ReviewsAssumption, FS_Subset
<1>2. \A r \in R : review[r].hire \in B
  BY DEF ReviewsInv, ByParty
<1>3. f \in Injection(R, B)
  <2> HIDE DEF B
  <2>1. f \in [R -> B]
    BY <1>2
  <2>2. \A r, s \in R : f[r] = f[s] => r = s
    OBVIOUS
  <2> HIDE DEF f
  <2> QED BY <2>1, <2>2 DEF Injection, IsInjective
<1> HIDE DEF B, f
<1>4. Cardinality(R) <= Cardinality(B)
  BY <1>1, <1>3, FS_Injection
<1> QED BY <1>4 DEF B

\* createReview: however often reviews are sent at once and whatever becomes of the booking
\* in between, a rating is backed by bookings that were agreed, one review of each side.
THEOREM ReviewsBacked == ReviewsSpec => []RatingBacked
<1>1. ReviewsInv => RatingBacked
  <2> SUFFICES ASSUME ReviewsInv PROVE RatingBacked
    OBVIOUS
  <2>0. \A r \in Stored : ByParty(review[r])
    BY DEF ReviewsInv
  <2>k. \A r, s \in Stored :
          review[r].hire = review[s].hire /\ review[r].by = review[s].by => r = s
    BY DEF ReviewsInv
  <2>1. ASSUME NEW u \in Login
        PROVE  LET backing == {b \in agreed : point[b] # "absent" /\ u \in Parties(b)} IN
               /\ TotalReviews(u) <= Cardinality(backing)
               /\ Cardinality(MyReviews(u)) <= Cardinality(backing)
    <3>1. Cardinality(MyReviews(u))
            <= Cardinality({b \in agreed : point[b] # "absent" /\ u \in Parties(b)})
      <4>1. MyReviews(u) \in SUBSET Stored
        BY DEF MyReviews
      <4>2. \A r \in MyReviews(u) : u \in {review[r].by, review[r].of}
        BY DEF MyReviews
      <4>3. \A r, s \in MyReviews(u) : review[r].hire = review[s].hire => r = s
        BY <2>k DEF MyReviews
      <4> QED BY <4>1, <4>2, <4>3, BackedBy
    <3>2. Cardinality(ReviewsForUser(u))
            <= Cardinality({b \in agreed : point[b] # "absent" /\ u \in Parties(b)})
      <4>1. ReviewsForUser(u) \in SUBSET Stored
        BY DEF ReviewsForUser
      <4>2. \A r \in ReviewsForUser(u) : u \in {review[r].by, review[r].of}
        BY DEF ReviewsForUser
      <4>3. \A r, s \in ReviewsForUser(u) : review[r].hire = review[s].hire => r = s
        <5> SUFFICES ASSUME NEW r \in ReviewsForUser(u), NEW s \in ReviewsForUser(u),
                            review[r].hire = review[s].hire
                     PROVE  r = s
          OBVIOUS
        <5>1. r \in Stored /\ s \in Stored /\ review[r].of = u /\ review[s].of = u
          BY DEF ReviewsForUser
        <5>2. /\ {review[r].by, u} = {review[s].by, u}
              /\ review[r].by # u /\ review[s].by # u
          BY <2>0, <5>1 DEF ByParty
        <5>3. review[r].by = review[s].by
          BY <5>2
        <5> QED BY <2>k, <5>1, <5>3
      <4> QED BY <4>1, <4>2, <4>3, BackedBy
    <3> QED BY <3>1, <3>2 DEF TotalReviews
  <2>2. ASSUME NEW b \in Hire, NEW r \in ReviewsForBooking(b), NEW s \in ReviewsForBooking(b),
               r # s
        PROVE  b \in agreed /\ {review[r].by, review[s].by} = Parties(b)
    <3>1. /\ r \in Stored /\ s \in Stored
          /\ review[r].hire = b /\ review[s].hire = b
      BY DEF ReviewsForBooking
    <3>2. review[r].by # review[s].by
      BY <2>2, <2>k, <3>1
    <3>3. /\ b \in agreed
          /\ {review[r].by, review[r].of} = Parties(b)
          /\ {review[s].by, review[s].of} = Parties(b)
      BY <2>0, <3>1 DEF ByParty
    <3> QED BY <3>2, <3>3
  <2> QED BY <2>1, <2>2 DEF RatingBacked
<1> QED BY <1>1, ReviewsInitial, ReviewsStep, PTL DEF ReviewsSpec
=============================================================================
