-------------------------------- MODULE Notices --------------------------------
(***************************************************************************)
(* In-app notifications and the cached unread badge (NotificationsService  *)
(* over AppCacheService).  A writer changes the rows and then deletes the  *)
(* cache key; a reader that finds no entry counts the rows and then stores *)
(* what it counted.  `desk[h]' is what is left of the request of handler h.*)
(*                                                                         *)
(* History: `late' in a desk says that a row of the box was written after  *)
(* the count, `excused' that the entry of a box was stored late or outlived*)
(* a write whose delete was lost, or is not made.                          *)
(***************************************************************************)
EXTENDS Logins

CONSTANT Notice   \* ids a notifications row may get

ASSUME NoticeAssumption == IsFiniteSet(Notice)

VARIABLES notice, badge, desk, excused, setting
noticeVars == <<notice, badge, desk, excused, setting>>

NoEntry   == Nobody
NoticeRow == [owner : Login \cup {Nobody}, read : BOOLEAN]
Desk      == [at : {"idle", "drop", "fill"}, box : Login \cup {Nobody}, count : Nat,
              late : BOOLEAN]
Free      == [at |-> "idle", box |-> Nobody, count |-> 0, late |-> FALSE]

\* notificationPreferences as getPreferences answers them: "gone" is a key the stored
\* object does not have; a user who never set any gets the default.
Channel     == {"push", "email", "sms"}
Preferences == [Channel -> {"on", "off", "gone"}]

NoticesInit ==
  /\ notice = [n \in Notice |-> [owner |-> Nobody, read |-> FALSE]]
  /\ badge = [u \in Login |-> NoEntry]
  /\ desk = [h \in Handler |-> Free]
  /\ excused = [u \in Login |-> FALSE]
  /\ setting = [u \in Login |-> [c \in Channel |-> IF c = "sms" THEN "off" ELSE "on"]]

\* getNotificationAccountContext: a sub-user of a company or a vendor works on the
\* notifications of the account, every other login on its own.
SharesBox(u) == IsSub(u) /\ KindOf[u] \in {"company", "vendor"}
BoxOf(u)     == IF SharesBox(u) THEN RootOf[u] ELSE u

UnreadIn(o) == {n \in Notice : notice[n].owner = o /\ ~notice[n].read}
Count(o)    == Cardinality(UnreadIn(o))

\* The caller h goes on to delete the key of box o; counts of o under way are late.
Written(h, o) ==
  desk' = [g \in Handler |->
             IF g = h THEN [Free EXCEPT !.at = "drop", !.box = o]
             ELSE IF desk[g].at = "fill" /\ desk[g].box = o
                  THEN [desk[g] EXCEPT !.late = TRUE] ELSE desk[g]]

CreateForUser(h, o, n) ==
  /\ desk[h] = Free
  /\ notice[n].owner = Nobody
  /\ notice' = [notice EXCEPT ![n] = [owner |-> o, read |-> FALSE]]
  /\ Written(h, o)
  /\ UNCHANGED <<badge, excused, setting>>

\* The key is that of the row's owner, whoever read it.
MarkRead(h, u, n) ==
  LET o == notice[n].owner IN
  /\ desk[h] = Free
  /\ o # Nobody /\ (o = u \/ (SharesBox(u) /\ o = RootOf[u]))
  /\ notice' = [notice EXCEPT ![n].read = TRUE]
  /\ Written(h, o)
  /\ UNCHANGED <<badge, excused, setting>>

\* Mutant of DroppedBy: the key of the login instead of the account's.
DroppedByLogin(u) == u

DroppedBy(u) == BoxOf(u)

MarkAllRead(h, u) ==
  /\ desk[h] = Free
  /\ notice' = [n \in Notice |-> IF n \in UnreadIn(BoxOf(u))
                                 THEN [notice[n] EXCEPT !.read = TRUE] ELSE notice[n]]
  /\ desk' = [g \in Handler |->
                IF g = h THEN [Free EXCEPT !.at = "drop", !.box = DroppedBy(u)]
                ELSE IF desk[g].at = "fill" /\ desk[g].box = BoxOf(u)
                     THEN [desk[g] EXCEPT !.late = TRUE] ELSE desk[g]]
  /\ UNCHANGED <<badge, excused, setting>>

\* declineAsRecipient of an invoice marks its alert by itself and leaves the key.
ClearAlert(o, n) ==
  /\ ~SharesBox(o) /\ n \in UnreadIn(o)
  /\ notice' = [notice EXCEPT ![n].read = TRUE]
  /\ excused' = [excused EXCEPT ![o] = @ \/ badge[o] # NoEntry]
  /\ desk' = [g \in Handler |-> IF desk[g].at = "fill" /\ desk[g].box = o
                                THEN [desk[g] EXCEPT !.late = TRUE] ELSE desk[g]]
  /\ UNCHANGED <<badge, setting>>

DropKey(h) ==
  LET o == desk[h].box IN
  /\ desk[h].at = "drop"
  /\ badge' = [badge EXCEPT ![o] = NoEntry]
  /\ excused' = [excused EXCEPT ![o] = FALSE]
  /\ desk' = [desk EXCEPT ![h] = Free]
  /\ UNCHANGED <<notice, setting>>

\* Redis refuses the delete, or the process dies before it: the entry stays.
LoseDrop(h) ==
  /\ desk[h].at = "drop"
  /\ excused' = [excused EXCEPT ![desk[h].box] = TRUE]
  /\ desk' = [desk EXCEPT ![h] = Free]
  /\ UNCHANGED <<notice, badge, setting>>

\* getUnreadCount without an entry: wrap runs the loader and then stores.
CountUnread(h, u) ==
  /\ desk[h] = Free
  /\ badge[BoxOf(u)] = NoEntry
  /\ desk' = [desk EXCEPT ![h] = [at |-> "fill", box |-> BoxOf(u),
                                  count |-> Count(BoxOf(u)), late |-> FALSE]]
  /\ UNCHANGED <<notice, badge, excused, setting>>

StoreCount(h) ==
  LET d == desk[h] IN
  /\ d.at = "fill"
  /\ badge' = [badge EXCEPT ![d.box] = d.count]
  /\ excused' = [excused EXCEPT ![d.box] = d.late]
  /\ desk' = [desk EXCEPT ![h] = Free]
  /\ UNCHANGED <<notice, setting>>

LoseCount(h) ==
  /\ desk[h].at = "fill"
  /\ desk' = [desk EXCEPT ![h] = Free]
  /\ UNCHANGED <<notice, badge, excused, setting>>

\* 30 seconds pass.
BadgeLapses(o) ==
  /\ badge[o] # NoEntry
  /\ badge' = [badge EXCEPT ![o] = NoEntry]
  /\ excused' = [excused EXCEPT ![o] = FALSE]
  /\ UNCHANGED <<notice, desk, setting>>

\* updatePreferences: the object written names all three channels, so a channel the
\* request leaves out loses its key.
UpdatePreferences(u, dto) ==
  /\ \E c \in Channel : dto[c] # "gone"
  /\ setting' = [setting EXCEPT ![u] = dto]
  /\ UNCHANGED <<notice, badge, desk, excused>>

BadgeStep ==
  \/ \E h \in Handler, u \in Login :
       \/ \E n \in Notice : CreateForUser(h, u, n) \/ MarkRead(h, u, n)
       \/ MarkAllRead(h, u)
       \/ CountUnread(h, u)
  \/ \E h \in Handler : DropKey(h) \/ LoseDrop(h) \/ StoreCount(h) \/ LoseCount(h)
  \/ \E o \in Login : BadgeLapses(o) \/ \E n \in Notice : ClearAlert(o, n)

NoticesNext ==
  BadgeStep \/ \E u \in Login, dto \in Preferences : UpdatePreferences(u, dto)

NoticesSpec == NoticesInit /\ [][NoticesNext]_noticeVars

(***************************************************************************)
(* Properties.                                                             *)
(***************************************************************************)

\* Every variable has its type.
NoticesTypeOK ==
  /\ notice \in [Notice -> NoticeRow]
  /\ badge \in [Login -> Nat \cup {NoEntry}]
  /\ desk \in [Handler -> Desk]
  /\ excused \in [Login -> BOOLEAN]
  /\ setting \in [Login -> Preferences]

\* A cached badge that shows another number than the rows is about to be deleted by
\* the request that changed them, or was stored by a count that a write overtook, or
\* outlived a delete that was lost or the declining of an invoice, which clears its
\* alert behind the cache: every other writer deletes the entry of the box it wrote
\* to, sub-users on a shared box included.
BadgeStaleOnlyInRace ==
  \A o \in Login :
    badge[o] \notin {NoEntry, Count(o)} =>
      excused[o] \/ \E h \in Handler : desk[h].at = "drop" /\ desk[h].box = o
=============================================================================
