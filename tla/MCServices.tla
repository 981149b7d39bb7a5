------------------------------ MODULE MCServices ------------------------------
(* Small instances of the components that do not touch each other's rows.  A *)
(* behaviour is about one of them, chosen at the start, so that their state  *)
(* spaces add up instead of multiplying.                                     *)
EXTENDS Sessions, Notices, SearchPages, Catalogue, Numbering, ChatSockets, Reviews

CONSTANTS co, sub, ann, rig, yard, kit, place, k1, k2, k3

VARIABLE focus
serviceVars == <<focus, sessionVars, noticeVars, pagesVars, catalogueVars, numberVars,
                 socketVars, reviewVars>>

MCRootOf == [u \in Login |-> IF u = sub THEN co ELSE u]
MCKindOf == [u \in Login |-> IF u = ann THEN "individual" ELSE "company"]
\* The crew member asks for the phone number of the sub-user.
MCContacts == [u \in Login |-> CASE u = co -> {"co@"} [] u = sub -> {"sub@", "phone"}
                                 [] u = ann -> {"phone"}]

\* A vendor with a kit and a location provider with a property, booked by a company.
MCRoleOf    == [u \in User |-> CASE u = rig -> "vendor" [] u = yard -> "location"
                                 [] u = co -> "company"]
MCMainOf    == [u \in User |-> u]
MCOwner     == [p \in Project |-> co]
MCItemOwner == [x \in Item |-> IF x = kit THEN rig ELSE yard]

\* Three sides of the accounts: who may register, one-time codes, and how long a
\* suspended or removed user keeps a way in.
Joining == AccountStep
Coding  == (\E h \in Handler : Register(h, ann) \/ Insert(h)) \/ CodeStep
           \/ (\E h \in Handler : Issue(h) \/ Restart(h))
Leaving == (\E h \in Handler : Register(h, ann) \/ Insert(h) \/ Restart(h))
           \/ (\E on \in BOOLEAN : SetUserStatus(ann, on))
           \/ TokenStep \/ IdentityStep

Choosing == \E dto \in Preferences : UpdatePreferences(ann, dto)

\* The company, whose sub-user is given the conversation, and a crew member; one that
\* names the sub-user, and one of the company with itself.
MCSidesOf == [k \in Chat |-> CASE k = k1 -> <<ann, co>> [] k = k2 -> <<sub, ann>>
                               [] k = k3 -> <<co, co>>]
MCDeputy  == {<<sub, k1>>}

\* The company's booking of the crew member.
MCRequesterOf == [b \in Hire |-> co]
MCTargetOf    == [b \in Hire |-> ann]

\* Two sides of the catalogue: a kit under bookings, and windows.
Listing == (\E u \in User : ItemStep(u, kit)) \/ HoldStep
Opening == \E u \in User : \E x \in Item : ItemStep(u, x) \/ WindowStep(u, x)

PagesAtRest ==
  /\ query = [search |-> "crew", size |-> 0, tied |-> {}, matches |-> {}, limit |-> 1,
              bySkill |-> FALSE, dated |-> FALSE]
  /\ page = 0 /\ times = <<>> /\ over = FALSE
\* Requests at one time are for different projects.
Numbered ==
  NumberingInit /\ \A c, d \in Clerk : c # d => clerk[c].job # clerk[d].job
NumberingAtRest ==
  /\ issued = {}
  /\ clerk = [c \in Clerk |-> [at |-> "idle", job |-> CHOOSE j \in Job : TRUE,
                               number |-> 0, tries |-> 0]]
  /\ crowd = [c \in Clerk |-> 0] /\ met = {}

Init ==
  /\ focus \in {"joining", "coding", "leaving", "badging", "choosing", "paging", "listing",
                "opening", "numbering", "joined", "pushing", "reviewing"}
  /\ SessionsInit /\ NoticesInit /\ CatalogueInit /\ SocketsInit /\ ReviewsInit
  \* Counts are followed in one conversation at a time.
  /\ gone \in IF focus = "pushing" THEN {Chat \ {k} : k \in Chat} ELSE {{k3}}
  /\ IF focus = "paging" THEN PagesInit ELSE PagesAtRest
  /\ IF focus = "numbering" THEN Numbered ELSE NumberingAtRest

Moves == [joining |-> "sessions", coding |-> "sessions", leaving |-> "sessions",
          badging |-> "notices", choosing |-> "notices", paging |-> "pages",
          listing |-> "catalogue", opening |-> "catalogue", numbering |-> "numbers",
          joined |-> "sockets", pushing |-> "sockets", reviewing |-> "reviews"]

Next ==
  /\ UNCHANGED focus
  /\ \/ focus = "joining" /\ Joining
     \/ focus = "coding" /\ Coding
     \/ focus = "leaving" /\ Leaving
     \/ Moves[focus] # "sessions" /\ UNCHANGED sessionVars
  /\ \/ focus = "badging" /\ BadgeStep
     \/ focus = "choosing" /\ Choosing
     \/ Moves[focus] # "notices" /\ UNCHANGED noticeVars
  /\ \/ focus = "paging" /\ AskPage
     \/ focus # "paging" /\ UNCHANGED pagesVars
  /\ \/ focus = "listing" /\ Listing
     \/ focus = "opening" /\ Opening
     \/ Moves[focus] # "catalogue" /\ UNCHANGED catalogueVars
  /\ \/ focus = "numbering" /\ NumberingNext
     \/ focus # "numbering" /\ UNCHANGED numberVars
  /\ \/ focus = "joined" /\ RoomStep
     \/ focus = "pushing" /\ PushStep
     \/ Moves[focus] # "sockets" /\ UNCHANGED socketVars
  /\ \/ focus = "reviewing" /\ ReviewStep
     \/ focus # "reviewing" /\ UNCHANGED reviewVars

Spec == Init /\ [][Next]_serviceVars /\ SessionsFairness

\* Every variable of every component has its type.
TypesOK == SessionsTypeOK /\ NoticesTypeOK /\ CatalogueTypeOK /\ NumberingTypeOK
           /\ SocketsTypeOK /\ ReviewsTypeOK
=============================================================================
