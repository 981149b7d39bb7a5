------------------------------- MODULE ChatLists -------------------------------
(***************************************************************************)
(* What a login is shown of the chats: its list of conversations and the   *)
(* partner each names, the messages of a conversation, a search through    *)
(* messages, and the day panel of a project.  Each is a query of its own,  *)
(* written apart from canAccessConversation, which guards writing.         *)
(*                                                                         *)
(* Pages, dates and search words only narrow what is shown and are left    *)
(* out; so are names and avatars.                                          *)
(***************************************************************************)
EXTENDS Conversations

OfLogin(u) == {k \in convs : u \in Participants(k)}
AssignedProjects(u) == {a[2] : a \in {x \in assigned : x[1] = u}}

\* Mutant of Listed: sub-users of a vendor are treated like those of a company.
ListedIfAssigned(u) ==
  OfLogin(u) \cup (IF IsMain(u) THEN {}
                   ELSE {k \in OfLogin(MainOf[u]) : ProjectIn(k) \in AssignedProjects(u)})
\* conversationWhereForUser: a login's own conversations, and for a sub-user those of its
\* account, of which a company's sub-user has only the ones on its projects.
Listed(u) ==
  OfLogin(u) \cup
  (IF IsMain(u) THEN {}
   ELSE IF RoleOf[u] = "vendor" THEN OfLogin(MainOf[u])
   ELSE {k \in OfLogin(MainOf[u]) : ProjectIn(k) \in AssignedProjects(u)})

\* Who a conversation is said to be with, as a set for there is no telling which of the
\* two is participantB, the answer when the caller is on neither side.
Apart(k, a) == IF Participants(k) = {a} THEN {a} ELSE Participants(k) \ {a}
Partners(u, main, k) ==
  IF u \in Participants(k) THEN Apart(k, u)
  ELSE IF main \in Participants(k) THEN Apart(k, main)
  ELSE Participants(k)

\* listConversations looks the main login up first.  createOrGetConversation does not, and
\* may tell a sub-user that it talks to its own account; its answer is left out.
ListRow(u, k) == [conv |-> k, with |-> Partners(u, IF IsMain(u) THEN None ELSE MainOf[u], k)]
ConversationList(u) == {ListRow(u, k) : k \in Listed(u)}

\* A message counts as one's own if it comes from anywhere in the account.
SameAccount(u, m) ==
  LET s == msgs[m].sender IN
  \/ s = u
  \/ ~IsMain(s) /\ MainOf[s] = u
  \/ ~IsMain(u) /\ MainOf[u] = s
  \/ ~IsMain(s) /\ ~IsMain(u) /\ MainOf[s] = MainOf[u]

\* getMessages, which shows deleted messages too, without their content.
Read(u, m) == Sent(m) /\ msgs[m].conv \in convs /\ CanAccess(u, msgs[m].conv)

\* getConversationWithUser answers with the latest conversation shared with the other, and
\* with none if nothing is shared.  Times are left out, so any of these may be the latest.
MayAnswer(u, other) == Shared(u, other)

Legible(m) == Sent(m) /\ ~msgs[m].deleted
\* searchMessages asks for the caller itself among the participants: a sub-user finds
\* nothing of its account's.
Found(u, m) == Legible(m) /\ u \in Participants(msgs[m].conv)

\* Mutant of MayPanel: the owner's sub-users need no assignment.
MayPanelAnySub(u, p) ==
  /\ RoleOf[u] = "company" /\ IsActive(u)
  /\ \/ Owner[p] = MainOf[u]
     \/ \E b \in Booking : booking[b] = "live" /\ ProjectOf[b] = p /\ TargetOf[b] = MainOf[u]
\* getProjectMessagesByDate is for the owner's account and for a company booked on the
\* project, sub-users included, who need an assignment only in the owner's account.
MayPanel(u, p) ==
  /\ RoleOf[u] = "company" /\ IsActive(u)
  /\ \/ Owner[p] = MainOf[u] /\ (IsMain(u) \/ <<u, p>> \in assigned)
     \/ /\ Owner[p] # MainOf[u]
        /\ \E b \in Booking : booking[b] = "live" /\ ProjectOf[b] = p /\ TargetOf[b] = MainOf[u]
\* Whoever may, sees every conversation of the project.
OnPanel(u, m) ==
  Legible(m) /\ LET p == ProjectIn(msgs[m].conv) IN p \notin removed /\ MayPanel(u, p)

\* The panel says whom a message's conversation is with, and whether the message is the
\* account's own, in ways of its own: both go by the main login of the caller.
PanelPartners(u, m) ==
  LET k == msgs[m].conv IN
  IF MainOf[u] \in Participants(k) THEN Apart(k, MainOf[u])
  ELSE IF msgs[m].sender \in Participants(k) THEN Apart(k, msgs[m].sender)
  ELSE Participants(k)
PanelOwn(u, m) == MainOf[u] \in {msgs[m].sender, MainOf[msgs[m].sender]}

(***************************************************************************)
(* Properties.                                                             *)
(***************************************************************************)

\* The list agrees with the guard it was written apart from: it shows exactly the
\* conversations the login may read and write.  One with another account is said to be
\* with somebody outside the login's own; asking for the messages with that partner finds
\* this conversation or a later one, and whichever it finds is listed under the same
\* partner.  A message counts as one's own exactly if it comes from a login of one's account.
ListLeadsToChat ==
  \A u \in User :
    /\ Listed(u) = {k \in convs : CanAccess(u, k)}
    /\ \A row \in ConversationList(u) : \A other \in row.with :
         /\ row.conv \in MayAnswer(u, other)
         /\ TwoAccounts(row.conv) =>
              /\ MainOf[other] # MainOf[u]
              /\ \A k \in MayAnswer(u, other) : k \in Listed(u) /\ ListRow(u, k).with = {other}
    /\ \A m \in DOMAIN msgs :
         Read(u, m) => (SameAccount(u, m) <=> MainOf[msgs[m].sender] = MainOf[u])

\* The account's conversation with another one, about a project the account owns.
OwnProjectChat(u, k) ==
  Owner[ProjectIn(k)] = MainOf[u] /\ MainOf[u] \in Participants(k) /\ TwoAccounts(k)

\* The queries agree with the chat itself, deleted messages apart.  A main login finds by
\* searching exactly what it may read.  Of the conversations of its account with others
\* about its own projects, the day panel shows an active login of the company, sub-users
\* included, exactly what the chat lets it read, names the partner the list names, and
\* takes the same messages for its own.
SearchAndPanelAgree ==
  \A u \in User, m \in DOMAIN msgs : Sent(m) =>
    LET k == msgs[m].conv
        readable == Read(u, m) /\ ~msgs[m].deleted IN
    /\ IsMain(u) => (Found(u, m) <=> readable)
    /\ OwnProjectChat(u, k) /\ IsActive(u) =>
         /\ OnPanel(u, m) <=> readable
         /\ OnPanel(u, m) => /\ PanelPartners(u, m) = ListRow(u, k).with
                            /\ PanelOwn(u, m) <=> SameAccount(u, m)
=============================================================================
