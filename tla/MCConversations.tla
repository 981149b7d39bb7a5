---------------------------- MODULE MCConversations ----------------------------
(* Instances of Conversations and ChatLists: a company with a sub-user and a project, another
   company, and a vendor. *)
EXTENDS ChatLists, TLC

CONSTANTS co, cosub, agency, rig, rigsub, ann

MCRoleOf == [u \in User |-> CASE u \in {co, cosub, agency} -> "company"
                              [] u \in {rig, rigsub} -> "vendor"
                              [] u = ann -> "individual"]
MCMainOf == [u \in User |-> CASE u = cosub -> co [] u = rigsub -> rig [] OTHER -> u]
MCOwner == [p \in Project |-> co]

\* The company books the agency, or else the vendor, on each of its projects.
Film == CHOOSE p \in Project : TRUE
MCProjectOf == [b \in Booking |-> Film]
MCRequesterOf == [b \in Booking |-> co]
MCTargetOf == [b \in Booking |-> IF agency \in User THEN agency ELSE rig]

\* From scratch on one project; or where the company and the agency have talked about each
\* of the projects, the agency with the sub-user too, and the booking has ended: its job
\* is done and has posted a summary.
FromScratch == Init /\ removed = Project \ {Film}
Acquainted ==
  /\ status = [u \in User |-> "active"]
  /\ assigned = {} /\ removed = {}
  /\ booking = [b \in Booking |-> "ended"]
  /\ convs = {<<p, {co, agency}>> : p \in Project} \cup {<<Film, {cosub, agency}>>}
  /\ msgs = [m \in Message \cup Summary |->
              IF m \in Booking \X {1} THEN NewMessage(co, <<Film, {co, agency}>>) ELSE NoMessage]
  /\ flight = [r \in Request |-> Idle]
  /\ job = [b \in Booking |-> [NoJob EXCEPT !.at = "done"]]
  /\ told = Booking /\ lost = {}
MCSpec ==
  (FromScratch \/ Acquainted) /\ [][Next]_vars /\ \A b \in Booking : Worked(b)
=============================================================================
