----------------------------- MODULE InvoiceLists -----------------------------
(***************************************************************************)
(* Which invoices a login is shown and may open (InvoicesService.list,     *)
(* getOne and ensureInvoiceAccess) and the sums the project list shows     *)
(* next to a project (ProjectsService.listUserProjectsWithStats).          *)
(***************************************************************************)
EXTENDS Invoices, Functions

ASSUME InvoiceListsAssumption == IsFiniteSet(Invoice)

\* Mutant of ReceivedBy: drafts are what the recipient gets to see.
ReceivedDrafts(l) == {i \in Invoice : Receives(inv[i], l) /\ OnProject(l) /\ inv[i].status = "draft"}

ReceivedBy(l) == {i \in Invoice : Receives(inv[i], l) /\ OnProject(l) /\ inv[i].status # "draft"}
IssuedBy(l)   == {i \in Invoice : Issues(inv[i], l)}
Shown(l)      == ReceivedBy(l) \cup IssuedBy(l)

\* ensureInvoiceAccess: the recipient is looked at first, so that a sub-user of the
\* company needs the assignment even for what its own account issued.
MayView(l, i) ==
  IF Receives(inv[i], l) THEN OnProject(l) ELSE Issues(inv[i], l)

(***************************************************************************)
(* The sums of one project, status by status as the query groups them.     *)
(* They do not depend on assignments.                                      *)
(***************************************************************************)
Counted(l, s) ==
  {i \in Invoice : inv[i].status = s /\ (Issues(inv[i], l) \/ (Receives(inv[i], l) /\ s # "draft"))}
Total(S) == SumFunctionOnSet([i \in Invoice |-> inv[i].total], S)
Paid(S)  == SumFunctionOnSet([i \in Invoice |-> inv[i].paid], S)
Open     == InvoiceStatus \ {"cancelled"}

Billed(l)  == SumFunction([s \in Open |-> Total(Counted(l, s))])
PaidSum(l) == SumFunction([s \in Open |-> Paid(Counted(l, s))])

Rest(S) == IF Total(S) > Paid(S) THEN Total(S) - Paid(S) ELSE 0

\* Mutant of Owed: leaves the drafts out.
OwedSent(l) == Rest(Counted(l, "sent"))

Owed(l) == SumFunction([s \in {"sent", "draft"} |-> Rest(Counted(l, s))])

(***************************************************************************)
(* Properties.                                                             *)
(***************************************************************************)
MayAct(l, i) ==
  \/ \E op \in Op : Allowed(op, inv[i], l)
  \/ MayEdit(inv[i], l) \/ MayPay(inv[i], l)
  \/ \E v \in Instalment : MayRecord(inv[i], l, v)

\* Whatever the handlers would let a login do with an invoice, the list leads it there
\* and the page opens: only a sub-user of the company that is not assigned to the
\* project may decline an invoice or record a payment on it without being shown it.
InvoiceWorkIsListed ==
  \A l \in Login, i \in Invoice :
    OnProject(l) /\ MayAct(l, i) => i \in Shown(l) /\ MayView(l, i)

\* What is paid and what is owed on a project make up what was billed, as long as every
\* invoice that is paid was paid by hand and no edit was written late: the webhook
\* leaves paidAmount alone, and an invoice it settles counts neither as paid nor as
\* owed.
StatsAddUp ==
  late = {} =>
    \A l \in Login :
      LET short == {i \in Invoice : inv[i].status = "paid" /\ inv[i].paid < inv[i].total} IN
      /\ PaidSum(l) + Owed(l) <= Billed(l)
      /\ short = {} => PaidSum(l) + Owed(l) = Billed(l)
      /\ \A i \in short : Captured(i) # {} \/ i \in raced
=============================================================================
