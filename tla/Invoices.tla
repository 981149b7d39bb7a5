------------------------------- MODULE Invoices -------------------------------
(***************************************************************************)
(* The invoices of one project: drafting, sending, declining, recording a  *)
(* payment by hand, paying through the gateway, attachments, and deleting  *)
(* the project.  As everywhere in this API a handler reads the row, checks *)
(* it, and writes by primary key in a later query: each of these is a step *)
(* and requests of several logins interleave.  A login has one request in  *)
(* flight, and InFlight are in flight at once (bounds).                    *)
(*                                                                         *)
(* The payment gateway is external: it creates orders, captures payments   *)
(* for orders it has handed out, and calls the webhook, again and again,   *)
(* for what it captured.                                                   *)
(***************************************************************************)
EXTENDS Integers, FiniteSets

CONSTANTS
  Login,       \* logins that take part
  MainOf,      \* the account a login acts for (its main login)
  Company,     \* the account that owns the project and receives its invoices
  Assigned,    \* sub-users of Company the project is assigned to
  Invoice,     \* ids of invoices
  Order,       \* ids of gateway orders
  Amount,      \* subtotals in use, in paise
  Rate,        \* tax rates in use, in percent
  Instalment,  \* sums of a partial payment in use
  MaxFiles,    \* MAX_ATTACHMENTS_PER_INVOICE
  InFlight,    \* bounds the requests in flight
  None

ASSUME InvoicesAssumption ==
  /\ MainOf \in [Login -> Login] /\ Company \in Login
  /\ Assigned \subseteq Login
  /\ Amount \subseteq Nat \ {0} /\ Rate \subseteq Nat
  /\ Instalment \subseteq Nat \ {0} /\ MaxFiles \in Nat \ {0}
  /\ InFlight \in Nat
  /\ None \notin Login \cup Invoice \cup Order

VARIABLES
  inv,       \* the invoice rows, with the sum of their line items
  flight,    \* the request each login is waiting for
  orders,    \* what the gateway knows of its orders
  hook,      \* per order, the invoice a webhook call has found
  gone,      \* the project has been deleted
  recorded,  \* history: what was recorded by hand per invoice
  raced,     \* history: invoices with a payment recorded over another one
  late,      \* history: invoices an issuer's request wrote when no longer drafts
  torn       \* history: invoices with an edit that died half-way or met another
vars == <<inv, flight, orders, hook, gone, recorded, raced, late, torn>>

InvoiceStatus == {"draft", "sent", "paid", "cancelled"}
Row == [status : InvoiceStatus \cup {"absent"}, issuer : Login \cup {None},
        lines : Nat, amount : Nat, rate : Nat, total : Nat, paid : Nat,
        order : Order \cup {None}, files : Nat]
NoRow == [status |-> "absent", issuer |-> None, lines |-> 0, amount |-> 0,
          rate |-> 0, total |-> 0, paid |-> 0, order |-> None, files |-> 0]

\* `paid' and `total' are what recordPayment read; `value' is an amount, `rate' a tax
\* rate and `order' a gateway order the request carries.
Op == {"send", "cancel", "decline", "record", "edit", "tax", "pay", "file",
       "unfile", "remove"}
At == {"write", "clear", "fill"}
Idle == [op |-> "none", at |-> "write", inv |-> None, paid |-> 0, total |-> 0,
         value |-> 0, rate |-> 0, order |-> None]
Request == [op : Op \cup {"none"}, at : At, inv : Invoice \cup {None}, paid : Nat,
            total : Nat, value : Nat, rate : Nat, order : Order \cup {None}]
NoOrder == [inv |-> None, amount |-> 0, state |-> "none"]

Init ==
  /\ inv = [i \in Invoice |-> NoRow]
  /\ flight = [l \in Login |-> Idle]
  /\ orders = [o \in Order |-> NoOrder]
  /\ hook = [o \in Order |-> None]
  /\ gone = FALSE
  /\ recorded = [i \in Invoice |-> 0]
  /\ raced = {}
  /\ late = {}
  /\ torn = {}

(***************************************************************************)
(* Amounts and checks.                                                     *)
(***************************************************************************)
\* computeTaxAmount rounds half up.
Tax(a, r) == (a * r + 50) \div 100
Remaining(r) == r.total - r.paid
IsMain(l) == MainOf[l] = l
Issues(r, l) == r.status # "absent" /\ r.issuer = MainOf[l]
Receives(r, l) == r.status # "absent" /\ MainOf[l] = Company
\* Sub-users of the company need the assignment where the handler asks for it.
OnProject(l) == MainOf[l] = Company => IsMain(l) \/ l \in Assigned

MaySend(r, l)    == Issues(r, l) /\ r.status = "draft"
MayCancel(r, l)  == Issues(r, l) /\ r.status \in {"draft", "sent"}
MayDecline(r, l) == Receives(r, l) /\ r.status = "sent"
\* Mutant of MayRecord: without the check of the balance.
MayRecordAnySum(r, l, v) == Receives(r, l) /\ r.status = "sent" /\ v > 0
MayRecord(r, l, v) == /\ Receives(r, l) /\ r.status = "sent"
                      /\ v > 0 /\ v <= Remaining(r)
MayPay(r, l)     == Receives(r, l) /\ OnProject(l) /\ r.status = "sent"
MayEdit(r, l)    == Issues(r, l) /\ r.status = "draft"
MayFile(r, l)    == /\ Issues(r, l) /\ OnProject(l)
                    /\ r.status \in {"draft", "sent"} /\ r.files < MaxFiles
MayUnfile(r, l)  == Issues(r, l) /\ OnProject(l) /\ r.status # "paid" /\ r.files > 0

Allowed(op, r, l) ==
  CASE op = "send"    -> MaySend(r, l)
    [] op = "cancel"  -> MayCancel(r, l)
    [] op = "decline" -> MayDecline(r, l)
    [] op = "file"    -> MayFile(r, l)
    [] op = "unfile"  -> MayUnfile(r, l)
    [] OTHER -> FALSE

Busy(l) == flight[l] # Idle
Free(l) == ~Busy(l) /\ Cardinality({m \in Login : Busy(m)}) < InFlight
Serve(l, req) == flight' = [flight EXCEPT ![l] = req]
Exists(i) == inv[i].status # "absent"
Put(i, r) == inv' = [inv EXCEPT ![i] = r]

(***************************************************************************)
(* New invoices: a draft, an invoice sent for paper the issuer wrote, an   *)
(* invoice the company records for paper it received.  One transaction     *)
(* each; whether the issuer is booked is for the booking engine to say.    *)
(***************************************************************************)
NewInvoice(i, l, status, a, r) ==
  /\ Free(l) /\ ~gone /\ ~Exists(i)
  /\ Put(i, [NoRow EXCEPT !.status = status, !.issuer = MainOf[l], !.lines = a,
                          !.amount = a, !.rate = r, !.total = a + Tax(a, r)])
  /\ UNCHANGED <<flight, orders, hook, gone, recorded, raced, late, torn>>

Create(l, i, a, r) == MainOf[l] # Company /\ NewInvoice(i, l, "draft", a, r)
SendOffline(l, i, a, r) == MainOf[l] # Company /\ NewInvoice(i, l, "sent", a, r)
RecordOffline(l, i, a, r) ==
  MainOf[l] = Company /\ OnProject(l) /\ NewInvoice(i, l, "sent", a, r)

(***************************************************************************)
(* The read and the checks of a request.                                   *)
(***************************************************************************)
Begin(l, op, i) ==
  /\ Free(l) /\ Allowed(op, inv[i], l)
  /\ Serve(l, [Idle EXCEPT !.op = op, !.inv = i])
  /\ UNCHANGED <<inv, orders, hook, gone, recorded, raced, late, torn>>

BeginRecord(l, i, v) ==
  /\ Free(l) /\ MayRecord(inv[i], l, v)
  /\ Serve(l, [Idle EXCEPT !.op = "record", !.inv = i, !.paid = inv[i].paid,
                           !.total = inv[i].total, !.value = v])
  /\ UNCHANGED <<inv, orders, hook, gone, recorded, raced, late, torn>>

Edits(l, i) == flight[l].op \in {"edit", "tax"} /\ flight[l].inv = i
Meeting(i)  == IF \E l \in Login : Edits(l, i) THEN torn \cup {i} ELSE torn

\* update: new lines with a new rate or the one it read, or a new rate alone.
BeginEdit(l, i, a, r) ==
  /\ Free(l) /\ MayEdit(inv[i], l)
  /\ Serve(l, [Idle EXCEPT !.op = "edit", !.at = "clear", !.inv = i,
                           !.value = a, !.rate = r])
  /\ torn' = Meeting(i)
  /\ UNCHANGED <<inv, orders, hook, gone, recorded, raced, late>>

BeginTax(l, i, r) ==
  /\ Free(l) /\ MayEdit(inv[i], l)
  /\ Serve(l, [Idle EXCEPT !.op = "tax", !.inv = i,
                           !.value = inv[i].amount, !.rate = r])
  /\ torn' = Meeting(i)
  /\ UNCHANGED <<inv, orders, hook, gone, recorded, raced, late>>

\* initiatePayment asks the gateway for an order over the whole total it read.
BeginPay(l, i, o) ==
  /\ Free(l) /\ MayPay(inv[i], l) /\ orders[o] = NoOrder
  /\ orders' = [orders EXCEPT ![o] = [inv |-> i, amount |-> inv[i].total,
                                      state |-> "made"]]
  /\ Serve(l, [Idle EXCEPT !.op = "pay", !.inv = i, !.order = o])
  /\ UNCHANGED <<inv, hook, gone, recorded, raced, late, torn>>

(***************************************************************************)
(* The writes.                                                             *)
(***************************************************************************)
\* Mutant of EditFill: the total is left to a later request.
EditFillOnly(l) ==
  LET q == flight[l] IN
  /\ q.op = "edit" /\ q.at = "fill" /\ Exists(q.inv)
  /\ Put(q.inv, [inv[q.inv] EXCEPT !.lines = @ + q.value])
  /\ Serve(l, Idle)
  /\ UNCHANGED <<orders, hook, gone, recorded, raced, late, torn>>

EditClear(l) ==
  LET q == flight[l] IN
  /\ q.op = "edit" /\ q.at = "clear"
  /\ inv' = IF Exists(q.inv) THEN [inv EXCEPT ![q.inv].lines = 0] ELSE inv
  /\ Serve(l, [q EXCEPT !.at = "fill"])
  /\ UNCHANGED <<orders, hook, gone, recorded, raced, late, torn>>

EditFill(l) ==
  LET q == flight[l] IN
  /\ q.op = "edit" /\ q.at = "fill" /\ Exists(q.inv)
  /\ Put(q.inv, [inv[q.inv] EXCEPT !.lines = @ + q.value])
  /\ Serve(l, [q EXCEPT !.at = "write"])
  /\ UNCHANGED <<orders, hook, gone, recorded, raced, late, torn>>

\* Mutant of NewPaid: a partial payment replaces what was paid before.
NewPaidAlone(q) == q.value
NewPaid(q) == q.paid + q.value

\* Mutant of AfterPayment: an invoice paid in part is open again.
AfterPaymentOpen(q, r) == IF NewPaid(q) >= q.total THEN "paid" ELSE "sent"
AfterPayment(q, r)     == IF NewPaid(q) >= q.total THEN "paid" ELSE r.status

\* Deleting an attachment that another request has deleted fails.
\* Mutant of Unfiled: counts the second deletion too.
UnfiledBelow(n) == n - 1
Unfiled(n) == IF n > 0 THEN n - 1 ELSE n

\* What each request writes over the row as it now is.
Written(q, r) ==
  CASE q.op = "send"    -> [r EXCEPT !.status = "sent"]
    [] q.op \in {"cancel", "decline"} -> [r EXCEPT !.status = "cancelled"]
    [] q.op = "record"  -> [r EXCEPT !.paid = NewPaid(q), !.status = AfterPayment(q, r)]
    [] q.op = "edit"    -> [r EXCEPT !.amount = q.value, !.rate = q.rate,
                              !.total = q.value + Tax(q.value, q.rate)]
    [] q.op = "tax"     -> [r EXCEPT !.rate = q.rate,
                              !.total = q.value + Tax(q.value, q.rate)]
    [] q.op = "pay"     -> [r EXCEPT !.order = q.order]
    [] q.op = "file"    -> [r EXCEPT !.files = @ + 1]
    [] q.op = "unfile"  -> [r EXCEPT !.files = Unfiled(@)]

WriteRow(l) ==
  LET q == flight[l] IN
  /\ q.op \notin {"none", "remove"} /\ q.at = "write" /\ Exists(q.inv)
  /\ Put(q.inv, Written(q, inv[q.inv]))
  /\ orders' = IF q.op = "pay" THEN [orders EXCEPT ![q.order].state = "open"] ELSE orders
  /\ recorded' = IF q.op = "record" THEN [recorded EXCEPT ![q.inv] = @ + q.value]
                 ELSE recorded
  /\ raced' = IF q.op = "record" /\ inv[q.inv].paid # q.paid
              THEN raced \cup {q.inv} ELSE raced
  /\ late' = IF q.op \in {"send", "edit", "tax"} /\ inv[q.inv].status # "draft"
             THEN late \cup {q.inv} ELSE late
  /\ Serve(l, Idle)
  /\ UNCHANGED <<hook, gone, torn>>

\* A request dies at an await, or its row is gone when it writes.
Fail(l) ==
  LET q == flight[l] IN
  /\ Busy(l)
  /\ torn' = IF q.op = "edit" /\ q.at # "clear" THEN torn \cup {q.inv} ELSE torn
  /\ Serve(l, Idle)
  /\ UNCHANGED <<inv, orders, hook, gone, recorded, raced, late>>

(***************************************************************************)
(* The gateway and its webhook: find the invoice by order, mark it paid.   *)
(***************************************************************************)
Capture(o) ==
  /\ orders[o].state = "open"
  /\ orders' = [orders EXCEPT ![o].state = "captured"]
  /\ UNCHANGED <<inv, flight, hook, gone, recorded, raced, late, torn>>

OnFile(o) == {i \in Invoice : inv[i].order = o}

\* Mutant of HookRead: acts on any order, captured or not.
HookReadAny(o) ==
  /\ orders[o].state = "open" /\ hook[o] = None
  /\ \E i \in OnFile(o) : hook' = [hook EXCEPT ![o] = i]
  /\ UNCHANGED <<inv, flight, orders, gone, recorded, raced, late, torn>>

HookRead(o) ==
  /\ orders[o].state = "captured" /\ hook[o] = None
  /\ \E i \in OnFile(o) : hook' = [hook EXCEPT ![o] = i]
  /\ UNCHANGED <<inv, flight, orders, gone, recorded, raced, late, torn>>

\* Mutant of HookWrite: touches only invoices that are still open.
HookWriteOpen(o) ==
  /\ hook[o] # None
  /\ inv' = IF inv[hook[o]].status = "sent"
            THEN [inv EXCEPT ![hook[o]].status = "paid"] ELSE inv
  /\ hook' = [hook EXCEPT ![o] = None]
  /\ UNCHANGED <<flight, orders, gone, recorded, raced, late, torn>>

HookWrite(o) ==
  /\ hook[o] # None
  /\ inv' = IF Exists(hook[o]) THEN [inv EXCEPT ![hook[o]].status = "paid"] ELSE inv
  /\ hook' = [hook EXCEPT ![o] = None]
  /\ UNCHANGED <<flight, orders, gone, recorded, raced, late, torn>>

(***************************************************************************)
(* projects.remove: one invoice that matters is looked at, whichever the   *)
(* database returns; then everything goes in one transaction.              *)
(***************************************************************************)
Matters(r) == r.paid > 0 \/ r.status \in {"paid", "sent"}
PaidInPart(r) == r.paid > 0 \/ r.status = "paid"

BeginRemove(l) ==
  /\ Free(l) /\ ~gone /\ l = Company
  /\ LET found == {i \in Invoice : Matters(inv[i])} IN
     found # {} => \E i \in found : ~PaidInPart(inv[i])
  /\ Serve(l, [Idle EXCEPT !.op = "remove"])
  /\ UNCHANGED <<inv, orders, hook, gone, recorded, raced, late, torn>>

Remove(l) ==
  /\ flight[l].op = "remove" /\ ~gone
  /\ inv' = [i \in Invoice |-> NoRow]
  /\ gone' = TRUE
  /\ Serve(l, Idle)
  /\ UNCHANGED <<orders, hook, recorded, raced, late, torn>>

LoginStep(l) ==
  \/ \E i \in Invoice, a \in Amount, r \in Rate :
       Create(l, i, a, r) \/ SendOffline(l, i, a, r) \/ RecordOffline(l, i, a, r)
  \/ \E op \in Op, i \in Invoice : Begin(l, op, i)
  \/ \E i \in Invoice : \E v \in Instalment \cup {Remaining(inv[i])} : BeginRecord(l, i, v)
  \/ \E i \in Invoice, a \in Amount, r \in Rate : BeginEdit(l, i, a, r)
  \/ \E i \in Invoice, r \in Rate : BeginTax(l, i, r)
  \/ \E i \in Invoice, o \in Order : BeginPay(l, i, o)
  \/ EditClear(l)
  \/ EditFill(l)
  \/ WriteRow(l)
  \/ BeginRemove(l)
  \/ Remove(l)
  \/ Fail(l)

GatewayStep(o) == Capture(o) \/ HookRead(o) \/ HookWrite(o)

Next == (\E l \in Login : LoginStep(l)) \/ (\E o \in Order : GatewayStep(o))

\* The gateway repeats a webhook call until it is answered; nobody has to do
\* anything else.
Answered(o) == WF_vars(HookRead(o)) /\ WF_vars(HookWrite(o))
Spec == Init /\ [][Next]_vars /\ \A o \in Order : Answered(o)

(***************************************************************************)
(* Properties.                                                             *)
(***************************************************************************)

\* The shape of the rows, of the requests in flight and of the gateway's orders.
TypeOK ==
  /\ inv \in [Invoice -> Row]
  /\ flight \in [Login -> Request]
  /\ orders \in [Order -> [inv : Invoice \cup {None}, amount : Nat,
                           state : {"none", "made", "open", "captured"}]]
  /\ hook \in [Order -> Invoice \cup {None}]
  /\ gone \in BOOLEAN
  /\ recorded \in [Invoice -> Nat]
  /\ raced \subseteq Invoice /\ late \subseteq Invoice /\ torn \subseteq Invoice

Captured(i) == {o \in Order : orders[o].inv = i /\ orders[o].state = "captured"}

\* recordPayment and the webhook mark an invoice as paid from what they read
\* earlier: still, no invoice is paid for less than its total, be it by hand or by a
\* captured order, whatever ran in between.  Only an edit begun on the draft and
\* written after the invoice was sent can raise the total behind the payment.
PaidBacked ==
  \A i \in Invoice : inv[i].status = "paid" /\ i \notin late =>
    \/ recorded[i] >= inv[i].total
    \/ \E o \in Captured(i) : orders[o].amount >= inv[i].total

\* paidAmount is the sum of what was recorded unless two logins recorded over each
\* other: then recordPayment, which writes the sum it computed from its own read,
\* drops a payment but never invents one.  It exceeds the total only where a late edit
\* lowered that.
LedgerSound ==
  \A i \in Invoice : Exists(i) =>
    /\ inv[i].paid <= recorded[i]
    /\ i \notin raced => inv[i].paid = recorded[i]
    /\ i \notin late => inv[i].paid <= inv[i].total

\* update rewrites the lines, the amount and the total in up to three queries outside
\* a transaction: an invoice whose lines do not add up to its amount, or whose total is
\* not the amount with its tax, is being edited, or had an edit that died after
\* deleting the lines or ran next to another one.
AmountMatchesLines ==
  \A i \in Invoice :
    \/ inv[i].lines = inv[i].amount
       /\ inv[i].total = inv[i].amount + Tax(inv[i].amount, inv[i].rate)
    \/ i \in torn \/ \E l \in Login : Edits(l, i)

\* A cancelled or declined invoice comes back only as a paid one, or as sent by a send
\* that read the draft before.  It can: neither the webhook nor recordPayment nor send
\* looks at the status when it writes.
CancelledStays ==
  [][\A i \in Invoice :
       inv[i].status = "cancelled" =>
         \/ inv'[i].status \in {"cancelled", "paid", "absent"}
         \/ inv'[i].status = "sent" /\ i \in late']_vars

\* A captured payment reaches its invoice, as long as the invoice still names the
\* order: a second initiatePayment overwrites the first order's id, and the payment
\* of that one is then matched by nothing.
CapturedSettles ==
  \A i \in Invoice, o \in Order :
    orders[o].state = "captured" /\ inv[i].order = o
      ~> inv[i].status = "paid" \/ inv[i].order # o

\* The webhook call for a captured order goes through when it has an invoice to find, and
\* then to write: the facts about ENABLED that CapturedSettles rests on.
HookCanRun ==
  \A o \in Order :
    /\ orders[o].state = "captured" /\ hook[o] = None /\ OnFile(o) # {}
         => ENABLED <<HookRead(o)>>_vars
    /\ hook[o] # None => ENABLED <<HookWrite(o)>>_vars

\* Deleting the project takes no invoice with it that was paid in full or in part.
PaidInvoicesSurvive ==
  [][gone' # gone => \A i \in Invoice : ~PaidInPart(inv[i])]_vars
=============================================================================
