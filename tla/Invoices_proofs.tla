---------------------------- MODULE Invoices_proofs ----------------------------
(***************************************************************************)
(* Proofs about invoices, for any number of invoices, orders and logins,   *)
(* any amounts and rates, and any number of requests in flight.            *)
(***************************************************************************)
EXTENDS InvoiceLists, FiniteSetTheorems, WellFoundedInduction, TLAPS

(***************************************************************************)
(* Type correctness.                                                       *)
(***************************************************************************)

\* The tax on an amount is a natural number.
LEMMA TaxType == ASSUME NEW a \in Nat, NEW r \in Nat PROVE Tax(a, r) \in Nat
<1> DEFINE n == a * r + 50
<1>1. n \in Nat
  OBVIOUS
<1>2. \A k \in Nat : k \div 100 \in Nat
  OBVIOUS
<1> HIDE DEF n
<1>3. n \div 100 \in Nat
  BY <1>1, <1>2
<1> QED BY <1>3 DEF Tax, n

\* What a request writes over an invoice is an invoice.
LEMMA WrittenType ==
  ASSUME NEW q \in Request, NEW r \in Row, q.op \in Op \ {"remove"}
  PROVE  Written(q, r) \in Row
<1>1. CASE q.op = "send"
  BY <1>1 DEF Written, Row, InvoiceStatus
<1>2. CASE q.op \in {"cancel", "decline"}
  BY <1>2 DEF Written, Row, InvoiceStatus
<1>3. CASE q.op = "record"
  <2>1. NewPaid(q) \in Nat
    BY DEF NewPaid, Request
  <2>2. AfterPayment(q, r) \in InvoiceStatus \cup {"absent"}
    BY DEF AfterPayment, Row, InvoiceStatus
  <2>3. [r EXCEPT !.paid = NewPaid(q), !.status = AfterPayment(q, r)] \in Row
    BY <2>1, <2>2 DEF Row
  <2> QED BY <1>3, <2>3 DEF Written
<1>4. CASE q.op \in {"edit", "tax"}
  <2>1. q.value \in Nat /\ q.rate \in Nat
    BY DEF Request
  <2>2. Tax(q.value, q.rate) \in Nat
    BY <2>1, TaxType
  <2> DEFINE t == q.value + Tax(q.value, q.rate)
  <2>3. t \in Nat
    BY <2>1, <2>2
  <2> HIDE DEF t
  <2>4. /\ [r EXCEPT !.amount = q.value, !.rate = q.rate, !.total = t] \in Row
        /\ [r EXCEPT !.rate = q.rate, !.total = t] \in Row
    BY <2>1, <2>3 DEF Row
  <2> QED BY <1>4, <2>4 DEF Written, t
<1>5. CASE q.op = "pay"
  BY <1>5 DEF Written, Row, Request
<1>6. CASE q.op \in {"file", "unfile"}
  BY <1>6 DEF Written, Row, Unfiled
<1> QED BY <1>1, <1>2, <1>3, <1>4, <1>5, <1>6 DEF Op

\* Column updates outside the requests' writes keep a row a row.
LEMMA RowUpdates ==
  ASSUME NEW r \in Row, NEW n \in Nat
  PROVE  /\ [r EXCEPT !.lines = 0] \in Row /\ [r EXCEPT !.lines = @ + n] \in Row
         /\ [r EXCEPT !.status = "paid"] \in Row
<1>1. r.lines + n \in Nat
  BY DEF Row
<1> QED BY <1>1 DEF Row, InvoiceStatus

\* Every request but the removal of the project is about an invoice.
Addressed == \A l \in Login : flight[l].op \notin {"none", "remove"} => flight[l].inv \in Invoice

TypeInv == TypeOK /\ Addressed

\* The empty tables are well-typed.
LEMMA TypeInit == Init => TypeInv
<1> SUFFICES ASSUME Init PROVE TypeInv
  OBVIOUS
<1>1. NoRow \in Row /\ Idle \in Request
  BY DEF NoRow, Row, Request, Idle, At
<1>2. NoOrder \in [inv : Invoice \cup {None}, amount : Nat,
                   state : {"none", "made", "open", "captured"}]
  BY DEF NoOrder
<1> QED BY <1>1, <1>2 DEF Init, TypeInv, TypeOK, Addressed, Idle

\* Every step of a request, of the gateway and of the webhook writes well-typed rows.
LEMMA TypeStep == TypeInv /\ [Next]_vars => TypeOK'
<1> SUFFICES ASSUME TypeOK, Addressed, [Next]_vars PROVE TypeOK'
  BY DEF TypeInv
<1> USE DEF TypeOK
<1>c. Company \in Login /\ \A l \in Login : MainOf[l] \in Login
  BY InvoicesAssumption
<1>f. ASSUME NEW l \in Login, NEW q \in Request, Serve(l, q)
      PROVE  flight' \in [Login -> Request]
  BY <1>f DEF Serve
<1>i. Idle \in Request
  BY DEF Idle, Request, At
<1>r. \A l \in Login : flight[l] \in Request
  OBVIOUS
<1>1. ASSUME NEW l \in Login, LoginStep(l) PROVE TypeOK'
  <2>1. ASSUME NEW i \in Invoice, NEW a \in Amount, NEW r \in Rate,
               NEW s \in InvoiceStatus, NewInvoice(i, l, s, a, r)
        PROVE  TypeOK'
    <3>0. a \in Nat /\ r \in Nat
      BY InvoicesAssumption
    <3>a. Tax(a, r) \in Nat
      BY <3>0, TaxType
    <3>1. a + Tax(a, r) \in Nat
      BY <3>0, <3>a
    <3>2. [NoRow EXCEPT !.status = s, !.issuer = MainOf[l], !.lines = a, !.amount = a,
                        !.rate = r, !.total = a + Tax(a, r)] \in Row
      BY <3>0, <3>1, <1>c DEF NoRow, Row
    <3> QED BY <2>1, <3>2 DEF NewInvoice, Put
  <2>2. ASSUME NEW op \in Op, NEW i \in Invoice, Begin(l, op, i) PROVE TypeOK'
    <3>1. [Idle EXCEPT !.op = op, !.inv = i] \in Request
      BY DEF Idle, Request, At
    <3> QED BY <2>2, <3>1, <1>f DEF Begin
  <2>3. ASSUME NEW i \in Invoice, NEW v \in Instalment \cup {Remaining(inv[i])},
               BeginRecord(l, i, v)
        PROVE  TypeOK'
    <3>1. v \in Nat
      BY <2>3, InvoicesAssumption DEF BeginRecord, MayRecord, Remaining, Row
    <3>2. inv[i].paid \in Nat /\ inv[i].total \in Nat
      BY DEF Row
    <3>3. [Idle EXCEPT !.op = "record", !.inv = i, !.paid = inv[i].paid,
                       !.total = inv[i].total, !.value = v] \in Request
      BY <3>1, <3>2 DEF Idle, Request, At, Op
    <3> QED BY <2>3, <3>3, <1>f DEF BeginRecord
  <2>m. \A i \in Invoice : Meeting(i) \subseteq Invoice
    BY DEF Meeting
  <2>4. ASSUME NEW i \in Invoice, NEW a \in Amount, NEW r \in Rate, BeginEdit(l, i, a, r)
        PROVE  TypeOK'
    <3>1. [Idle EXCEPT !.op = "edit", !.at = "clear", !.inv = i, !.value = a, !.rate = r]
            \in Request
      BY InvoicesAssumption DEF Idle, Request, At, Op
    <3> QED BY <2>4, <3>1, <2>m, <1>f DEF BeginEdit
  <2>5. ASSUME NEW i \in Invoice, NEW r \in Rate, BeginTax(l, i, r) PROVE TypeOK'
    <3>1. inv[i].amount \in Nat
      BY DEF Row
    <3>2. [Idle EXCEPT !.op = "tax", !.inv = i, !.value = inv[i].amount, !.rate = r]
            \in Request
      BY <3>1, InvoicesAssumption DEF Idle, Request, At, Op
    <3> QED BY <2>5, <3>2, <2>m, <1>f DEF BeginTax
  <2>6. ASSUME NEW i \in Invoice, NEW o \in Order, BeginPay(l, i, o) PROVE TypeOK'
    <3>1. [Idle EXCEPT !.op = "pay", !.inv = i, !.order = o] \in Request
      BY DEF Idle, Request, At, Op
    <3>2. inv[i].total \in Nat
      BY DEF Row
    <3> QED BY <2>6, <3>1, <3>2, <1>f DEF BeginPay
  <2>7. CASE EditClear(l)
    <3>1. [flight[l] EXCEPT !.at = "fill"] \in Request
      BY <1>r DEF Request, At
    <3>2. \A i \in Invoice : [inv[i] EXCEPT !.lines = 0] \in Row
      BY RowUpdates
    <3>3. inv' \in [Invoice -> Row]
      BY <2>7, <3>2 DEF EditClear
    <3> QED BY <2>7, <3>1, <3>3, <1>f DEF EditClear
  <2>8. CASE EditFill(l)
    <3>1. [flight[l] EXCEPT !.at = "write"] \in Request
      BY <1>r DEF Request, At
    <3>2. flight[l].value \in Nat
      BY <1>r DEF Request
    <3>3. \A i \in Invoice : [inv[i] EXCEPT !.lines = @ + flight[l].value] \in Row
      BY <3>2, RowUpdates
    <3>4. inv' \in [Invoice -> Row]
      BY <2>8, <3>3 DEF EditFill, Put
    <3> QED BY <2>8, <3>1, <3>4, <1>f DEF EditFill
  <2>9. CASE WriteRow(l)
    <3> DEFINE q == flight[l]
    <3>1. q \in Request /\ q.op \in Op \ {"remove"} /\ q.value \in Nat
      BY <2>9, <1>r DEF WriteRow, Request
    <3>2. \A i \in Invoice : Written(q, inv[i]) \in Row
      BY <3>1, WrittenType
    <3>3. inv' \in [Invoice -> Row]
      BY <2>9, <3>2 DEF WriteRow, Put
    <3>4. flight' \in [Login -> Request]
      BY <2>9, <1>f, <1>i DEF WriteRow
    <3>5. /\ orders' \in [Order -> [inv : Invoice \cup {None}, amount : Nat,
                                    state : {"none", "made", "open", "captured"}]]
          /\ hook' = hook /\ gone' = gone
      BY <2>9 DEF WriteRow
    <3>7. q.inv \in Invoice
      BY <3>1 DEF Addressed, Op
    <3>8. recorded[q.inv] + q.value \in Nat
      BY <3>1, <3>7
    <3>6. recorded' \in [Invoice -> Nat]
      BY <2>9, <3>8 DEF WriteRow
    <3>9. raced' \subseteq Invoice /\ late' \subseteq Invoice /\ torn' \subseteq Invoice
      BY <2>9, <3>7 DEF WriteRow
    <3> QED BY <3>3, <3>4, <3>5, <3>6, <3>9
  <2>10. CASE BeginRemove(l)
    <3>1. [Idle EXCEPT !.op = "remove"] \in Request
      BY DEF Idle, Request, At, Op
    <3> QED BY <2>10, <3>1, <1>f DEF BeginRemove
  <2>11. CASE Remove(l)
    <3>1. NoRow \in Row
      BY DEF NoRow, Row
    <3> QED BY <2>11, <3>1, <1>f, <1>i DEF Remove
  <2>12. CASE Fail(l)
    <3>1. flight[l].op = "edit" => flight[l].inv \in Invoice
      BY DEF Addressed
    <3> QED BY <2>12, <3>1, <1>f, <1>i DEF Fail
  <2> QED BY <1>1, <2>1, <2>2, <2>3, <2>4, <2>5, <2>6, <2>7, <2>8, <2>9, <2>10, <2>11, <2>12
          DEF LoginStep, Create, SendOffline, RecordOffline, InvoiceStatus
<1>2. ASSUME NEW o \in Order, GatewayStep(o) PROVE TypeOK'
  <2>1. CASE Capture(o)
    BY <2>1 DEF Capture
  <2>2. CASE HookRead(o)
    BY <2>2 DEF HookRead, OnFile
  <2>3. CASE HookWrite(o)
    <3>1. \A i \in Invoice : [inv[i] EXCEPT !.status = "paid"] \in Row
      BY RowUpdates
    <3>2. inv' \in [Invoice -> Row]
      BY <2>3, <3>1 DEF HookWrite
    <3> QED BY <2>3, <3>2 DEF HookWrite
  <2> QED BY <1>2, <2>1, <2>2, <2>3 DEF GatewayStep
<1>3. CASE UNCHANGED vars
  BY <1>3 DEF vars
<1> QED BY <1>1, <1>2, <1>3 DEF Next

(***************************************************************************)
(* Money.  Requests write what they computed from an earlier read, so the  *)
(* invariant says of every request, order and webhook call in flight what  *)
(* of its read is still true of the invoice.                               *)
(***************************************************************************)

\* A row that does not exist names no order and, while the project stands, nothing was
\* recorded on it; nothing is paid on a draft; a row's order was made for it.
RowSound(i) ==
  /\ ~Exists(i) => inv[i].order = None /\ (gone \/ recorded[i] = 0)
  /\ inv[i].status \in {"absent", "draft"} => inv[i].paid = 0
  /\ inv[i].order # None => orders[inv[i].order].inv = i
  /\ gone => ~Exists(i)

\* A request is about an invoice that exists, unless the project is gone.  A payment
\* being recorded fits the total it read, which is still the total unless a late edit
\* changed it.  An order being attached was made for the invoice and is not yet open.
RequestSound(q) ==
  /\ q.op \notin {"none", "remove"} => q.inv \in Invoice /\ (gone \/ Exists(q.inv))
  /\ q.op = "record" =>
       /\ q.paid + q.value <= q.total /\ q.paid <= recorded[q.inv]
       /\ inv[q.inv].status # "draft"
       /\ Exists(q.inv) /\ q.inv \notin late => inv[q.inv].total = q.total
  /\ q.op = "pay" =>
       q.order \in Order /\ orders[q.order].inv = q.inv /\ orders[q.order].state = "made"

\* No two requests attach the same order.
PayOnce ==
  \A l, m \in Login :
    flight[l].op = "pay" /\ flight[m].op = "pay" /\ flight[l].order = flight[m].order => l = m

\* An order is over the total of its invoice unless a late edit changed that, and the
\* webhook handles captured orders.
OrderSound(o) ==
  /\ orders[o].inv # None =>
       LET i == orders[o].inv IN
       /\ gone \/ Exists(i)
       /\ inv[i].status # "draft"
       /\ Exists(i) /\ i \notin late => orders[o].amount = inv[i].total
  /\ hook[o] # None => orders[o].state = "captured" /\ orders[o].inv = hook[o]

MoneyInv ==
  /\ TypeInv
  /\ \A i \in Invoice : RowSound(i)
  /\ LedgerSound
  /\ PaidBacked
  /\ \A l \in Login : RequestSound(flight[l])
  /\ PayOnce
  /\ \A o \in Order : OrderSound(o)

\* With no invoices the invariant holds.
LEMMA MoneyInit == Init => MoneyInv
<1> SUFFICES ASSUME Init PROVE MoneyInv
  OBVIOUS
<1>1. /\ \A i \in Invoice : inv[i] = NoRow /\ recorded[i] = 0
      /\ \A l \in Login : flight[l] = Idle
      /\ \A o \in Order : orders[o] = NoOrder /\ hook[o] = None
      /\ gone = FALSE
  BY DEF Init
<1>2. \A i \in Invoice : RowSound(i) /\ ~Exists(i)
  BY <1>1 DEF RowSound, Exists, NoRow
<1>3. \A l \in Login : RequestSound(flight[l])
  BY <1>1 DEF RequestSound, Idle
<1>4. PayOnce
  BY <1>1 DEF PayOnce, Idle
<1>5. \A o \in Order : OrderSound(o)
  BY <1>1 DEF OrderSound, NoOrder
<1>6. LedgerSound /\ PaidBacked
  BY <1>1, <1>2 DEF LedgerSound, PaidBacked, Exists, NoRow
<1> QED BY <1>2, <1>3, <1>4, <1>5, <1>6, TypeInit DEF MoneyInv

\* A step that leaves status, total, payments and order of every invoice alone, and
\* puts at most a request that is sound and attaches no order in flight.
LEMMA MoneyKept ==
  ASSUME MoneyInv, TypeOK', NEW l \in Login, NEW q \in Request, Serve(l, q),
         UNCHANGED <<orders, hook, gone, recorded, raced, late>>,
         \A i \in Invoice : /\ inv'[i].status = inv[i].status /\ inv'[i].total = inv[i].total
                            /\ inv'[i].paid = inv[i].paid /\ inv'[i].order = inv[i].order,
         RequestSound(q), q.op # "pay"
  PROVE  MoneyInv'
<1> USE DEF MoneyInv, TypeInv, TypeOK
<1>1. /\ flight'[l] = q
      /\ \A m \in Login : m # l => flight'[m] = flight[m]
  BY DEF Serve
<1>3. \A m \in Login : RequestSound(flight'[m]) /\ RequestSound(flight[m])
  BY <1>1
<1>4. (\A m \in Login : RequestSound(flight[m]))'
  BY <1>3 DEF RequestSound, Exists
<1>5. PayOnce'
  BY <1>1 DEF PayOnce
<1>6. (\A o \in Order : OrderSound(o))'
  BY DEF OrderSound, Exists
<1>7. (\A i \in Invoice : RowSound(i))'
  BY DEF RowSound, Exists
<1>8. LedgerSound' /\ PaidBacked'
  BY DEF LedgerSound, PaidBacked, Captured, Exists
<1>9. Addressed'
  BY <1>4 DEF RequestSound, Addressed
<1> QED BY <1>4, <1>5, <1>6, <1>7, <1>8, <1>9

\* A step that ends requests and webhook calls and gives an invoice that exists another
\* status: sent, cancelled, or paid with the total behind it.
LEMMA StatusMoves ==
  ASSUME MoneyInv, TypeOK', NEW i \in Invoice, Exists(i),
         NEW s \in {"sent", "cancelled", "paid"}, inv' = [inv EXCEPT ![i].status = s],
         UNCHANGED <<orders, gone, recorded, raced>>, late \subseteq late',
         \A m \in Login : flight'[m] \in {flight[m], Idle},
         \A o \in Order : hook'[o] \in {hook[o], None},
         s = "paid" /\ i \notin late =>
           \/ recorded[i] >= inv[i].total
           \/ \E o \in Captured(i) : orders[o].amount >= inv[i].total
  PROVE  MoneyInv'
<1> USE DEF MoneyInv, TypeInv, TypeOK
<1>1. /\ \A j \in Invoice : j # i => inv'[j] = inv[j]
      /\ inv'[i].status = s /\ inv'[i].total = inv[i].total
      /\ inv'[i].paid = inv[i].paid /\ inv'[i].order = inv[i].order
  BY DEF Row
<1>2. \A j \in Invoice : Exists(j)' <=> Exists(j)
  BY <1>1 DEF Exists
<1>3. (\A m \in Login : RequestSound(flight[m]))'
  <2> SUFFICES ASSUME NEW m \in Login PROVE RequestSound(flight[m])'
    OBVIOUS
  <2>1. CASE flight'[m] = Idle
    BY <2>1 DEF RequestSound, Idle
  <2>2. CASE flight'[m] = flight[m]
    BY <2>2, <1>1, <1>2 DEF RequestSound
  <2> QED BY <2>1, <2>2
<1>4. PayOnce'
  BY DEF PayOnce, Idle
<1>5. (\A o \in Order : OrderSound(o))'
  BY <1>1, <1>2 DEF OrderSound
<1>6. (\A j \in Invoice : RowSound(j))'
  BY <1>1, <1>2 DEF RowSound
<1>7. LedgerSound'
  BY <1>1, <1>2 DEF LedgerSound
<1>8. PaidBacked'
  BY <1>1 DEF PaidBacked, Captured
<1>9. Addressed'
  BY <1>3 DEF RequestSound, Addressed
<1> QED BY <1>3, <1>4, <1>5, <1>6, <1>7, <1>8, <1>9

\* Recording a payment: the sum written is at most what was recorded, fits the total
\* that was read, and settles the invoice only if it is the whole of it.
LEMMA RecordKeeps ==
  ASSUME MoneyInv, TypeOK', NEW l \in Login, WriteRow(l), flight[l].op = "record"
  PROVE  MoneyInv'
<1> USE DEF MoneyInv, TypeInv, TypeOK
<1> DEFINE q == flight[l]
           i == q.inv
<1>0. RequestSound(q) /\ q \in Request
  OBVIOUS
<1>1. /\ i \in Invoice /\ Exists(i) /\ inv[i].status # "draft" /\ ~gone
      /\ q.paid + q.value <= q.total /\ q.paid <= recorded[i]
      /\ i \notin late => inv[i].total = q.total
      /\ q.paid \in Nat /\ q.value \in Nat /\ q.total \in Nat
  BY <1>0 DEF WriteRow, RequestSound, RowSound, Request
<1>2. /\ inv' = [inv EXCEPT ![i] = Written(q, inv[i])]
      /\ recorded' = [recorded EXCEPT ![i] = recorded[i] + q.value]
      /\ raced' = IF inv[i].paid # q.paid THEN raced \cup {i} ELSE raced
      /\ UNCHANGED <<orders, hook, gone, late, torn>>
      /\ flight' = [flight EXCEPT ![l] = Idle]
  BY DEF WriteRow, Put, Serve
<1>3. /\ \A j \in Invoice : j # i => inv'[j] = inv[j] /\ recorded'[j] = recorded[j]
      /\ inv'[i].paid = q.paid + q.value
      /\ inv'[i].status = IF q.paid + q.value >= q.total THEN "paid" ELSE inv[i].status
      /\ inv'[i].total = inv[i].total /\ inv'[i].order = inv[i].order
      /\ recorded'[i] = recorded[i] + q.value
  BY <1>1, <1>2 DEF Row, Written, NewPaid, AfterPayment
<1>4. \A m \in Login : flight'[m] \in {flight[m], Idle}
  BY <1>2
<1>5. /\ \A j \in Invoice : Exists(j)' <=> Exists(j)
      /\ \A j \in Invoice : recorded[j] \in Nat /\ recorded'[j] >= recorded[j]
  BY <1>1, <1>3 DEF Exists
<1> HIDE DEF q, i
<1>6. (\A m \in Login : RequestSound(flight[m]))'
  <2> SUFFICES ASSUME NEW m \in Login PROVE RequestSound(flight[m])'
    OBVIOUS
  <2>1. CASE flight'[m] = Idle
    BY <2>1 DEF RequestSound, Idle
  <2>2. CASE flight'[m] = flight[m]
    <3>1. RequestSound(flight[m]) /\ flight[m] \in Request
      OBVIOUS
    <3> QED BY <2>2, <3>1, <1>1, <1>2, <1>3, <1>5 DEF RequestSound, Request
  <2> QED BY <1>4, <2>1, <2>2
<1>7. PayOnce'
  BY <1>4 DEF PayOnce, Idle
<1>8. (\A o \in Order : OrderSound(o))'
  BY <1>1, <1>2, <1>3, <1>5 DEF OrderSound
<1>9. (\A j \in Invoice : RowSound(j))'
  BY <1>1, <1>2, <1>3, <1>5 DEF RowSound, Exists
<1>10. LedgerSound'
  <2> SUFFICES ASSUME NEW j \in Invoice, Exists(j)'
               PROVE  /\ inv'[j].paid <= recorded'[j]
                      /\ j \notin raced' => inv'[j].paid = recorded'[j]
                      /\ j \notin late' => inv'[j].paid <= inv'[j].total
    BY DEF LedgerSound
  <2>1. CASE j # i
    BY <2>1, <1>2, <1>3, <1>5 DEF LedgerSound
  <2>2. CASE j = i
    BY <2>2, <1>1, <1>2, <1>3, <1>5 DEF LedgerSound
  <2> QED BY <2>1, <2>2
<1>11. PaidBacked'
  <2> SUFFICES ASSUME NEW j \in Invoice, inv'[j].status = "paid", j \notin late'
               PROVE  \/ recorded'[j] >= inv'[j].total
                      \/ \E o \in Captured(j)' : orders'[o].amount >= inv'[j].total
    BY DEF PaidBacked
  <2>n. inv[j].total \in Nat /\ inv'[j].total = inv[j].total
    BY <1>3 DEF Row
  <2>1. CASE inv[j].status = "paid"
    BY <2>1, <2>n, <1>2, <1>5 DEF PaidBacked, Captured
  <2>2. CASE inv[j].status # "paid"
    BY <2>2, <2>n, <1>1, <1>2, <1>3, <1>5
  <2> QED BY <2>1, <2>2
<1>12. Addressed'
  BY <1>6 DEF RequestSound, Addressed
<1> QED BY <1>6, <1>7, <1>8, <1>9, <1>10, <1>11, <1>12

\* An edit changes the total of a draft, on which nothing was paid or ordered, or is
\* late.
LEMMA EditKeeps ==
  ASSUME MoneyInv, TypeOK', NEW l \in Login, WriteRow(l), flight[l].op \in {"edit", "tax"}
  PROVE  MoneyInv'
<1> USE DEF MoneyInv, TypeInv, TypeOK
<1> DEFINE i == flight[l].inv
<1>1. i \in Invoice /\ Exists(i) /\ ~gone
  BY DEF WriteRow, RequestSound, RowSound
<1>2. /\ inv' = [inv EXCEPT ![i] = Written(flight[l], inv[i])]
      /\ UNCHANGED <<orders, hook, gone, recorded, raced, torn>>
      /\ late' = IF inv[i].status # "draft" THEN late \cup {i} ELSE late
      /\ flight' = [flight EXCEPT ![l] = Idle]
  BY DEF WriteRow, Put, Serve
<1>3. /\ \A j \in Invoice : j # i => inv'[j] = inv[j]
      /\ inv'[i].status = inv[i].status
      /\ inv'[i].paid = inv[i].paid /\ inv'[i].order = inv[i].order
  <2>1. inv[i] \in Row
    BY <1>1
  <2>2. LET w == Written(flight[l], inv[i]) IN
        w.status = inv[i].status /\ w.paid = inv[i].paid /\ w.order = inv[i].order
    <3> DEFINE t == flight[l].value + Tax(flight[l].value, flight[l].rate)
    <3> HIDE DEF t
    <3> QED BY <2>1 DEF Row, Written, t
  <2>3. inv'[i] = Written(flight[l], inv[i]) /\ \A j \in Invoice : j # i => inv'[j] = inv[j]
    BY <1>1, <1>2
  <2> QED BY <2>2, <2>3
<1>4. \A m \in Login : flight'[m] \in {flight[m], Idle}
  BY <1>2
<1>5. \A j \in Invoice : Exists(j)' <=> Exists(j)
  BY <1>3 DEF Exists
<1>6. i \in late' \/ inv[i].status = "draft"
  BY <1>2
<1> HIDE DEF i
<1>7. (\A m \in Login : RequestSound(flight[m]))'
  <2> SUFFICES ASSUME NEW m \in Login PROVE RequestSound(flight[m])'
    OBVIOUS
  <2>1. CASE flight'[m] = Idle
    BY <2>1 DEF RequestSound, Idle
  <2>2. CASE flight'[m] = flight[m]
    <3>1. RequestSound(flight[m])
      OBVIOUS
    <3> QED BY <2>2, <3>1, <1>1, <1>2, <1>3, <1>5, <1>6 DEF RequestSound
  <2> QED BY <1>4, <2>1, <2>2
<1>8. PayOnce'
  BY <1>4 DEF PayOnce, Idle
<1>9. (\A o \in Order : OrderSound(o))'
  BY <1>1, <1>2, <1>3, <1>5, <1>6 DEF OrderSound
<1>10. (\A j \in Invoice : RowSound(j))'
  BY <1>2, <1>3, <1>5 DEF RowSound
<1>11. LedgerSound'
  <2>1. inv'[i].total \in Nat
    BY <1>1 DEF Row
  <2> QED BY <2>1, <1>1, <1>2, <1>3, <1>5, <1>6 DEF LedgerSound, RowSound
<1>12. PaidBacked'
  BY <1>1, <1>2, <1>3, <1>6 DEF PaidBacked, Captured
<1>13. Addressed'
  BY <1>7 DEF RequestSound, Addressed
<1> QED BY <1>7, <1>8, <1>9, <1>10, <1>11, <1>12, <1>13

\* Attaching an order: the order opens, and no other request attaches it.
LEMMA PayKeeps ==
  ASSUME MoneyInv, TypeOK', NEW l \in Login, WriteRow(l), flight[l].op = "pay"
  PROVE  MoneyInv'
<1> USE DEF MoneyInv, TypeInv, TypeOK
<1> DEFINE i == flight[l].inv
           o == flight[l].order
<1>1. /\ i \in Invoice /\ Exists(i) /\ o \in Order
      /\ orders[o].inv = i /\ orders[o].state = "made"
  BY DEF WriteRow, RequestSound
<1>2. /\ inv' = [inv EXCEPT ![i] = Written(flight[l], inv[i])]
      /\ orders' = [orders EXCEPT ![o].state = "open"]
      /\ UNCHANGED <<hook, gone, recorded, raced, late, torn>>
      /\ flight' = [flight EXCEPT ![l] = Idle]
  BY DEF WriteRow, Put, Serve
<1>3. /\ \A j \in Invoice : j # i => inv'[j] = inv[j]
      /\ inv'[i].status = inv[i].status /\ inv'[i].paid = inv[i].paid
      /\ inv'[i].total = inv[i].total /\ inv'[i].order = o
  BY <1>1, <1>2 DEF Row, Written
<1>4. /\ \A p \in Order : p # o => orders'[p] = orders[p]
      /\ orders'[o].inv = i /\ orders'[o].amount = orders[o].amount
      /\ orders'[o].state = "open"
  BY <1>1, <1>2
<1>5. \A m \in Login : m # l /\ flight[m].op = "pay" => flight[m].order # o
  BY DEF PayOnce
<1>6. /\ flight'[l] = Idle
      /\ \A m \in Login : m # l => flight'[m] = flight[m]
  BY <1>2
<1>7. \A j \in Invoice : Exists(j)' <=> Exists(j)
  BY <1>3 DEF Exists
<1> HIDE DEF i, o
<1>8. (\A m \in Login : RequestSound(flight[m]))'
  <2> SUFFICES ASSUME NEW m \in Login PROVE RequestSound(flight[m])'
    OBVIOUS
  <2>1. CASE m = l
    BY <2>1, <1>6 DEF RequestSound, Idle
  <2>2. CASE m # l
    <3>1. RequestSound(flight[m]) /\ flight'[m] = flight[m]
      BY <2>2, <1>6
    <3> QED BY <2>2, <3>1, <1>1, <1>2, <1>3, <1>4, <1>5, <1>7 DEF RequestSound
  <2> QED BY <2>1, <2>2
<1>9. PayOnce'
  BY <1>6 DEF PayOnce, Idle
<1>10. (\A p \in Order : OrderSound(p))'
  BY <1>1, <1>2, <1>3, <1>4, <1>7 DEF OrderSound
<1>11. (\A j \in Invoice : RowSound(j))'
  <2> SUFFICES ASSUME NEW j \in Invoice PROVE RowSound(j)'
    OBVIOUS
  <2>1. \A p \in Order : orders'[p].inv = orders[p].inv
    BY <1>1, <1>4
  <2>2. inv[j] \in Row /\ RowSound(j)
    OBVIOUS
  <2>3. CASE j = i
    BY <2>1, <2>2, <2>3, <1>1, <1>2, <1>3, <1>4, <1>7 DEF RowSound, Row
  <2>4. CASE j # i
    BY <2>1, <2>2, <2>4, <1>2, <1>3, <1>7 DEF RowSound, Row
  <2> QED BY <2>3, <2>4
<1>12. LedgerSound'
  BY <1>2, <1>3, <1>7 DEF LedgerSound
<1>13. PaidBacked'
  <2>1. \A j \in Invoice : \A p \in Captured(j) :
          p \in Captured(j)' /\ orders'[p].amount = orders[p].amount
    BY <1>1, <1>4 DEF Captured
  <2>2. \A j \in Invoice : inv'[j].status = inv[j].status /\ inv'[j].total = inv[j].total
    BY <1>3
  <2> QED BY <2>1, <2>2, <1>2 DEF PaidBacked
<1>14. Addressed'
  BY <1>8 DEF RequestSound, Addressed
<1> QED BY <1>8, <1>9, <1>10, <1>11, <1>12, <1>13, <1>14

\* Whatever a request writes, the invariant survives.
LEMMA WriteKeeps ==
  ASSUME MoneyInv, TypeOK', NEW l \in Login, WriteRow(l)
  PROVE  MoneyInv'
<1> DEFINE q == flight[l]
           i == q.inv
<1>0. /\ q \in Request /\ q.op \in Op \ {"remove"} /\ i \in Invoice /\ Exists(i)
      /\ inv[i] \in Row /\ Idle \in Request
  BY DEF MoneyInv, TypeInv, TypeOK, Addressed, WriteRow, Request, Idle, At
<1>1. /\ inv' = [inv EXCEPT ![i] = Written(q, inv[i])]
      /\ UNCHANGED <<hook, gone, torn>>
      /\ flight' = [flight EXCEPT ![l] = Idle] /\ Serve(l, Idle)
      /\ q.op # "record" => UNCHANGED <<recorded, raced>>
      /\ q.op # "pay" => UNCHANGED orders
      /\ late \subseteq late'
      /\ q.op \notin {"send", "edit", "tax"} => late' = late
  BY DEF WriteRow, Put, Serve
<1>2. /\ \A m \in Login : flight'[m] \in {flight[m], Idle}
      /\ \A o \in Order : hook'[o] \in {hook[o], None}
  BY <1>1 DEF MoneyInv, TypeInv, TypeOK
<1>3. CASE q.op = "send"
  <2>1. inv' = [inv EXCEPT ![i].status = "sent"]
    BY <1>0, <1>1, <1>3 DEF Written, MoneyInv, TypeInv, TypeOK
  <2> QED BY <2>1, <1>0, <1>1, <1>2, <1>3, StatusMoves
<1>4. CASE q.op \in {"cancel", "decline"}
  <2>1. inv' = [inv EXCEPT ![i].status = "cancelled"]
    BY <1>0, <1>1, <1>4 DEF Written, MoneyInv, TypeInv, TypeOK
  <2> QED BY <2>1, <1>0, <1>1, <1>2, <1>4, StatusMoves
<1>5. CASE q.op = "record"
  BY <1>5, RecordKeeps
<1>6. CASE q.op \in {"edit", "tax"}
  BY <1>6, EditKeeps
<1>7. CASE q.op = "pay"
  BY <1>7, PayKeeps
<1>8. CASE q.op \in {"file", "unfile"}
  <2>1. \A j \in Invoice : /\ inv'[j].status = inv[j].status /\ inv'[j].total = inv[j].total
                           /\ inv'[j].paid = inv[j].paid /\ inv'[j].order = inv[j].order
    BY <1>0, <1>1, <1>8 DEF Written, MoneyInv, TypeInv, TypeOK, Row
  <2>2. RequestSound(Idle) /\ Idle.op # "pay"
    BY DEF RequestSound, Idle
  <2> QED BY <2>1, <2>2, <1>0, <1>1, <1>8, MoneyKept
<1> QED BY <1>0, <1>3, <1>4, <1>5, <1>6, <1>7, <1>8 DEF Op

\* A new invoice: nothing is recorded on it, ordered for it or in flight about it.
LEMMA NewKeeps ==
  ASSUME MoneyInv, TypeOK', NEW i \in Invoice, NEW l \in Login, NEW s \in {"draft", "sent"},
         NEW a, NEW r, NewInvoice(i, l, s, a, r)
  PROVE  MoneyInv'
<1> USE DEF MoneyInv, TypeInv, TypeOK
<1>1. /\ UNCHANGED <<flight, orders, hook, gone, recorded, raced, late, torn>>
      /\ ~gone /\ ~Exists(i) /\ recorded[i] = 0
      /\ \A j \in Invoice : j # i => inv'[j] = inv[j]
      /\ inv'[i].status = s /\ inv'[i].paid = 0 /\ inv'[i].order = None
      /\ inv'[i].total \in Nat
  BY DEF NewInvoice, Put, NoRow, RowSound, Row
<1>2. \A m \in Login : flight[m].op \notin {"none", "remove"} => flight[m].inv # i
  BY <1>1 DEF RequestSound
<1>3. \A o \in Order : orders[o].inv # i
  BY <1>1, InvoicesAssumption DEF OrderSound
<1>4. (\A m \in Login : RequestSound(flight[m]))'
  BY <1>1, <1>2 DEF RequestSound, Exists
<1>5. PayOnce' /\ Addressed'
  BY <1>1 DEF PayOnce, Addressed
<1>6. (\A o \in Order : OrderSound(o))'
  BY <1>1, <1>3 DEF OrderSound, Exists
<1>7. (\A j \in Invoice : RowSound(j))'
  BY <1>1 DEF RowSound, Exists
<1>8. LedgerSound' /\ PaidBacked'
  BY <1>1 DEF LedgerSound, PaidBacked, Captured, Exists
<1> QED BY <1>4, <1>5, <1>6, <1>7, <1>8

\* Asking the gateway for an order over the total that was read.
LEMMA BeginPayKeeps ==
  ASSUME MoneyInv, TypeOK', NEW l \in Login, NEW i \in Invoice, NEW o \in Order,
         BeginPay(l, i, o)
  PROVE  MoneyInv'
<1> USE DEF MoneyInv, TypeInv, TypeOK
<1>1. /\ UNCHANGED <<inv, hook, gone, recorded, raced, late, torn>>
      /\ Exists(i) /\ inv[i].status = "sent" /\ orders[o].inv = None
      /\ orders[o].state = "none"
      /\ orders' = [orders EXCEPT ![o] = [inv |-> i, amount |-> inv[i].total, state |-> "made"]]
      /\ flight' = [flight EXCEPT ![l] = [Idle EXCEPT !.op = "pay", !.inv = i, !.order = o]]
  BY DEF BeginPay, MayPay, Receives, Exists, NoOrder, Serve
<1>2. /\ \A p \in Order : p # o => orders'[p] = orders[p]
      /\ orders'[o].inv = i /\ orders'[o].amount = inv[i].total /\ orders'[o].state = "made"
      /\ \A m \in Login : m # l => flight'[m] = flight[m]
      /\ flight'[l].op = "pay" /\ flight'[l].inv = i /\ flight'[l].order = o
  BY <1>1 DEF Idle
<1>3. \A m \in Login : flight[m].op = "pay" => flight[m].order # o
  BY <1>1 DEF RequestSound
<1>4. \A j \in Invoice : inv[j].order # o
  BY <1>1, InvoicesAssumption DEF RowSound
<1>5. hook[o] = None
  BY <1>1 DEF OrderSound
<1>6. (\A m \in Login : RequestSound(flight[m]))'
  BY <1>1, <1>2, <1>3 DEF RequestSound, Exists
<1>7. PayOnce'
  BY <1>2, <1>3 DEF PayOnce
<1>8. (\A p \in Order : OrderSound(p))'
  BY <1>1, <1>2, <1>5 DEF OrderSound, Exists
<1>9. (\A j \in Invoice : RowSound(j))'
  BY <1>1, <1>2, <1>4 DEF RowSound, Exists, Row
<1>10. LedgerSound' /\ PaidBacked'
  <2>1. \A j \in Invoice : Captured(j) \subseteq Captured(j)'
    BY <1>1, <1>2 DEF Captured
  <2>2. \A j \in Invoice : \A p \in Captured(j) : orders'[p].amount = orders[p].amount
    BY <1>1, <1>2 DEF Captured
  <2> QED BY <2>1, <2>2, <1>1 DEF LedgerSound, PaidBacked, Exists
<1>11. Addressed'
  BY <1>6 DEF RequestSound, Addressed
<1> QED BY <1>6, <1>7, <1>8, <1>9, <1>10, <1>11

\* Deleting the project takes every invoice, whatever is in flight.
LEMMA RemoveKeeps ==
  ASSUME MoneyInv, TypeOK', NEW l \in Login, Remove(l)
  PROVE  MoneyInv'
<1> USE DEF MoneyInv, TypeInv, TypeOK
<1>1. /\ UNCHANGED <<orders, hook, recorded, raced, late, torn>> /\ gone'
      /\ flight' = [flight EXCEPT ![l] = Idle]
      /\ \A i \in Invoice : inv'[i] = NoRow /\ ~Exists(i)'
  BY DEF Remove, Serve, Exists, NoRow
<1>2. (\A m \in Login : RequestSound(flight[m]))'
  <2> SUFFICES ASSUME NEW m \in Login PROVE RequestSound(flight[m])'
    OBVIOUS
  <2>1. CASE m = l
    BY <2>1, <1>1 DEF RequestSound, Idle
  <2>2. CASE m # l
    BY <2>2, <1>1 DEF RequestSound, NoRow
  <2> QED BY <2>1, <2>2
<1>3. PayOnce'
  BY <1>1 DEF PayOnce, Idle
<1>4. (\A o \in Order : OrderSound(o))'
  BY <1>1 DEF OrderSound, NoRow
<1>5. (\A i \in Invoice : RowSound(i))'
  BY <1>1 DEF RowSound, NoRow
<1>6. LedgerSound' /\ PaidBacked'
  BY <1>1 DEF LedgerSound, PaidBacked, NoRow
<1>7. Addressed'
  BY <1>2 DEF RequestSound, Addressed
<1> QED BY <1>2, <1>3, <1>4, <1>5, <1>6, <1>7

\* The gateway and the webhook.
LEMMA GatewayKeeps ==
  ASSUME MoneyInv, TypeOK', NEW o \in Order, GatewayStep(o)
  PROVE  MoneyInv'
<1> USE DEF MoneyInv, TypeInv, TypeOK
<1>1. CASE Capture(o)
  <2>1. /\ UNCHANGED <<inv, flight, hook, gone, recorded, raced, late, torn>>
        /\ orders[o].state = "open"
        /\ \A p \in Order : /\ orders'[p].inv = orders[p].inv
                            /\ orders'[p].amount = orders[p].amount
                            /\ p # o => orders'[p].state = orders[p].state
        /\ orders'[o].state = "captured"
    BY <1>1 DEF Capture
  <2>2. (\A m \in Login : RequestSound(flight[m]))'
    <3> SUFFICES ASSUME NEW m \in Login PROVE RequestSound(flight[m])'
      OBVIOUS
    <3>1. RequestSound(flight[m]) /\ flight'[m] = flight[m]
      BY <2>1
    <3>2. flight[m].op = "pay" => flight[m].order # o
      BY <2>1, <3>1 DEF RequestSound
    <3> QED BY <2>1, <3>1, <3>2 DEF RequestSound, Exists
  <2>3. PayOnce' /\ Addressed'
    BY <2>1 DEF PayOnce, Addressed
  <2>4. (\A p \in Order : OrderSound(p))'
    BY <2>1 DEF OrderSound, Exists
  <2>5. (\A i \in Invoice : RowSound(i))'
    BY <2>1 DEF RowSound, Exists, Row
  <2>6. \A j \in Invoice : \A p \in Captured(j) :
          p \in Captured(j)' /\ orders'[p].amount = orders[p].amount
    BY <2>1 DEF Captured
  <2>7. LedgerSound' /\ PaidBacked'
    BY <2>1, <2>6 DEF LedgerSound, PaidBacked, Exists
  <2> QED BY <2>2, <2>3, <2>4, <2>5, <2>7
<1>2. CASE HookRead(o)
  <2>1. PICK i \in OnFile(o) : hook' = [hook EXCEPT ![o] = i]
    BY <1>2 DEF HookRead
  <2>2. /\ UNCHANGED <<inv, flight, orders, gone, recorded, raced, late, torn>>
        /\ orders[o].state = "captured" /\ orders[o].inv = i
    BY <1>2, <2>1, InvoicesAssumption DEF HookRead, OnFile, RowSound
  <2>3. (\A m \in Login : RequestSound(flight[m]))'
    BY <2>2 DEF RequestSound, Exists
  <2>4. PayOnce' /\ Addressed'
    BY <2>2 DEF PayOnce, Addressed
  <2>5. (\A p \in Order : OrderSound(p))'
    BY <2>1, <2>2 DEF OrderSound, Exists
  <2>6. (\A j \in Invoice : RowSound(j))'
    BY <2>2 DEF RowSound, Exists
  <2>7. LedgerSound' /\ PaidBacked'
    BY <2>2 DEF LedgerSound, PaidBacked, Captured, Exists
  <2> QED BY <2>3, <2>4, <2>5, <2>6, <2>7
<1>3. CASE HookWrite(o)
  <2> DEFINE i == hook[o]
  <2>1. /\ i \in Invoice /\ orders[o].state = "captured" /\ orders[o].inv = i
        /\ \A p \in Order : hook'[p] \in {hook[p], None}
        /\ UNCHANGED <<flight, orders, gone, recorded, raced, late, torn>>
    BY <1>3 DEF HookWrite, OrderSound
  <2>2. CASE Exists(i)
    <3>1. inv' = [inv EXCEPT ![i].status = "paid"]
      BY <1>3, <2>2 DEF HookWrite
    <3>2. i \notin late => \E p \in Captured(i) : orders[p].amount >= inv[i].total
      <4>1. i \notin late => orders[o].amount = inv[i].total
        BY <2>1, <2>2, InvoicesAssumption DEF OrderSound
      <4>2. o \in Captured(i) /\ orders[o].amount \in Nat
        BY <2>1 DEF Captured
      <4> QED BY <4>1, <4>2
    <3> HIDE DEF i
    <3> QED BY <3>1, <3>2, <2>1, <2>2, StatusMoves
  <2>3. CASE ~Exists(i)
    <3>1. UNCHANGED <<inv, flight, orders, gone, recorded, raced, late, torn>>
      BY <1>3, <2>1, <2>3 DEF HookWrite
    <3>2. (\A m \in Login : RequestSound(flight[m]))'
      BY <3>1 DEF RequestSound, Exists
    <3>3. PayOnce' /\ Addressed'
      BY <3>1 DEF PayOnce, Addressed
    <3>4. (\A p \in Order : OrderSound(p))'
      BY <3>1, <2>1 DEF OrderSound, Exists
    <3>5. (\A j \in Invoice : RowSound(j))'
      BY <3>1 DEF RowSound, Exists
    <3>6. LedgerSound' /\ PaidBacked'
      BY <3>1 DEF LedgerSound, PaidBacked, Captured, Exists
    <3> QED BY <3>2, <3>3, <3>4, <3>5, <3>6
  <2> QED BY <2>2, <2>3
<1> QED BY <1>1, <1>2, <1>3 DEF GatewayStep

\* Every step preserves the invariant.
LEMMA MoneyStep == MoneyInv /\ [Next]_vars => MoneyInv'
<1> SUFFICES ASSUME MoneyInv, [Next]_vars PROVE MoneyInv'
  OBVIOUS
<1>t. TypeOK'
  BY TypeStep DEF MoneyInv
<1>k. ASSUME NEW l \in Login, NEW q \in Request, Serve(l, q), RequestSound(q), q.op # "pay",
             UNCHANGED <<inv, orders, hook, gone, recorded, raced, late>>
      PROVE  MoneyInv'
  BY <1>k, <1>t, MoneyKept
<1>1. ASSUME NEW l \in Login, LoginStep(l) PROVE MoneyInv'
  <2>q. flight'[l] \in Request /\ flight[l] \in Request /\ Idle \in Request
    BY <1>t DEF MoneyInv, TypeInv, TypeOK, Idle, Request, At
  <2>a. \A q \in Request : Serve(l, q) => flight'[l] = q
    BY DEF Serve, MoneyInv, TypeInv, TypeOK
  <2>i. RequestSound(Idle) /\ Idle.op # "pay"
    BY DEF RequestSound, Idle
  <2>1. ASSUME NEW i \in Invoice, NEW a \in Amount, NEW r \in Rate,
               Create(l, i, a, r) \/ SendOffline(l, i, a, r) \/ RecordOffline(l, i, a, r)
        PROVE  MoneyInv'
    BY <2>1, <1>t, NewKeeps DEF Create, SendOffline, RecordOffline
  <2>2. ASSUME NEW op \in Op, NEW i \in Invoice, Begin(l, op, i) PROVE MoneyInv'
    <3> DEFINE q == [Idle EXCEPT !.op = op, !.inv = i]
    <3>1. q \in Request /\ q.op = op /\ q.inv = i
      BY DEF Idle, Request, At
    <3>2. op \in {"send", "cancel", "decline", "file", "unfile"} /\ Exists(i)
      BY <2>2 DEF Begin, Allowed, MaySend, MayCancel, MayDecline, MayFile, MayUnfile, Issues,
                  Receives, Exists
    <3> HIDE DEF q
    <3>3. RequestSound(q) /\ q.op # "pay"
      BY <3>1, <3>2 DEF RequestSound
    <3> QED BY <2>2, <3>1, <3>3, <1>k DEF Begin, q
  <2>3. ASSUME NEW i \in Invoice, NEW v \in Instalment \cup {Remaining(inv[i])},
               BeginRecord(l, i, v)
        PROVE  MoneyInv'
    <3> DEFINE q == [Idle EXCEPT !.op = "record", !.inv = i, !.paid = inv[i].paid,
                                 !.total = inv[i].total, !.value = v]
    <3>1. /\ q.op = "record" /\ q.inv = i /\ q.paid = inv[i].paid
          /\ q.total = inv[i].total /\ q.value = v
      BY DEF Idle
    <3>2. /\ inv[i].paid \in Nat /\ inv[i].total \in Nat /\ recorded[i] \in Nat
          /\ Remaining(inv[i]) = inv[i].total - inv[i].paid
      BY DEF MoneyInv, TypeInv, TypeOK, Row, Remaining
    <3>3. v \in Nat
      BY <2>3, <3>2, InvoicesAssumption DEF BeginRecord, MayRecord
    <3>4. q \in Request
      BY <3>2, <3>3 DEF Idle, Request, At, Op
    <3>5. Exists(i) /\ inv[i].status = "sent" /\ inv[i].paid + v <= inv[i].total
      BY <2>3, <3>2, <3>3 DEF BeginRecord, MayRecord, Receives, Exists
    <3>6. inv[i].paid <= recorded[i]
      BY <3>5 DEF MoneyInv, LedgerSound
    <3>7. Serve(l, q) /\ UNCHANGED <<inv, orders, hook, gone, recorded, raced, late>>
      BY <2>3 DEF BeginRecord
    <3> HIDE DEF q
    <3>8. RequestSound(q) /\ q.op # "pay"
      BY <3>1, <3>5, <3>6 DEF RequestSound
    <3> QED BY <3>4, <3>7, <3>8, <1>k
  <2>4. ASSUME NEW i \in Invoice, NEW a \in Amount, NEW r \in Rate, BeginEdit(l, i, a, r)
        PROVE  MoneyInv'
    <3> DEFINE q == [Idle EXCEPT !.op = "edit", !.at = "clear", !.inv = i, !.value = a,
                                 !.rate = r]
    <3>1. q.op = "edit" /\ q.inv = i /\ q \in Request
      BY InvoicesAssumption DEF Idle, Request, At, Op
    <3>2. Exists(i)
      BY <2>4 DEF BeginEdit, MayEdit, Issues, Exists
    <3>3. Serve(l, q) /\ UNCHANGED <<inv, orders, hook, gone, recorded, raced, late>>
      BY <2>4 DEF BeginEdit
    <3> HIDE DEF q
    <3>4. RequestSound(q) /\ q.op # "pay"
      BY <3>1, <3>2 DEF RequestSound
    <3> QED BY <3>1, <3>3, <3>4, <1>k
  <2>5. ASSUME NEW i \in Invoice, NEW r \in Rate, BeginTax(l, i, r) PROVE MoneyInv'
    <3> DEFINE q == [Idle EXCEPT !.op = "tax", !.inv = i, !.value = inv[i].amount, !.rate = r]
    <3>1. q.op = "tax" /\ q.inv = i
      BY DEF Idle
    <3>2. q \in Request
      BY InvoicesAssumption DEF Idle, Request, At, Op, MoneyInv, TypeInv, TypeOK, Row
    <3>3. Exists(i)
      BY <2>5 DEF BeginTax, MayEdit, Issues, Exists
    <3>4. Serve(l, q) /\ UNCHANGED <<inv, orders, hook, gone, recorded, raced, late>>
      BY <2>5 DEF BeginTax
    <3> HIDE DEF q
    <3>5. RequestSound(q) /\ q.op # "pay"
      BY <3>1, <3>3 DEF RequestSound
    <3> QED BY <3>2, <3>4, <3>5, <1>k
  <2>6. ASSUME NEW i \in Invoice, NEW o \in Order, BeginPay(l, i, o) PROVE MoneyInv'
    BY <2>6, <1>t, BeginPayKeeps
  <2>e. ASSUME NEW s \in At, flight[l].op = "edit", Serve(l, [flight[l] EXCEPT !.at = s]),
               UNCHANGED <<orders, hook, gone, recorded, raced, late>>,
               \A j \in Invoice :
                 /\ inv'[j].status = inv[j].status /\ inv'[j].total = inv[j].total
                 /\ inv'[j].paid = inv[j].paid /\ inv'[j].order = inv[j].order
        PROVE  MoneyInv'
    <3> DEFINE q == [flight[l] EXCEPT !.at = s]
    <3>1. q \in Request /\ q.op = "edit" /\ q.inv = flight[l].inv
      BY <2>e, <2>q DEF Request
    <3> HIDE DEF q
    <3>2. RequestSound(q) /\ q.op # "pay"
      BY <3>1, <2>e DEF RequestSound, MoneyInv
    <3> QED BY <3>1, <3>2, <2>e, <1>t, MoneyKept DEF q
  <2>7. CASE EditClear(l)
    <3>1. \A j \in Invoice : /\ inv'[j].status = inv[j].status /\ inv'[j].total = inv[j].total
                             /\ inv'[j].paid = inv[j].paid /\ inv'[j].order = inv[j].order
      BY <2>7 DEF EditClear, MoneyInv, TypeInv, TypeOK, Row
    <3> QED BY <2>7, <3>1, <2>e DEF EditClear, At
  <2>8. CASE EditFill(l)
    <3>1. \A j \in Invoice : /\ inv'[j].status = inv[j].status /\ inv'[j].total = inv[j].total
                             /\ inv'[j].paid = inv[j].paid /\ inv'[j].order = inv[j].order
      BY <2>8 DEF EditFill, Put, MoneyInv, TypeInv, TypeOK, Row
    <3> QED BY <2>8, <3>1, <2>e DEF EditFill, At
  <2>9. CASE WriteRow(l)
    BY <2>9, <1>t, WriteKeeps
  <2>10. CASE BeginRemove(l)
    <3> DEFINE q == [Idle EXCEPT !.op = "remove"]
    <3>1. q \in Request /\ q.op = "remove"
      BY DEF Idle, Request, At, Op
    <3>2. Serve(l, q) /\ UNCHANGED <<inv, orders, hook, gone, recorded, raced, late>>
      BY <2>10 DEF BeginRemove
    <3> HIDE DEF q
    <3>3. RequestSound(q) /\ q.op # "pay"
      BY <3>1 DEF RequestSound
    <3> QED BY <3>1, <3>2, <3>3, <1>k
  <2>11. CASE Remove(l)
    BY <2>11, <1>t, RemoveKeeps
  <2>12. CASE Fail(l)
    BY <2>12, <2>q, <2>i, <1>k DEF Fail
  <2> QED BY <1>1, <2>1, <2>2, <2>3, <2>4, <2>5, <2>6, <2>7, <2>8, <2>9, <2>10, <2>11, <2>12
          DEF LoginStep
<1>2. ASSUME NEW o \in Order, GatewayStep(o) PROVE MoneyInv'
  BY <1>2, <1>t, GatewayKeeps
<1>3. CASE UNCHANGED vars
  BY <1>3 DEF vars, MoneyInv, TypeInv, TypeOK, Addressed, RowSound, LedgerSound, PaidBacked,
              Captured, RequestSound, PayOnce, OrderSound, Exists
<1> QED BY <1>1, <1>2, <1>3 DEF Next

\* Rows, requests and orders keep their types, and every request but the removal of
\* the project is about an invoice.
THEOREM InvoicesTyped == Spec => []TypeOK
BY MoneyInit, MoneyStep, PTL DEF Spec, MoneyInv, TypeInv

\* recordPayment and the webhook never settle an invoice for less than its total, as
\* long as no edit of the draft is written after it was sent.
THEOREM PaidIsBacked == Spec => []PaidBacked
BY MoneyInit, MoneyStep, PTL DEF Spec, MoneyInv

\* Payments recorded over each other lose money but never invent it.
THEOREM LedgerIsSound == Spec => []LedgerSound
BY MoneyInit, MoneyStep, PTL DEF Spec, MoneyInv

\* A cancelled invoice comes back only as a paid one, or by a late send: no other
\* request and no webhook call writes another status over "cancelled".
THEOREM CancelledStaysSo == Spec => CancelledStays
<1>1. TypeInv /\ [Next]_vars =>
        \A i \in Invoice :
          inv[i].status = "cancelled" =>
            \/ inv'[i].status \in {"cancelled", "paid", "absent"}
            \/ inv'[i].status = "sent" /\ i \in late'
  <2> SUFFICES ASSUME TypeOK, Addressed, [Next]_vars, NEW i \in Invoice,
                      inv[i].status = "cancelled"
               PROVE  \/ inv'[i].status \in {"cancelled", "paid", "absent"}
                      \/ inv'[i].status = "sent" /\ i \in late'
    BY DEF TypeInv
  <2> USE DEF TypeOK
  <2>1. ASSUME NEW l \in Login, NEW j \in Invoice, NEW s, NEW a, NEW r,
               NewInvoice(j, l, s, a, r)
        PROVE  inv'[i].status = "cancelled"
    BY <2>1 DEF NewInvoice, Put, Exists
  <2>2. ASSUME NEW l \in Login, EditClear(l) \/ EditFill(l)
        PROVE  inv'[i].status = "cancelled"
    <3> DEFINE q == flight[l]
    <3>2. CASE EditClear(l)
      BY <3>2 DEF EditClear, Row
    <3>3. CASE EditFill(l)
      <4>1. /\ q.op = "edit" /\ q.inv \in Invoice
            /\ inv' = [inv EXCEPT ![q.inv] = [inv[q.inv] EXCEPT !.lines = @ + q.value]]
        BY <3>3 DEF EditFill, Put, Addressed, Op
      <4>2. CASE q.inv # i
        BY <4>1, <4>2
      <4>3. CASE q.inv = i
        BY <4>1, <4>3 DEF Row
      <4> QED BY <4>2, <4>3
    <3> QED BY <2>2, <3>2, <3>3
  <2>3. ASSUME NEW l \in Login, WriteRow(l)
        PROVE  \/ inv'[i].status \in {"cancelled", "paid"}
               \/ inv'[i].status = "sent" /\ i \in late'
    <3> DEFINE q == flight[l]
    <3>1. /\ q.inv \in Invoice /\ q.op \in Op \ {"remove"}
          /\ inv' = [inv EXCEPT ![q.inv] = Written(q, inv[q.inv])]
          /\ q.op = "send" /\ inv[q.inv].status # "draft" => q.inv \in late'
      BY <2>3 DEF WriteRow, Put, Addressed, Request
    <3>2. CASE q.inv # i
      BY <3>1, <3>2
    <3>3. CASE q.inv = i /\ q.op \in {"send", "cancel", "decline"}
      BY <3>1, <3>3 DEF Written, Row
    <3>4. CASE q.inv = i /\ q.op \in {"record", "pay"}
      BY <3>1, <3>4 DEF Written, Row, AfterPayment
    <3>5. CASE q.inv = i /\ q.op \in {"edit", "tax", "file", "unfile"}
      BY <3>1, <3>5 DEF Written, Row
    <3> QED BY <3>1, <3>2, <3>3, <3>4, <3>5 DEF Op
  <2>4. ASSUME NEW l \in Login, Remove(l) PROVE inv'[i].status = "absent"
    BY <2>4 DEF Remove, NoRow
  <2>5. ASSUME NEW o \in Order, HookWrite(o) PROVE inv'[i].status \in {"cancelled", "paid"}
    BY <2>5 DEF HookWrite, Row
  <2>6. ASSUME UNCHANGED inv PROVE inv'[i].status = "cancelled"
    BY <2>6
  <2>7. ASSUME NEW l \in Login, LoginStep(l)
        PROVE  \/ inv'[i].status \in {"cancelled", "paid", "absent"}
               \/ inv'[i].status = "sent" /\ i \in late'
    <3>1. CASE \E j \in Invoice, a \in Amount, r \in Rate :
                 Create(l, j, a, r) \/ SendOffline(l, j, a, r) \/ RecordOffline(l, j, a, r)
      BY <3>1, <2>1 DEF Create, SendOffline, RecordOffline
    <3>2. CASE \E op \in Op, j \in Invoice : Begin(l, op, j)
      BY <3>2, <2>6 DEF Begin
    <3>3. CASE \E j \in Invoice : \E v \in Instalment \cup {Remaining(inv[j])} :
                 BeginRecord(l, j, v)
      BY <3>3, <2>6 DEF BeginRecord
    <3>4. CASE \E j \in Invoice, a \in Amount, r \in Rate : BeginEdit(l, j, a, r)
      BY <3>4, <2>6 DEF BeginEdit
    <3>5. CASE \E j \in Invoice, r \in Rate : BeginTax(l, j, r)
      BY <3>5, <2>6 DEF BeginTax
    <3>6. CASE \E j \in Invoice, o \in Order : BeginPay(l, j, o)
      BY <3>6, <2>6 DEF BeginPay
    <3>7. CASE BeginRemove(l) \/ Fail(l)
      BY <3>7, <2>6 DEF BeginRemove, Fail
    <3> QED BY <2>2, <2>3, <2>4, <2>7, <3>1, <3>2, <3>3, <3>4, <3>5, <3>6, <3>7 DEF LoginStep
  <2>8. ASSUME NEW o \in Order, GatewayStep(o)
        PROVE  inv'[i].status \in {"cancelled", "paid"}
    BY <2>5, <2>6, <2>8 DEF GatewayStep, Capture, HookRead
  <2> QED BY <2>6, <2>7, <2>8 DEF Next, vars
<1>2. MoneyInv => TypeInv
  BY DEF MoneyInv
<1> QED BY <1>1, <1>2, MoneyInit, MoneyStep, PTL DEF Spec, CancelledStays

(***************************************************************************)
(* Liveness.  A row names an order only if the order was made for it, so   *)
(* the webhook call of a captured order can find no other invoice, and     *)
(* nothing but its own write ends it.  The prover knows the rules of weak  *)
(* fairness but not ENABLED: HookCanRun is a hypothesis, which the model   *)
(* checker can evaluate in every state.                                    *)
(***************************************************************************)

\* What a step does to a captured order and to its webhook call.
LEMMA HookMoves ==
  ASSUME MoneyInv, NEW o \in Order, orders[o].state = "captured", [Next]_vars
  PROVE  /\ orders'[o].state = "captured"
         /\ hook'[o] = hook[o] \/ HookRead(o) \/ HookWrite(o)
<1> USE DEF MoneyInv, TypeInv, TypeOK
<1>1. ASSUME UNCHANGED <<orders, hook>>
      PROVE  orders'[o].state = "captured" /\ hook'[o] = hook[o]
  BY <1>1
<1>2. ASSUME NEW l \in Login, LoginStep(l)
      PROVE  orders'[o].state = "captured" /\ hook'[o] = hook[o]
  <2>1. CASE \E i \in Invoice, a \in Amount, r \in Rate :
               Create(l, i, a, r) \/ SendOffline(l, i, a, r) \/ RecordOffline(l, i, a, r)
    BY <2>1, <1>1 DEF Create, SendOffline, RecordOffline, NewInvoice
  <2>2. CASE \E op \in Op, i \in Invoice : Begin(l, op, i)
    BY <2>2, <1>1 DEF Begin
  <2>3. CASE \E i \in Invoice : \E v \in Instalment \cup {Remaining(inv[i])} : BeginRecord(l, i, v)
    BY <2>3, <1>1 DEF BeginRecord
  <2>4. CASE \E i \in Invoice, a \in Amount, r \in Rate : BeginEdit(l, i, a, r)
    BY <2>4, <1>1 DEF BeginEdit
  <2>5. CASE \E i \in Invoice, r \in Rate : BeginTax(l, i, r)
    BY <2>5, <1>1 DEF BeginTax
  <2>6. ASSUME NEW i \in Invoice, NEW p \in Order, BeginPay(l, i, p)
        PROVE  orders'[o].state = "captured" /\ hook'[o] = hook[o]
    BY <2>6 DEF BeginPay, NoOrder
  <2>7. CASE EditClear(l) \/ EditFill(l)
    BY <2>7, <1>1 DEF EditClear, EditFill
  <2>8. CASE WriteRow(l)
    <3>1. flight[l].op = "pay" => flight[l].order # o
      BY DEF RequestSound
    <3> QED BY <2>8, <3>1 DEF WriteRow
  <2>9. CASE BeginRemove(l) \/ Remove(l) \/ Fail(l)
    BY <2>9, <1>1 DEF BeginRemove, Remove, Fail
  <2> QED BY <1>2, <2>1, <2>2, <2>3, <2>4, <2>5, <2>6, <2>7, <2>8, <2>9 DEF LoginStep
<1>3. ASSUME NEW p \in Order, GatewayStep(p)
      PROVE  /\ orders'[o].state = "captured"
             /\ hook'[o] = hook[o] \/ HookRead(o) \/ HookWrite(o)
  <2>1. CASE Capture(p)
    BY <2>1 DEF Capture
  <2>2. CASE HookRead(p)
    BY <2>2 DEF HookRead
  <2>3. CASE HookWrite(p)
    BY <2>3 DEF HookWrite
  <2> QED BY <1>3, <2>1, <2>2, <2>3 DEF GatewayStep
<1> QED BY <1>1, <1>2, <1>3 DEF Next, vars

\* A captured payment reaches its invoice, as long as the invoice still names the order,
\* whatever the logins do in the meantime: the gateway repeats its call until the two
\* queries of the webhook have run.
THEOREM CapturedSettle == Spec /\ []HookCanRun => CapturedSettles
<1>1. ASSUME NEW i \in Invoice, NEW o \in Order
      PROVE  Spec /\ []HookCanRun =>
               (orders[o].state = "captured" /\ inv[i].order = o
                  ~> inv[i].status = "paid" \/ inv[i].order # o)
  <2> DEFINE Due == orders[o].state = "captured" /\ inv[i].order = o
             Settled == inv[i].status = "paid" \/ inv[i].order # o
             Waiting == Due /\ hook[o] = None
             Found == Due /\ hook[o] = i
  <2>1. MoneyInv /\ Due => Waiting \/ Found
    BY InvoicesAssumption DEF MoneyInv, TypeInv, TypeOK, RowSound, OrderSound
  <2>2. HookCanRun /\ Waiting => ENABLED <<HookRead(o)>>_vars
    BY DEF HookCanRun, OnFile
  <2>3. HookCanRun /\ Found => ENABLED <<HookWrite(o)>>_vars
    BY InvoicesAssumption DEF HookCanRun
  <2>4. MoneyInv /\ Due /\ [Next]_vars => Due' \/ Settled'
    BY HookMoves
  <2>5. MoneyInv /\ Found /\ HookWrite(o) => Settled'
    BY InvoicesAssumption
    DEF MoneyInv, TypeInv, TypeOK, RowSound, HookWrite, Exists, Row
  <2>6. MoneyInv /\ Found /\ [Next]_vars => Found' \/ Settled'
    <3> SUFFICES ASSUME MoneyInv, Found, [Next]_vars PROVE Found' \/ Settled'
      OBVIOUS
    <3>1. hook[o] # None
      BY InvoicesAssumption
    <3>2. hook'[o] = hook[o] \/ HookWrite(o)
      BY <3>1, HookMoves DEF HookRead
    <3> QED BY <2>4, <2>5, <3>2
  <2>7. MoneyInv /\ Waiting /\ <<HookRead(o)>>_vars => Found' \/ Settled'
    <3> SUFFICES ASSUME MoneyInv, Waiting, HookRead(o) PROVE Found'
      OBVIOUS
    <3>1. PICK j \in OnFile(o) : hook' = [hook EXCEPT ![o] = j]
      BY DEF HookRead
    <3>2. j = i
      BY InvoicesAssumption DEF OnFile, MoneyInv, RowSound
    <3> QED BY <3>1, <3>2 DEF HookRead, MoneyInv, TypeInv, TypeOK
  <2>8. Spec => WF_vars(HookRead(o)) /\ WF_vars(HookWrite(o))
    <3>1. Spec => Answered(o)
      BY DEF Spec
    <3> QED BY <3>1, PTL DEF Answered
  <2>9. MoneyInv /\ Found /\ <<HookWrite(o)>>_vars => Settled'
    BY <2>5
  <2>10. MoneyInv /\ Waiting /\ [Next]_vars => Waiting' \/ Found' \/ Settled'
    <3>1. MoneyInv /\ [Next]_vars => MoneyInv'
      BY MoneyStep
    <3>2. MoneyInv' /\ Due' => Waiting' \/ Found'
      BY <2>1, PTL
    <3> QED BY <2>4, <3>1, <3>2
  <2>11. Waiting => Due
    OBVIOUS
  <2> HIDE DEF Due, Settled, Waiting, Found
  <2>12. Spec /\ []HookCanRun => (Due ~> Settled)
    BY <2>1, <2>2, <2>3, <2>6, <2>7, <2>8, <2>9, <2>10, <2>11, MoneyInit, MoneyStep, PTL DEF Spec
  <2> QED BY <2>12 DEF Due, Settled
<1> QED BY <1>1 DEF CapturedSettles

(***************************************************************************)
(* Lines and totals.  While one edit at a time runs on an invoice, how far *)
(* it has come says what its lines add up to.                              *)
(***************************************************************************)

\* The total is the amount with its tax; one edit at most is in flight; the lines are
\* those of the amount, none, or those of the edit, as the edit stands.
LinesSound(i) ==
  /\ inv[i].total = inv[i].amount + Tax(inv[i].amount, inv[i].rate)
  /\ \A l, m \in Login : Edits(l, i) /\ Edits(m, i) => l = m
  /\ (~Exists(i) \/ \A l \in Login : ~Edits(l, i)) => inv[i].lines = inv[i].amount
  /\ \A l \in Login :
       Edits(l, i) /\ Exists(i) =>
         LET q == flight[l] IN
         /\ q.op = "edit" /\ q.at = "clear" => inv[i].lines = inv[i].amount
         /\ q.op = "edit" /\ q.at = "fill"  => inv[i].lines = 0
         /\ q.op = "edit" /\ q.at = "write" => inv[i].lines = q.value
         /\ q.op = "tax" => inv[i].lines = inv[i].amount /\ q.value = inv[i].amount

LinesInv == \A i \in Invoice : i \notin torn => LinesSound(i)

\* A step that leaves the columns of the invoice and the edits of it alone.
LEMMA LinesKept ==
  ASSUME NEW i \in Invoice, LinesSound(i),
         inv'[i].lines = inv[i].lines, inv'[i].amount = inv[i].amount,
         inv'[i].rate = inv[i].rate, inv'[i].total = inv[i].total,
         Exists(i)' <=> Exists(i),
         \A m \in Login : flight'[m] = flight[m] \/ (~Edits(m, i) /\ ~Edits(m, i)')
  PROVE  LinesSound(i)'
<1>1. \A m \in Login : Edits(m, i)' <=> Edits(m, i)
  BY DEF Edits
<1>2. \A m \in Login : Edits(m, i) => flight'[m] = flight[m]
  OBVIOUS
<1>3. inv'[i].total = inv'[i].amount + Tax(inv'[i].amount, inv'[i].rate)
  BY DEF LinesSound
<1> QED BY <1>1, <1>2, <1>3 DEF LinesSound

\* A row without lines and amount has a total of nothing.
LEMMA NoTax == Tax(0, 0) = 0
BY DEF Tax

\* Every write of a request keeps lines and totals in step.
LEMMA LinesWrite ==
  ASSUME MoneyInv, NEW l \in Login, WriteRow(l), NEW i \in Invoice, LinesSound(i)
  PROVE  LinesSound(i)'
<1> USE DEF MoneyInv, TypeInv, TypeOK
<1> DEFINE q == flight[l]
<1>1. /\ q.inv \in Invoice /\ q.op \in Op \ {"remove"} /\ q.at = "write" /\ Exists(q.inv)
      /\ inv' = [inv EXCEPT ![q.inv] = Written(q, inv[q.inv])]
      /\ flight' = [flight EXCEPT ![l] = Idle]
  BY DEF WriteRow, Put, Serve, Addressed, Request
<1>2. /\ \A m \in Login : m # l => flight'[m] = flight[m]
      /\ ~Edits(l, i)'
  BY <1>1 DEF Edits, Idle
<1>3. CASE q.inv # i
  <2>1. ~Edits(l, i) /\ inv'[i] = inv[i]
    BY <1>1, <1>3 DEF Edits
  <2> QED BY <2>1, <1>2, LinesKept DEF Exists
<1>4. CASE q.inv = i /\ q.op \notin {"edit", "tax"}
  <2>1. inv'[i] = Written(q, inv[i]) /\ inv[i] \in Row /\ ~Edits(l, i)
    BY <1>1, <1>4 DEF Edits
  <2>2. /\ inv'[i].lines = inv[i].lines /\ inv'[i].amount = inv[i].amount
        /\ inv'[i].rate = inv[i].rate /\ inv'[i].total = inv[i].total
    BY <2>1, <1>1, <1>4 DEF Written, Row, Op
  <2>3. inv'[i].status # "absent"
    BY <2>1, <1>1, <1>4 DEF Written, Row, Op, AfterPayment, Exists
  <2> QED BY <2>1, <2>2, <2>3, <1>1, <1>2, <1>4, LinesKept DEF Exists
<1>5. CASE q.inv = i /\ q.op \in {"edit", "tax"}
  <2>1. inv'[i] = Written(q, inv[i]) /\ inv[i] \in Row /\ Edits(l, i) /\ Exists(i)
    BY <1>1, <1>5 DEF Edits
  <2>2. /\ inv'[i].amount = q.value /\ inv'[i].lines = q.value /\ inv'[i].rate = q.rate
        /\ inv'[i].total = q.value + Tax(q.value, q.rate)
    BY <2>1, <1>1, <1>5 DEF Written, Row, LinesSound
  <2>3. \A m \in Login : ~Edits(m, i)'
    BY <2>1, <1>2 DEF LinesSound, Edits
  <2> QED BY <2>2, <2>3 DEF LinesSound
<1> QED BY <1>3, <1>4, <1>5

\* Every step does.
LEMMA LinesStep == MoneyInv /\ LinesInv /\ [Next]_vars => LinesInv'
<1> SUFFICES ASSUME MoneyInv, LinesInv, [Next]_vars, NEW i \in Invoice, i \notin torn'
             PROVE  LinesSound(i)'
  BY DEF LinesInv
<1>t. TypeOK'
  BY TypeStep DEF MoneyInv
<1> USE DEF MoneyInv, TypeInv, TypeOK
<1>q. ASSUME i \notin torn, inv' = inv,
             \A m \in Login : flight'[m] = flight[m] \/ (~Edits(m, i) /\ ~Edits(m, i)')
      PROVE  LinesSound(i)'
  BY <1>q, LinesKept DEF LinesInv, Exists
<1>s. \A l \in Login : \A q : Serve(l, q) =>
        flight'[l] = q /\ \A m \in Login : m # l => flight'[m] = flight[m]
  BY DEF Serve
<1>1. ASSUME NEW l \in Login, LoginStep(l) PROVE LinesSound(i)'
  <2>1. ASSUME NEW j \in Invoice, NEW s \in {"draft", "sent"}, NEW a \in Nat, NEW r \in Nat,
               NewInvoice(j, l, s, a, r)
        PROVE  LinesSound(i)'
    <3>1. /\ torn' = torn /\ flight' = flight /\ LinesSound(i)
          /\ \A k \in Invoice : k # j => inv'[k] = inv[k]
      BY <2>1 DEF NewInvoice, Put, LinesInv
    <3>2. CASE j # i
      BY <3>1, <3>2, LinesKept DEF Exists
    <3>3. CASE j = i
      <4>1. \A m \in Login : ~Edits(m, i)
        BY <2>1, <3>3 DEF NewInvoice, Edits, RequestSound
      <4>2. \A m \in Login : ~Edits(m, i)'
        BY <3>1, <4>1 DEF Edits
      <4>3. /\ inv'[i].lines = a /\ inv'[i].amount = a /\ inv'[i].rate = r
            /\ inv'[i].total = a + Tax(a, r)
        BY <2>1, <3>3 DEF NewInvoice, Put, NoRow
      <4> QED BY <4>2, <4>3 DEF LinesSound
    <3> QED BY <3>2, <3>3
  <2>r. ASSUME NEW q, Free(l), Serve(l, q), q.op \notin {"edit", "tax"}, torn' = torn,
               inv' = inv
        PROVE  LinesSound(i)'
    <3>1. i \notin torn /\ ~Edits(l, i)
      BY <2>r DEF Free, Busy, Idle, Edits
    <3>2. flight'[l] = q /\ \A m \in Login : m # l => flight'[m] = flight[m]
      BY <2>r, <1>s
    <3> QED BY <2>r, <3>1, <3>2, <1>q DEF Edits
  <2>2. ASSUME NEW op \in Op, NEW j \in Invoice, Begin(l, op, j) PROVE LinesSound(i)'
    <3> DEFINE q == [Idle EXCEPT !.op = op, !.inv = j]
    <3>1. q.op \notin {"edit", "tax"}
      BY <2>2 DEF Begin, Allowed, Idle
    <3>2. Free(l) /\ Serve(l, q) /\ torn' = torn /\ inv' = inv
      BY <2>2 DEF Begin
    <3> HIDE DEF q
    <3> QED BY <3>1, <3>2, <2>r
  <2>3. ASSUME NEW j \in Invoice, NEW v, BeginRecord(l, j, v) PROVE LinesSound(i)'
    <3> DEFINE q == [Idle EXCEPT !.op = "record", !.inv = j, !.paid = inv[j].paid,
                                 !.total = inv[j].total, !.value = v]
    <3>1. q.op \notin {"edit", "tax"}
      BY DEF Idle
    <3>2. Free(l) /\ Serve(l, q) /\ torn' = torn /\ inv' = inv
      BY <2>3 DEF BeginRecord
    <3> HIDE DEF q
    <3> QED BY <3>1, <3>2, <2>r
  <2>b. ASSUME NEW j \in Invoice, NEW q, Free(l), Serve(l, q), q.inv = j, Exists(j),
               torn' = Meeting(j), inv' = inv,
               \/ q.op = "edit" /\ q.at = "clear"
               \/ q.op = "tax" /\ q.value = inv[j].amount
        PROVE  LinesSound(i)'
    <3>1. i \notin torn /\ ~Edits(l, i)
      BY <2>b DEF Meeting, Free, Busy, Idle, Edits
    <3>2. flight'[l] = q /\ \A m \in Login : m # l => flight'[m] = flight[m]
      BY <2>b, <1>s
    <3>3. CASE j # i
      BY <2>b, <3>1, <3>2, <3>3, <1>q DEF Edits
    <3>4. CASE j = i
      <4>1. \A m \in Login : ~Edits(m, i)
        BY <2>b, <3>4 DEF Meeting
      <4>2. LinesSound(i) /\ inv[i].lines = inv[i].amount
        BY <3>1, <4>1 DEF LinesInv, LinesSound
      <4>3. \A m \in Login : Edits(m, i)' => m = l
        BY <3>2, <4>1 DEF Edits
      <4> QED BY <2>b, <3>2, <3>4, <4>2, <4>3 DEF LinesSound, Exists
    <3> QED BY <3>3, <3>4
  <2>4. ASSUME NEW j \in Invoice, NEW a, NEW r, BeginEdit(l, j, a, r) PROVE LinesSound(i)'
    <3> DEFINE q == [Idle EXCEPT !.op = "edit", !.at = "clear", !.inv = j, !.value = a,
                                 !.rate = r]
    <3>1. q.op = "edit" /\ q.at = "clear" /\ q.inv = j
      BY DEF Idle
    <3>2. Free(l) /\ Serve(l, q) /\ Exists(j) /\ torn' = Meeting(j) /\ inv' = inv
      BY <2>4 DEF BeginEdit, MayEdit, Issues, Exists
    <3> HIDE DEF q
    <3> QED BY <3>1, <3>2, <2>b
  <2>5. ASSUME NEW j \in Invoice, NEW r, BeginTax(l, j, r) PROVE LinesSound(i)'
    <3> DEFINE q == [Idle EXCEPT !.op = "tax", !.inv = j, !.value = inv[j].amount, !.rate = r]
    <3>1. q.op = "tax" /\ q.inv = j /\ q.value = inv[j].amount
      BY DEF Idle
    <3>2. Free(l) /\ Serve(l, q) /\ Exists(j) /\ torn' = Meeting(j) /\ inv' = inv
      BY <2>5 DEF BeginTax, MayEdit, Issues, Exists
    <3> HIDE DEF q
    <3> QED BY <3>1, <3>2, <2>b
  <2>6. ASSUME NEW j \in Invoice, NEW o \in Order, BeginPay(l, j, o) PROVE LinesSound(i)'
    <3> DEFINE q == [Idle EXCEPT !.op = "pay", !.inv = j, !.order = o]
    <3>1. q.op \notin {"edit", "tax"}
      BY DEF Idle
    <3>2. Free(l) /\ Serve(l, q) /\ torn' = torn /\ inv' = inv
      BY <2>6 DEF BeginPay
    <3> HIDE DEF q
    <3> QED BY <3>1, <3>2, <2>r
  <2>7. CASE EditClear(l)
    <3> DEFINE q == flight[l]
    <3>1. /\ torn' = torn /\ q.op = "edit" /\ q.at = "clear" /\ q.inv \in Invoice
          /\ flight'[l] = [q EXCEPT !.at = "fill"] /\ q \in Request
          /\ \A m \in Login : m # l => flight'[m] = flight[m]
          /\ inv' = IF Exists(q.inv) THEN [inv EXCEPT ![q.inv].lines = 0] ELSE inv
      BY <2>7, <1>s DEF EditClear, Addressed
    <3>2. LinesSound(i)
      BY <3>1 DEF LinesInv
    <3>3. flight'[l].op = "edit" /\ flight'[l].at = "fill" /\ flight'[l].inv = q.inv
      BY <3>1 DEF Request
    <3>4. CASE q.inv # i
      BY <3>1, <3>2, <3>3, <3>4, LinesKept DEF Edits, Exists
    <3>5. CASE q.inv = i /\ Exists(i)
      <4>1. /\ inv'[i].lines = 0 /\ inv'[i].amount = inv[i].amount
            /\ inv'[i].rate = inv[i].rate /\ inv'[i].total = inv[i].total
            /\ Exists(i)'
        BY <3>1, <3>5 DEF Row, Exists
      <4>2. \A m \in Login : Edits(m, i)' => m = l
        BY <3>1, <3>2, <3>5 DEF LinesSound, Edits
      <4>3. Edits(l, i)'
        BY <3>3, <3>5 DEF Edits
      <4> QED BY <4>1, <4>2, <4>3, <3>2, <3>3 DEF LinesSound
    <3>6. CASE q.inv = i /\ ~Exists(i)
      <4>1. inv' = inv /\ ~Exists(i)'
        BY <3>1, <3>6 DEF Exists
      <4>2. \A m \in Login : Edits(m, i)' <=> Edits(m, i)
        BY <3>1, <3>3 DEF Edits
      <4> QED BY <4>1, <4>2, <3>2, <3>6 DEF LinesSound
    <3> QED BY <3>4, <3>5, <3>6
  <2>8. CASE EditFill(l)
    <3> DEFINE q == flight[l]
    <3>1. /\ torn' = torn /\ q.op = "edit" /\ q.at = "fill" /\ q.inv \in Invoice
          /\ flight'[l] = [q EXCEPT !.at = "write"] /\ q \in Request /\ Exists(q.inv)
          /\ \A m \in Login : m # l => flight'[m] = flight[m]
          /\ inv' = [inv EXCEPT ![q.inv] = [inv[q.inv] EXCEPT !.lines = @ + q.value]]
      BY <2>8, <1>s DEF EditFill, Put, Addressed
    <3>2. LinesSound(i)
      BY <3>1 DEF LinesInv
    <3>3. /\ flight'[l].op = "edit" /\ flight'[l].at = "write" /\ flight'[l].inv = q.inv
          /\ flight'[l].value = q.value /\ q.value \in Nat
      BY <3>1 DEF Request
    <3>4. CASE q.inv # i
      BY <3>1, <3>2, <3>3, <3>4, LinesKept DEF Edits, Exists
    <3>5. CASE q.inv = i
      <4>1. /\ inv'[i].lines = inv[i].lines + q.value /\ inv'[i].amount = inv[i].amount
            /\ inv'[i].rate = inv[i].rate /\ inv'[i].total = inv[i].total
            /\ Exists(i)' /\ inv[i].lines = 0
        BY <3>1, <3>2, <3>5 DEF Row, Exists, LinesSound, Edits
      <4>2. \A m \in Login : Edits(m, i)' => m = l
        BY <3>1, <3>2, <3>5 DEF LinesSound, Edits
      <4>3. Edits(l, i)' /\ inv'[i].lines = q.value
        BY <3>3, <3>5, <4>1 DEF Edits
      <4> QED BY <4>1, <4>2, <4>3, <3>2, <3>3 DEF LinesSound
    <3> QED BY <3>4, <3>5
  <2>9. CASE WriteRow(l)
    BY <2>9, LinesWrite DEF WriteRow, LinesInv
  <2>10. CASE BeginRemove(l)
    <3> DEFINE q == [Idle EXCEPT !.op = "remove"]
    <3>1. q.op \notin {"edit", "tax"}
      BY DEF Idle
    <3>2. Free(l) /\ Serve(l, q) /\ torn' = torn /\ inv' = inv
      BY <2>10 DEF BeginRemove
    <3> HIDE DEF q
    <3> QED BY <3>1, <3>2, <2>r
  <2>11. CASE Remove(l)
    <3>1. /\ inv'[i] = NoRow /\ ~Exists(i)' /\ LinesSound(i)
          /\ flight'[l] = Idle /\ \A m \in Login : m # l => flight'[m] = flight[m]
      BY <2>11, <1>s DEF Remove, Exists, NoRow, LinesInv
    <3>2. \A m \in Login : Edits(m, i)' => Edits(m, i)
      BY <3>1 DEF Edits, Idle
    <3> QED BY <3>1, <3>2, NoTax DEF LinesSound, NoRow
  <2>12. CASE Fail(l)
    <3> DEFINE q == flight[l]
    <3>1. /\ flight'[l] = Idle /\ \A m \in Login : m # l => flight'[m] = flight[m]
          /\ inv' = inv /\ i \notin torn
          /\ q.op = "edit" /\ q.inv = i => q.at = "clear"
      BY <2>12, <1>s DEF Fail
    <3>2. ~Edits(l, i)' /\ LinesSound(i)
      BY <3>1 DEF Edits, Idle, LinesInv
    <3>3. CASE ~Edits(l, i)
      BY <3>1, <3>2, <3>3, <1>q
    <3>4. CASE Edits(l, i)
      <4>1. inv[i].lines = inv[i].amount
        BY <3>1, <3>2, <3>4 DEF LinesSound, Edits
      <4>2. \A m \in Login : ~Edits(m, i)'
        BY <3>1, <3>2, <3>4 DEF LinesSound, Edits
      <4> QED BY <4>1, <4>2, <3>1, <3>2 DEF LinesSound, Exists
    <3> QED BY <3>3, <3>4
  <2>n. Amount \subseteq Nat /\ Rate \subseteq Nat
    BY InvoicesAssumption
  <2> QED BY <1>1, <2>n, <2>1, <2>2, <2>3, <2>4, <2>5, <2>6, <2>7, <2>8, <2>9, <2>10, <2>11,
             <2>12
          DEF LoginStep, Create, SendOffline, RecordOffline
<1>2. ASSUME NEW o \in Order, GatewayStep(o) PROVE LinesSound(i)'
  <2>1. /\ flight' = flight /\ torn' = torn
        /\ inv' # inv => inv' = [inv EXCEPT ![hook[o]].status = "paid"] /\ Exists(hook[o])
    BY <1>2 DEF GatewayStep, Capture, HookRead, HookWrite
  <2>2. /\ inv'[i].lines = inv[i].lines /\ inv'[i].amount = inv[i].amount
        /\ inv'[i].rate = inv[i].rate /\ inv'[i].total = inv[i].total
        /\ Exists(i)' <=> Exists(i)
    BY <2>1 DEF Row, Exists
  <2> QED BY <2>1, <2>2, LinesKept DEF LinesInv
<1>3. CASE UNCHANGED vars
  BY <1>3, <1>q DEF vars
<1> QED BY <1>1, <1>2, <1>3 DEF Next

\* An invoice whose lines do not add up to its amount, or whose total does not follow,
\* is being edited or was left behind by an edit that died or met another one.
THEOREM LinesAddUp == Spec => []AmountMatchesLines
<1>1. Init => LinesInv
  <2> SUFFICES ASSUME Init, NEW i \in Invoice PROVE LinesSound(i)
    BY DEF LinesInv
  <2>1. inv[i] = NoRow /\ \A l \in Login : flight[l] = Idle
    BY DEF Init
  <2> QED BY <2>1, NoTax DEF LinesSound, NoRow, Idle, Edits
<1>2. LinesInv => AmountMatchesLines
  <2> SUFFICES ASSUME LinesInv, NEW i \in Invoice, i \notin torn,
                      \A l \in Login : ~Edits(l, i)
               PROVE  /\ inv[i].lines = inv[i].amount
                      /\ inv[i].total = inv[i].amount + Tax(inv[i].amount, inv[i].rate)
    BY DEF AmountMatchesLines
  <2> QED BY DEF LinesInv, LinesSound
<1> QED BY <1>1, <1>2, LinesStep, MoneyInit, MoneyStep, PTL DEF Spec

(***************************************************************************)
(* Lists.  What a handler lets a login do is what the list shows it: this  *)
(* is a matter of the guards and the queries alone, for any rows at all.   *)
(***************************************************************************)

\* Every request asks for the issuer, or for a recipient of a sent invoice.
LEMMA ActsAsParty ==
  ASSUME NEW l \in Login, NEW i \in Invoice, MayAct(l, i)
  PROVE  Issues(inv[i], l) \/ (Receives(inv[i], l) /\ inv[i].status = "sent")
<1> USE DEF MaySend, MayCancel, MayDecline, MayRecord, MayPay, MayEdit, MayFile, MayUnfile
<1>1. ASSUME NEW op \in Op, Allowed(op, inv[i], l)
      PROVE  Issues(inv[i], l) \/ (Receives(inv[i], l) /\ inv[i].status = "sent")
  BY <1>1 DEF Allowed, Op
<1> QED BY <1>1 DEF MayAct

\* Whoever may do something with an invoice finds it in the list and may open it,
\* unless it is an unassigned sub-user of the company: the guards of every handler
\* imply the conditions of list, getOne and ensureInvoiceAccess.
THEOREM InvoiceWorkListed == Spec => []InvoiceWorkIsListed
<1>1. InvoiceWorkIsListed
  <2> SUFFICES ASSUME NEW l \in Login, NEW i \in Invoice, OnProject(l), MayAct(l, i)
               PROVE  i \in Shown(l) /\ MayView(l, i)
    BY DEF InvoiceWorkIsListed
  <2>1. Issues(inv[i], l) \/ (Receives(inv[i], l) /\ inv[i].status = "sent")
    BY ActsAsParty
  <2>2. i \in Shown(l)
    BY <2>1 DEF Shown, IssuedBy, ReceivedBy
  <2>3. MayView(l, i)
    BY <2>1 DEF MayView
  <2> QED BY <2>2, <2>3
<1> QED BY <1>1, PTL

(***************************************************************************)
(* Sums.  The fold of the community modules is recursive over subsets;     *)
(* that it adds up is shown by looking at a smallest set where it does not. *)
(***************************************************************************)

\* A set of numbers that is not empty has a least one.
LEMMA LeastOf ==
  ASSUME NEW T \in SUBSET Nat, T # {}
  PROVE  \E n \in T : \A m \in T : n <= m
<1> DEFINE R == OpToRel(<, Nat)
<1>1. IsWellFoundedOn(R, Nat)
  BY Zenon, NatLessThanWellFounded
<1>2. \E n \in T : \A m \in T : <<m, n>> \notin R
  <2> HIDE DEF R
  <2> QED BY <1>1, WFMin
<1>3. \A m, n \in Nat : m < n => <<m, n>> \in R
  BY DEF OpToRel
<1>4. PICK n \in T : \A m \in T : <<m, n>> \notin R
  BY Zenon, <1>2
<1>5. \A m \in T : ~(m < n)
  <2> HIDE DEF R
  <2> TAKE m \in T
  <2> QED BY <1>3, <1>4
<1>6. \A m \in T : m \in Nat /\ n \in Nat
  OBVIOUS
<1>7. \A m \in T : n <= m
  BY <1>5, <1>6
<1> QED BY <1>7

\* Of the subsets of a finite set that are in a family, one is smallest: whatever a
\* smaller subset would have to satisfy can be used of it.
LEMMA SmallestOf ==
  ASSUME NEW S, IsFiniteSet(S), NEW F \in SUBSET (SUBSET S), F # {}
  PROVE  \E T \in F : \A x \in T : T \ {x} \notin F
<1>1. \A T \in F : IsFiniteSet(T)
  BY FS_Subset
<1> DEFINE C == {Cardinality(T) : T \in F}
<1>2. C \in SUBSET Nat /\ C # {}
  BY <1>1, FS_CardinalityType
<1>3. PICK n \in C : \A m \in C : n <= m
  <2> HIDE DEF C
  <2> QED BY <1>2, LeastOf
<1>4. PICK T \in F : n = Cardinality(T)
  BY <1>3
<1>5. ASSUME NEW x \in T, T \ {x} \in F PROVE FALSE
  <2>1. Cardinality(T \ {x}) = Cardinality(T) - 1
    BY <1>1, <1>5, FS_RemoveElement
  <2>2. n <= Cardinality(T \ {x})
    BY <1>3, <1>5
  <2>3. n \in Nat
    BY <1>2, <1>3
  <2> QED BY <1>4, <2>1, <2>2, <2>3
<1> QED BY <1>5

\* h is the sum of g over every subset of S: it adds up whichever element is taken out.
Adds(g, S, h) ==
  /\ h \in [SUBSET S -> Int]
  /\ h[{}] = 0
  /\ \A T \in SUBSET S : \A x \in T : h[T] = g[x] + h[T \ {x}]

\* There is such a sum over every finite set.
LEMMA SumExists ==
  ASSUME NEW S, IsFiniteSet(S), NEW g, \A x \in S : g[x] \in Int
  PROVE  \E h : Adds(g, S, h)
<1> DEFINE F == {T \in SUBSET S : ~ \E h : Adds(g, T, h)}
<1> SUFFICES ASSUME F # {} PROVE FALSE
  BY Zenon
<1>1. F \in SUBSET (SUBSET S)
  OBVIOUS
<1>2. PICK T \in F : \A x \in T : T \ {x} \notin F
  <2> HIDE DEF F
  <2> QED BY <1>1, SmallestOf
<1>3. T \subseteq S /\ ~ \E h : Adds(g, T, h)
  BY Zenon, <1>2
<1>4. CASE T = {}
  <2> DEFINE h0 == [U \in SUBSET {} |-> 0]
  <2>1. Adds(g, {}, h0)
    BY DEF Adds
  <2> QED BY Zenon, <2>1, <1>3, <1>4
<1>5. CASE T # {}
  <2>1. PICK x \in T : TRUE
    BY <1>5
  <2> DEFINE R == T \ {x}
  <2>2. R \in SUBSET S /\ R \notin F
    BY <1>2, <1>3
  <2>3. PICK k : Adds(g, R, k)
    <3> HIDE DEF R
    <3> QED BY Zenon, <2>2
  <2> DEFINE h1 == [U \in SUBSET T |-> IF x \in U THEN g[x] + k[U \ {x}] ELSE k[U]]
  <2>4. \A U \in SUBSET R : k[U] \in Int
    BY <2>3 DEF Adds
  <2>5. g[x] \in Int /\ \A y \in T : g[y] \in Int
    BY <1>3
  <2>6. \A U \in SUBSET T : U \ {x} \in SUBSET R /\ (x \notin U => U \in SUBSET R)
    OBVIOUS
  <2>7. h1 \in [SUBSET T -> Int]
    <3> HIDE DEF R
    <3> QED BY <2>4, <2>5, <2>6
  <2>8. h1[{}] = 0
    BY <2>3 DEF Adds
  <2>9. ASSUME NEW U \in SUBSET T, NEW y \in U PROVE h1[U] = g[y] + h1[U \ {y}]
    <3>1. U \ {y} \in SUBSET T
      OBVIOUS
    <3>2. CASE y = x
      <4>1. h1[U] = g[x] + k[U \ {x}]
        BY <3>2, <2>9
      <4>2. h1[U \ {x}] = k[U \ {x}]
        BY <3>1, <3>2
      <4> QED BY <4>1, <4>2, <3>2
    <3>3. CASE y # x /\ x \in U
      <4>1. h1[U] = g[x] + k[U \ {x}]
        BY <3>3
      <4>2. h1[U \ {y}] = g[x] + k[(U \ {y}) \ {x}]
        BY <3>1, <3>3
      <4>3. U \ {x} \in SUBSET R /\ y \in U \ {x} /\ (U \ {x}) \ {y} = (U \ {y}) \ {x}
        BY <3>3
      <4>4. k[U \ {x}] = g[y] + k[(U \ {y}) \ {x}]
        <5> DEFINE V == U \ {x}
        <5>1. k[V] = g[y] + k[V \ {y}]
          <6> HIDE DEF R, V
          <6> QED BY <2>3, <4>3 DEF Adds, V
        <5> QED BY <5>1, <4>3
      <4>5. k[(U \ {y}) \ {x}] \in Int
        BY <2>4, <4>3
      <4>6. g[x] \in Int /\ g[y] \in Int
        BY <2>5
      <4> HIDE DEF h1
      <4> QED BY <4>1, <4>2, <4>4, <4>5, <4>6
    <3>4. CASE x \notin U
      <4>1. h1[U] = k[U] /\ h1[U \ {y}] = k[U \ {y}]
        BY <3>1, <3>4
      <4>2. U \in SUBSET R
        BY <3>4
      <4> HIDE DEF h1, R
      <4> QED BY <4>1, <4>2, <2>3 DEF Adds
    <3> QED BY <3>2, <3>3, <3>4
  <2>10. Adds(g, T, h1)
    <3> HIDE DEF h1
    <3> QED BY <2>7, <2>8, <2>9 DEF Adds
  <2> QED BY Zenon, <2>10, <1>3
<1> QED BY <1>4, <1>5

\* The fold of the community modules computes it.
LEMMA SumAdds ==
  ASSUME NEW S, IsFiniteSet(S), NEW g, NEW h, Adds(g, S, h)
  PROVE  SumFunctionOnSet(g, S) = h[S]
<1> DEFINE Eq(k) == k = [s \in SUBSET S |->
              IF s = {} THEN 0 ELSE g[CHOOSE x \in s : TRUE] + k[s \ {CHOOSE x \in s : TRUE}]]
           it == CHOOSE k : Eq(k)
<1>1. SumFunctionOnSet(g, S) = it[S]
  BY DEF SumFunctionOnSet, FoldFunctionOnSet, MapThenFoldSet
<1>2. Eq(h)
  <2>1. h = [s \in SUBSET S |-> h[s]]
    BY DEF Adds
  <2>2. \A s \in SUBSET S : h[s] = IF s = {} THEN 0
           ELSE g[CHOOSE x \in s : TRUE] + h[s \ {CHOOSE x \in s : TRUE}]
    <3> TAKE s \in SUBSET S
    <3>1. CASE s # {}
      <4>1. (CHOOSE x \in s : TRUE) \in s
        BY <3>1
      <4> QED BY <3>1, <4>1 DEF Adds
    <3> QED BY <3>1 DEF Adds
  <2> QED BY <2>1, <2>2
<1>3. Eq(it)
  <2> HIDE DEF Eq
  <2> QED BY <1>2
<1>4. \A s \in SUBSET S : it[s] = h[s]
  <2> DEFINE F == {s \in SUBSET S : it[s] # h[s]}
  <2> SUFFICES ASSUME F # {} PROVE FALSE
    OBVIOUS
  <2> HIDE DEF it
  <2>1. F \in SUBSET (SUBSET S)
    OBVIOUS
  <2>2. PICK T \in F : \A x \in T : T \ {x} \notin F
    <3> HIDE DEF F
    <3> QED BY <2>1, SmallestOf
  <2>3. T \in SUBSET S /\ it[T] # h[T]
    OBVIOUS
  <2>4. CASE T = {}
    BY <2>3, <2>4, <1>2, <1>3
  <2>5. CASE T # {}
    <3> DEFINE c == CHOOSE x \in T : TRUE
    <3>1. c \in T
      BY <2>5
    <3>2. it[T] = g[c] + it[T \ {c}] /\ h[T] = g[c] + h[T \ {c}]
      BY <1>2, <1>3, <2>3, <2>5
    <3> HIDE DEF c
    <3>3. T \ {c} \in SUBSET S /\ T \ {c} \notin F
      BY <2>2, <2>3, <3>1
    <3>4. it[T \ {c}] = h[T \ {c}]
      BY <3>3
    <3> QED BY <2>3, <3>2, <3>4
  <2> QED BY <2>4, <2>5
<1> QED BY <1>1, <1>4

\* What is used of sums: nothing over nothing; an element and the rest.
LEMMA SumRules ==
  ASSUME NEW S, IsFiniteSet(S), NEW g, \A x \in S : g[x] \in Int
  PROVE  /\ SumFunctionOnSet(g, S) \in Int
         /\ SumFunctionOnSet(g, {}) = 0
         /\ \A x \in S : SumFunctionOnSet(g, S) = g[x] + SumFunctionOnSet(g, S \ {x})
<1>1. PICK h : Adds(g, S, h)
  BY Zenon, SumExists
<1>2. ASSUME NEW T \in SUBSET S PROVE SumFunctionOnSet(g, T) = h[T]
  <2> DEFINE k == [U \in SUBSET T |-> h[U]]
  <2>1. Adds(g, T, k)
    BY <1>1 DEF Adds
  <2>2. IsFiniteSet(T)
    BY FS_Subset
  <2> QED BY <2>1, <2>2, SumAdds
<1>3. S \in SUBSET S /\ {} \in SUBSET S /\ \A x \in S : S \ {x} \in SUBSET S
  OBVIOUS
<1> QED BY <1>1, <1>2, <1>3 DEF Adds

\* The sums of two functions are in the order of their values.
LEMMA SumMonotone ==
  ASSUME NEW S, IsFiniteSet(S), NEW g, NEW h,
         \A x \in S : g[x] \in Int /\ h[x] \in Int /\ g[x] <= h[x]
  PROVE  SumFunctionOnSet(g, S) <= SumFunctionOnSet(h, S)
<1> DEFINE F == {T \in SUBSET S : ~(SumFunctionOnSet(g, T) <= SumFunctionOnSet(h, T))}
<1> SUFFICES ASSUME F # {} PROVE FALSE
  OBVIOUS
<1>1. F \in SUBSET (SUBSET S)
  OBVIOUS
<1>2. PICK T \in F : \A x \in T : T \ {x} \notin F
  <2> HIDE DEF F
  <2> QED BY <1>1, SmallestOf
<1>3. T \in SUBSET S /\ ~(SumFunctionOnSet(g, T) <= SumFunctionOnSet(h, T))
  OBVIOUS
<1>4. \A U \in SUBSET S : IsFiniteSet(U)
  BY FS_Subset
<1>5. CASE T = {}
  <2>1. SumFunctionOnSet(g, T) = 0 /\ SumFunctionOnSet(h, T) = 0
    BY <1>5, SumRules
  <2> QED BY <1>3, <2>1
<1>6. CASE T # {}
  <2>1. PICK x \in T : TRUE
    BY <1>6
  <2>2. T \ {x} \in SUBSET S /\ T \ {x} \notin F
    BY <1>2, <1>3
  <2>3. SumFunctionOnSet(g, T \ {x}) <= SumFunctionOnSet(h, T \ {x})
    BY <2>2
  <2>4. /\ SumFunctionOnSet(g, T) = g[x] + SumFunctionOnSet(g, T \ {x})
        /\ SumFunctionOnSet(h, T) = h[x] + SumFunctionOnSet(h, T \ {x})
    BY <1>3, <1>4, SumRules
  <2>5. /\ SumFunctionOnSet(g, T \ {x}) \in Int /\ SumFunctionOnSet(h, T \ {x}) \in Int
    BY <1>3, <1>4, <2>2, SumRules
  <2>6. g[x] \in Int /\ h[x] \in Int /\ g[x] <= h[x]
    BY <1>3
  <2> HIDE DEF F
  <2> QED BY <1>3, <2>3, <2>4, <2>5, <2>6
<1> QED BY <1>5, <1>6

(***************************************************************************)
(* The sums of a project.                                                  *)
(***************************************************************************)

\* A sum over three statuses and over two.
LEMMA StatusSums ==
  ASSUME NEW f, NEW g, DOMAIN f = Open, DOMAIN g = {"sent", "draft"},
         \A s \in Open : f[s] \in Int, \A s \in {"sent", "draft"} : g[s] \in Int
  PROVE  /\ SumFunction(f) = f["draft"] + (f["sent"] + f["paid"])
         /\ SumFunction(g) = g["sent"] + g["draft"]
<1>1. Open = {"draft", "sent", "paid"}
  BY DEF Open, InvoiceStatus
<1>2. /\ IsFiniteSet({"draft", "sent", "paid"}) /\ IsFiniteSet({"sent", "paid"})
      /\ IsFiniteSet({"sent", "draft"}) /\ IsFiniteSet({"paid"}) /\ IsFiniteSet({"draft"})
  <2>1. IsFiniteSet({"paid"}) /\ IsFiniteSet({"draft"})
    BY FS_Singleton
  <2>2. IsFiniteSet({"paid"} \cup {"sent"}) /\ IsFiniteSet({"draft"} \cup {"sent"})
    BY <2>1, FS_AddElement
  <2>3. IsFiniteSet(({"paid"} \cup {"sent"}) \cup {"draft"})
    BY <2>2, FS_AddElement
  <2>4. /\ {"paid"} \cup {"sent"} = {"sent", "paid"}
        /\ {"draft"} \cup {"sent"} = {"sent", "draft"}
        /\ ({"paid"} \cup {"sent"}) \cup {"draft"} = {"draft", "sent", "paid"}
    OBVIOUS
  <2> QED BY <2>1, <2>2, <2>3, <2>4
<1>3. /\ {"draft", "sent", "paid"} \ {"draft"} = {"sent", "paid"}
      /\ {"sent", "paid"} \ {"sent"} = {"paid"} /\ {"paid"} \ {"paid"} = {}
      /\ {"sent", "draft"} \ {"sent"} = {"draft"} /\ {"draft"} \ {"draft"} = {}
  OBVIOUS
<1>0. \A s \in {"draft", "sent", "paid"} : f[s] \in Int
  BY <1>1
<1>4. SumFunctionOnSet(f, {"draft", "sent", "paid"})
        = f["draft"] + SumFunctionOnSet(f, {"sent", "paid"})
  <2>1. \A s \in {"draft", "sent", "paid"} :
          SumFunctionOnSet(f, {"draft", "sent", "paid"})
            = f[s] + SumFunctionOnSet(f, {"draft", "sent", "paid"} \ {s})
    BY <1>0, <1>2, SumRules
  <2> QED BY <1>3, <2>1
<1>5. SumFunctionOnSet(f, {"sent", "paid"}) = f["sent"] + SumFunctionOnSet(f, {"paid"})
  <2>1. \A s \in {"sent", "paid"} : f[s] \in Int
    BY <1>0
  <2>2. \A s \in {"sent", "paid"} :
          SumFunctionOnSet(f, {"sent", "paid"})
            = f[s] + SumFunctionOnSet(f, {"sent", "paid"} \ {s})
    BY <1>2, <2>1, SumRules
  <2> QED BY <1>3, <2>2
<1>6. /\ SumFunctionOnSet(f, {"paid"}) = f["paid"] + SumFunctionOnSet(f, {})
      /\ SumFunctionOnSet(f, {}) = 0
  BY <1>1, <1>2, <1>3, SumRules
<1>7. SumFunctionOnSet(g, {"sent", "draft"}) = g["sent"] + SumFunctionOnSet(g, {"draft"})
  BY <1>2, <1>3, SumRules
<1>8. /\ SumFunctionOnSet(g, {"draft"}) = g["draft"] + SumFunctionOnSet(g, {})
      /\ SumFunctionOnSet(g, {}) = 0
  BY <1>2, <1>3, SumRules
<1>9. /\ f["draft"] \in Int /\ f["sent"] \in Int /\ f["paid"] \in Int
      /\ g["draft"] \in Int /\ g["sent"] \in Int
  BY <1>1
<1>10. f["paid"] + 0 = f["paid"] /\ g["draft"] + 0 = g["draft"]
  BY <1>9
<1>11. /\ SumFunction(f) = SumFunctionOnSet(f, {"draft", "sent", "paid"})
       /\ SumFunction(g) = SumFunctionOnSet(g, {"sent", "draft"})
  BY <1>1 DEF SumFunction
<1> QED BY <1>4, <1>5, <1>6, <1>7, <1>8, <1>9, <1>10, <1>11

\* As long as no edit was written late, no invoice has more paid than its total, and a
\* paid one with less was paid by a captured order or by one of two payments that met.
LEMMA PaidWithin ==
  ASSUME MoneyInv, late = {}, NEW i \in Invoice
  PROVE  /\ inv[i].paid \in Nat /\ inv[i].total \in Nat
         /\ inv[i].status # "absent" => inv[i].paid <= inv[i].total
         /\ inv[i].status = "paid" /\ inv[i].paid < inv[i].total =>
              Captured(i) # {} \/ i \in raced
<1>1. inv[i] \in Row /\ recorded[i] \in Nat
  BY DEF MoneyInv, TypeInv, TypeOK
<1>2. inv[i].paid \in Nat /\ inv[i].total \in Nat
  BY <1>1 DEF Row
<1>3. inv[i].status # "absent" => inv[i].paid <= inv[i].total
  BY DEF MoneyInv, LedgerSound, Exists
<1>4. ASSUME inv[i].status = "paid", inv[i].paid < inv[i].total, i \notin raced
      PROVE  Captured(i) # {}
  <2>1. inv[i].paid = recorded[i]
    BY <1>4 DEF MoneyInv, LedgerSound, Exists
  <2>2. ~(recorded[i] >= inv[i].total)
    BY <1>1, <1>2, <1>4, <2>1
  <2>3. \E o \in Captured(i) : orders[o].amount >= inv[i].total
    BY <1>4, <2>2 DEF MoneyInv, PaidBacked
  <2> QED BY <2>3
<1> QED BY <1>2, <1>3, <1>4

\* The sums of one project add up: paid and owed stay within what was billed, and make
\* it up exactly if no paid invoice was settled by the webhook alone
\* (listUserProjectsWithStats).
LEMMA SumsAgree ==
  ASSUME MoneyInv, late = {}, NEW l \in Login
  PROVE  LET short == {i \in Invoice : inv[i].status = "paid" /\ inv[i].paid < inv[i].total} IN
         /\ PaidSum(l) + Owed(l) <= Billed(l)
         /\ short = {} => PaidSum(l) + Owed(l) = Billed(l)
<1> DEFINE short == {i \in Invoice : inv[i].status = "paid" /\ inv[i].paid < inv[i].total}
           tot == [i \in Invoice |-> inv[i].total]
           pd  == [i \in Invoice |-> inv[i].paid]
<1>1. ASSUME NEW s \in Open
      PROVE  /\ Total(Counted(l, s)) \in Int /\ Paid(Counted(l, s)) \in Int
             /\ Paid(Counted(l, s)) <= Total(Counted(l, s))
  <2>1. Counted(l, s) \subseteq Invoice /\ IsFiniteSet(Counted(l, s))
    <3>1. Counted(l, s) \subseteq Invoice
      BY DEF Counted
    <3> QED BY <3>1, InvoiceListsAssumption, FS_Subset
  <2>2. s # "absent"
    BY DEF Open, InvoiceStatus
  <2>3. \A i \in Counted(l, s) :
          pd[i] \in Int /\ tot[i] \in Int /\ pd[i] <= tot[i]
    BY <2>1, <2>2, PaidWithin DEF Counted
  <2> HIDE DEF pd, tot
  <2>4. /\ SumFunctionOnSet(pd, Counted(l, s)) \in Int
        /\ SumFunctionOnSet(tot, Counted(l, s)) \in Int
    BY <2>1, <2>3, SumRules
  <2>5. SumFunctionOnSet(pd, Counted(l, s)) <= SumFunctionOnSet(tot, Counted(l, s))
    BY <2>1, <2>3, SumMonotone
  <2> QED BY <2>4, <2>5 DEF Total, Paid, pd, tot
<1>2. ASSUME short = {} PROVE Total(Counted(l, "paid")) <= Paid(Counted(l, "paid"))
  <2>1. Counted(l, "paid") \subseteq Invoice /\ IsFiniteSet(Counted(l, "paid"))
    <3>1. Counted(l, "paid") \subseteq Invoice
      BY DEF Counted
    <3> QED BY <3>1, InvoiceListsAssumption, FS_Subset
  <2>2. \A i \in Counted(l, "paid") :
          pd[i] \in Int /\ tot[i] \in Int /\ tot[i] <= pd[i]
    BY <1>2, <2>1, PaidWithin DEF Counted
  <2> HIDE DEF pd, tot
  <2>3. SumFunctionOnSet(tot, Counted(l, "paid")) <= SumFunctionOnSet(pd, Counted(l, "paid"))
    BY <2>1, <2>2, SumMonotone
  <2> QED BY <2>3 DEF Total, Paid, pd, tot
<1>3. "draft" \in Open /\ "sent" \in Open /\ "paid" \in Open
  BY DEF Open, InvoiceStatus
<1>4. ASSUME NEW s \in Open
      PROVE  /\ Rest(Counted(l, s)) = Total(Counted(l, s)) - Paid(Counted(l, s))
             /\ Rest(Counted(l, s)) \in Int
  BY <1>1 DEF Rest
<1>5. /\ Billed(l) = Total(Counted(l, "draft"))
                     + (Total(Counted(l, "sent")) + Total(Counted(l, "paid")))
      /\ PaidSum(l) = Paid(Counted(l, "draft"))
                      + (Paid(Counted(l, "sent")) + Paid(Counted(l, "paid")))
      /\ Owed(l) = Rest(Counted(l, "sent")) + Rest(Counted(l, "draft"))
  <2> DEFINE b == [s \in Open |-> Total(Counted(l, s))]
             p == [s \in Open |-> Paid(Counted(l, s))]
             o == [s \in {"sent", "draft"} |-> Rest(Counted(l, s))]
  <2>1. /\ DOMAIN b = Open /\ DOMAIN p = Open /\ DOMAIN o = {"sent", "draft"}
        /\ \A s \in Open : b[s] \in Int /\ p[s] \in Int
        /\ \A s \in {"sent", "draft"} : o[s] \in Int
    BY <1>1, <1>3, <1>4
  <2>2. /\ Billed(l) = SumFunction(b) /\ PaidSum(l) = SumFunction(p)
        /\ Owed(l) = SumFunction(o)
    BY DEF Billed, PaidSum, Owed
  <2>3. /\ \A s \in Open : b[s] = Total(Counted(l, s)) /\ p[s] = Paid(Counted(l, s))
        /\ \A s \in {"sent", "draft"} : o[s] = Rest(Counted(l, s))
    OBVIOUS
  <2> HIDE DEF b, p, o
  <2>4. /\ SumFunction(b) = b["draft"] + (b["sent"] + b["paid"])
        /\ SumFunction(p) = p["draft"] + (p["sent"] + p["paid"])
        /\ SumFunction(o) = o["sent"] + o["draft"]
    BY <2>1, StatusSums
  <2> QED BY <1>3, <2>2, <2>3, <2>4
<1> DEFINE td == Total(Counted(l, "draft"))
           ts == Total(Counted(l, "sent"))
           tp == Total(Counted(l, "paid"))
           qd == Paid(Counted(l, "draft"))
           qs == Paid(Counted(l, "sent"))
           qp == Paid(Counted(l, "paid"))
<1>6. /\ td \in Int /\ ts \in Int /\ tp \in Int /\ qd \in Int /\ qs \in Int /\ qp \in Int
      /\ qp <= tp
  BY <1>1, <1>3
<1>7. /\ Billed(l) = td + (ts + tp) /\ PaidSum(l) = qd + (qs + qp)
      /\ Owed(l) = (ts - qs) + (td - qd)
  BY <1>3, <1>4, <1>5
<1>8. short = {} => tp <= qp
  BY <1>2
<1> HIDE DEF td, ts, tp, qd, qs, qp, short
<1>9. /\ PaidSum(l) + Owed(l) <= Billed(l)
      /\ short = {} => PaidSum(l) + Owed(l) = Billed(l)
  BY <1>6, <1>7, <1>8
<1> QED BY <1>9 DEF short

\* listUserProjectsWithStats: what is paid and owed on a project makes up what was billed,
\* short of what the webhook settled without touching paidAmount.
THEOREM StatsAgree == Spec => []StatsAddUp
<1>1. MoneyInv => StatsAddUp
  BY SumsAgree, PaidWithin DEF StatsAddUp
<1> QED BY <1>1, MoneyInit, MoneyStep, PTL DEF Spec
=============================================================================
