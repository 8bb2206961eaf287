--------------------------- MODULE PaymentsProofs ---------------------------
(***************************************************************************)
(* Proofs about Payments, for any orders, invoices, webhook requests and   *)
(* adapters.                                                               *)
(*                                                                         *)
(* A request decides under the lock of the order and commits under it, so  *)
(* what it read of the order still holds.  Only the invoice whose address  *)
(* the order gave out is ever paid, so an event of a payment is of the     *)
(* order's own invoice.                                                    *)
(***************************************************************************)
EXTENDS Payments, FiniteSetTheorems, WellFoundedInduction, TLAPS

Settled == {"PAID", "SETTLED"}

\* An order has an invoice of its own, and no checkout any more
Ordered ==
  \A o \in Orders :
    /\ order[o].state = None => order[o].invoice = None
    /\ order[o].state # None =>
         /\ order[o].invoice \in Invoices /\ invoice[order[o].invoice].order = o
         /\ checkout[o].step = "idle"
    /\ checkout[o].step = "called" =>
         checkout[o].invoice \in Invoices /\ invoice[checkout[o].invoice].order = o

\* An invoice that exists is of an order, and is paid only by its address
Invoiced ==
  \A i \in Invoices :
    /\ invoice[i].order = None <=> invoice[i].status = None
    /\ invoice[i].status \in Settled \cup {"FAILED"} => Disclosed(i)

\* The vendor tells what happened
Truthful ==
  \A e \in sent :
    /\ invoice[e.invoice].status \notin {None, "PENDING"}
    /\ Reported(e.status) = "paid" => invoice[e.invoice].status \in Settled
    /\ e.status # "PENDING"

\* ... and is not late before it says so
Announced ==
  \A i \in Invoices : invoice[i].status \in {"EXPIRED", "FAILED"} => ~OnTime(i)

Holds(h) == pc[h] \in {"lookup", "commit"}

\* What a request that holds the order has found is so
Handling ==
  \A h \in Handlers :
    /\ pc[h] # "idle" => event[h] \in sent
    /\ Holds(h) => /\ order[OrderOf(event[h])].state # None
                   /\ event[h].invoice \notin Mismatched
                   /\ verdict[h] = Verdict(event[h])

\* An order is held by one request
Exclusive ==
  \A g, h \in Handlers : Holds(g) /\ Holds(h) /\ g # h => OrderOf(event[g]) # OrderOf(event[h])

PaidAreCredited == credited = {o \in Orders : order[o].state = "paid"}

\* A processed key of a payment has credited its order, unless the vendor takes
\* money for an invoice that it has reported as expired or failed
KeyCredited(i) ==
  /\ invoice[i].status \notin {None, "PENDING"}
  /\ OnTime(i) /\ invoice[i].status \in Settled => invoice[i].order \in credited
AnswerCredits(h) ==
  pc[h] = "answer" /\ Reported(event[h].status) = "paid" /\ OnTime(event[h].invoice)
    => OrderOf(event[h]) \in credited

Processed ==
  /\ \A i \in inbox : KeyCredited(i)
  /\ \A h \in Handlers : AnswerCredits(h)
  /\ AckedOnTimeIsCredited

PayInv ==
  /\ TypeOK
  /\ Ordered
  /\ Invoiced
  /\ Truthful
  /\ Announced
  /\ Handling
  /\ Exclusive
  /\ PaidAreCredited
  /\ CreditedIsPaid
  /\ Processed

-----------------------------------------------------------------------------
(* The invariant *)

LEMMA InitInv == Init => PayInv
<1> SUFFICES ASSUME Init PROVE PayInv
  OBVIOUS
<1>1. TypeOK
  BY PaymentConstants DEF Init, TypeOK, NoOrder, OrderRows, NoCheckout, NoEvent, NoInvoice
<1>2. Ordered /\ Invoiced
  BY DEF Init, Ordered, Invoiced, Settled, NoOrder, NoCheckout, NoInvoice, None
<1>3. Truthful /\ Announced /\ Handling /\ Exclusive /\ CreditedIsPaid /\ Processed
  BY
     DEF Init, Truthful, Announced, NoInvoice, None, Handling, Exclusive, Holds, CreditedIsPaid, Processed, KeyCredited,
         AnswerCredits, AckedOnTimeIsCredited
<1>4. PaidAreCredited
  BY DEF Init, PaidAreCredited, NoOrder, None
<1> QED
  BY <1>1, <1>2, <1>3, <1>4 DEF PayInv

\* An event that was sent is of an invoice that exists, and of its order
LEMMA SentEvent ==
  ASSUME PayInv, NEW e \in sent
  PROVE  /\ e \in Events /\ e.invoice \in Invoices /\ e.status \in VendorStatus
         /\ invoice[e.invoice].status \notin {None, "PENDING"}
         /\ OrderOf(e) = invoice[e.invoice].order
         /\ OrderOf(e) \in Orders /\ OrderOf(e) # None
         /\ order[OrderOf(e)] \in OrderRows
<1>1. e \in Events /\ e.invoice \in Invoices /\ e.status \in VendorStatus
  BY DEF PayInv, TypeOK, Events
<1>2. invoice[e.invoice].status \notin {None, "PENDING"}
  BY DEF PayInv, Truthful
<1>3. invoice[e.invoice].order \in Orders /\ invoice[e.invoice].order # None
  BY <1>1, <1>2 DEF PayInv, TypeOK, Invoiced
<1> QED
  BY <1>1, <1>2, <1>3 DEF OrderOf, PayInv, TypeOK

\* The invoice of an event of a payment is the one its order gave out
LEMMA PaidEvent ==
  ASSUME PayInv, NEW e \in sent, Reported(e.status) = "paid"
  PROVE  /\ invoice[e.invoice].status \in Settled
         /\ order[OrderOf(e)].invoice = e.invoice
<1>1. invoice[e.invoice].status \in Settled
  BY DEF PayInv, Truthful
<1> QED
  BY <1>1, SentEvent DEF PayInv, Invoiced, Disclosed, OrderOf

\* The steps of a request for a checkout, which creates no order but its own
LEMMA CheckoutInv ==
  ASSUME PayInv, NEW o \in Orders,
         BeginCheckout(o) \/ CommitCheckout(o) \/ FailCheckout(o)
  PROVE  PayInv'
<1>1. UNCHANGED <<inbox, credited, balance, requests, vendor>>
  BY DEF BeginCheckout, CommitCheckout, FailCheckout, db
<1>2. order[o] \in OrderRows /\ checkout[o].invoice \in Invoices \cup {None}
  BY DEF PayInv, TypeOK
<1>3. TypeOK'
  <2>1. CASE BeginCheckout(o)
    BY <1>1, <2>1 DEF PayInv, TypeOK, BeginCheckout, db, requests, vendor
  <2>2. CASE CommitCheckout(o)
    <3>1. [state |-> "pending", invoice |-> checkout[o].invoice] \in OrderRows
      BY <1>2 DEF OrderRows
    <3> QED
      BY <1>1, <2>2, <3>1 DEF PayInv, TypeOK, CommitCheckout, NoCheckout, requests, vendor
  <2>3. CASE FailCheckout(o)
    <3>1. faults' \in 0 .. MaxFaults
      BY <2>3, PaymentConstants DEF PayInv, TypeOK, FailCheckout
    <3> QED
      BY <1>1, <2>3, <3>1 DEF PayInv, TypeOK, FailCheckout, NoCheckout, db, requests, vendor
  <2> QED
    BY <2>1, <2>2, <2>3
<1>4. \/ UNCHANGED order
      \/ /\ checkout[o].step = "called"
         /\ order' = [order EXCEPT ![o] = [state |-> "pending", invoice |-> checkout[o].invoice]]
         /\ checkout' = [checkout EXCEPT ![o] = NoCheckout]
  BY DEF BeginCheckout, CommitCheckout, FailCheckout, db
<1>5. /\ \A p \in Orders : order[p].state # None => order'[p] = order[p]
      /\ \A p \in Orders : p # o => order'[p] = order[p] /\ checkout'[p] = checkout[p]
      /\ order'[o].state = "paid" => order[o].state = "paid"
  BY <1>4, <1>2 DEF PayInv, TypeOK, Ordered, BeginCheckout, CommitCheckout, FailCheckout
<1>6. Ordered'
  <2>1. CASE BeginCheckout(o)
    BY <1>1, <2>1 DEF PayInv, TypeOK, Ordered, BeginCheckout, db, vendor
  <2>2. CASE CommitCheckout(o)
    <3>1. checkout[o].invoice \in Invoices /\ invoice[checkout[o].invoice].order = o
      BY <2>2 DEF PayInv, Ordered, CommitCheckout
    <3>2. /\ order'[o].state = "pending" /\ order'[o].invoice = checkout[o].invoice
          /\ checkout'[o].step = "idle"
      BY <2>2 DEF PayInv, TypeOK, CommitCheckout, NoCheckout
    <3> QED
      BY <1>1, <1>5, <3>1, <3>2 DEF PayInv, Ordered, vendor, None
  <2>3. CASE FailCheckout(o)
    BY <1>1, <2>3 DEF PayInv, TypeOK, Ordered, FailCheckout, NoCheckout, db, vendor
  <2> QED
    BY <2>1, <2>2, <2>3
<1>7. Invoiced'
  <2>1. ASSUME NEW i \in Invoices, Disclosed(i) PROVE Disclosed(i)'
    <3>1. invoice[i].order \in Orders /\ order[invoice[i].order].invoice = i
      BY <2>1 DEF Disclosed, PayInv, TypeOK
    <3>2. order[invoice[i].order].state # None
      BY <3>1, PaymentConstants DEF PayInv, Ordered
    <3> QED
      BY <1>1, <1>5, <2>1, <3>1, <3>2 DEF Disclosed, vendor
  <2> QED
    BY <1>1, <2>1 DEF PayInv, Invoiced, vendor
<1>8. Truthful' /\ Announced'
  BY <1>1 DEF PayInv, Truthful, Announced, OnTime, vendor
<1>9. Handling' /\ Exclusive'
  <2>1. \A h \in Handlers : Holds(h) => order'[OrderOf(event[h])] = order[OrderOf(event[h])]
    <3> SUFFICES ASSUME NEW h \in Handlers, Holds(h)
                 PROVE  order'[OrderOf(event[h])] = order[OrderOf(event[h])]
      OBVIOUS
    <3>1. event[h] \in sent /\ order[OrderOf(event[h])].state # None
      BY DEF PayInv, Handling, Holds
    <3> QED
      BY <1>5, <3>1, SentEvent
  <2> QED
    BY <1>1, <2>1 DEF PayInv, Handling, Exclusive, Holds, OrderOf, Verdict, requests, vendor
<1>10. PaidAreCredited' /\ CreditedIsPaid'
  <2>1. \A p \in Orders : order'[p].state = "paid" <=> order[p].state = "paid"
    BY <1>5 DEF None
  <2>2. \A p \in credited : p \in Orders /\ order[p].state = "paid" /\ order'[p] = order[p]
    BY <1>5 DEF PayInv, PaidAreCredited, None
  <2> QED
    BY <1>1, <2>1, <2>2 DEF PayInv, PaidAreCredited, CreditedIsPaid, vendor
<1>11. Processed'
  BY <1>1
     DEF PayInv, Processed, KeyCredited, AnswerCredits, AckedOnTimeIsCredited, OnTime, OrderOf,
         requests, vendor
<1> QED
  BY <1>3, <1>6, <1>7, <1>8, <1>9, <1>10, <1>11 DEF PayInv

\* A new invoice: nothing is known of it yet
LEMMA InvoiceInv ==
  ASSUME PayInv, NEW o \in Orders, NEW i \in Invoices, CreateInvoice(o, i)
  PROVE  PayInv'
<1>1. /\ checkout[o].step = "calling" /\ invoice[i].status = None
      /\ invoice' = [invoice EXCEPT ![i] = [order |-> o, status |-> "PENDING"]]
      /\ checkout' = [checkout EXCEPT ![o] = [step |-> "called", invoice |-> i]]
      /\ UNCHANGED <<db, requests, sent, acked, faults>>
  BY DEF CreateInvoice
<1>2. /\ invoice[i].order = None /\ o # None
      /\ invoice'[i].order = o /\ invoice'[i].status = "PENDING"
      /\ \A k \in Invoices : k # i => invoice'[k] = invoice[k]
  BY <1>1, PaymentConstants DEF PayInv, TypeOK, Invoiced
<1>3. TypeOK'
  <2>1. "PENDING" \in VendorStatus
    BY DEF VendorStatus
  <2> QED
    BY <1>1, <2>1 DEF PayInv, TypeOK, db, requests
<1>4. \A k \in Invoices : invoice[k].order \in Orders => k # i
  BY <1>2, PaymentConstants
<1>5. Ordered'
  <2>1. /\ order[o].state = None
        /\ checkout'[o].invoice = i
        /\ \A p \in Orders : p # o => checkout'[p] = checkout[p]
    BY <1>1 DEF PayInv, TypeOK, Ordered
  <2> QED
    BY <1>1, <1>2, <1>4, <2>1 DEF PayInv, Ordered, db
<1>6. Invoiced'
  BY <1>1, <1>2 DEF PayInv, Invoiced, Disclosed, Settled, db, None
<1>7. \A e \in sent : /\ e.invoice \in Invoices /\ e.invoice # i
                      /\ invoice'[e.invoice] = invoice[e.invoice]
  BY <1>1, <1>2, SentEvent
<1>8. Truthful' /\ Announced'
  BY <1>1, <1>2, <1>7 DEF PayInv, Truthful, Announced, OnTime
<1>9. Handling' /\ Exclusive'
  BY <1>1, <1>7 DEF PayInv, Handling, Exclusive, Holds, OrderOf, Verdict, db, requests
<1>10. PaidAreCredited' /\ CreditedIsPaid'
  <2>1. \A p \in credited : /\ order[p].invoice \in Invoices
                            /\ invoice'[order[p].invoice] = invoice[order[p].invoice]
    BY <1>2, <1>4 DEF PayInv, PaidAreCredited, Ordered, None
  <2> QED
    BY <1>1, <2>1 DEF PayInv, PaidAreCredited, CreditedIsPaid, db
<1>11. Processed'
  <2>1. \A k \in inbox : k \in Invoices /\ invoice'[k] = invoice[k]
    BY <1>1, <1>2 DEF PayInv, Processed, KeyCredited, AnswerCredits, TypeOK
  <2>2. acked \subseteq sent
    BY DEF PayInv, TypeOK
  <2>3. \A h \in Handlers : pc[h] = "answer" => event[h] \in sent
    BY DEF PayInv, Handling
  <2> QED
    BY <1>1, <1>7, <2>1, <2>2, <2>3
       DEF PayInv, Processed, KeyCredited, AnswerCredits, AckedOnTimeIsCredited, OnTime, OrderOf, db, requests
<1> QED
  BY <1>3, <1>5, <1>6, <1>8, <1>9, <1>10, <1>11 DEF PayInv

\* What the vendor may do with an invoice
LEMMA MoveCases ==
  ASSUME PayInv, NEW i \in Invoices, Pay(i) \/ Decline(i) \/ Settle(i) \/ Expire(i)
  PROVE  \E to \in {"PAID", "SETTLED", "FAILED", "EXPIRED"} :
           /\ invoice' = [invoice EXCEPT ![i].status = to]
           /\ sent' = sent \cup {[invoice |-> i, status |-> to]}
           /\ UNCHANGED <<db, checkout, requests, acked, faults>>
           /\ invoice[i].status # None
           /\ invoice[i].status \in Settled => to \in Settled
           /\ to \in Settled \cup {"FAILED"} => Disclosed(i)
<1>1. CASE Pay(i)
  BY <1>1, PaymentConstants DEF Pay, Move, Settled, None
<1>2. CASE Decline(i)
  BY <1>2 DEF Decline, Move, Settled, None
<1>3. CASE Settle(i)
  <2>1. Disclosed(i)
    BY <1>3 DEF Settle, Move, PayInv, Invoiced, Settled
  <2> QED
    BY <1>3, <2>1 DEF Settle, Move, Settled, None
<1>4. CASE Expire(i)
  BY <1>4 DEF Expire, Move, Settled, None
<1> QED
  BY <1>1, <1>2, <1>3, <1>4

\* A step of the vendor
LEMMA VendorInv ==
  ASSUME PayInv, NEW i \in Invoices, Pay(i) \/ Decline(i) \/ Settle(i) \/ Expire(i)
  PROVE  PayInv'
<1>1. PICK to \in {"PAID", "SETTLED", "FAILED", "EXPIRED"} :
         /\ invoice' = [invoice EXCEPT ![i].status = to]
         /\ sent' = sent \cup {[invoice |-> i, status |-> to]}
         /\ UNCHANGED <<db, checkout, requests, acked, faults>>
         /\ invoice[i].status # None
         /\ invoice[i].status \in Settled => to \in Settled
         /\ to \in Settled \cup {"FAILED"} => Disclosed(i)
  BY MoveCases
<1>2. /\ \A k \in Invoices : invoice'[k].order = invoice[k].order
      /\ \A k \in Invoices : k # i => invoice'[k] = invoice[k]
      /\ invoice'[i].status = to
      /\ invoice[i].order # None
  BY <1>1 DEF PayInv, TypeOK, Invoiced
<1>3. TypeOK'
  <2>1. to \in VendorStatus /\ [invoice |-> i, status |-> to] \in Events
    BY <1>1 DEF VendorStatus, Events
  <2>2. invoice' \in [Invoices -> [order : Orders \cup {None}, status : VendorStatus \cup {None}]]
    BY <1>1, <2>1 DEF PayInv, TypeOK
  <2>3. sent' \subseteq Events /\ acked' \subseteq sent'
    BY <1>1, <2>1 DEF PayInv, TypeOK
  <2> QED
    BY <1>1, <2>2, <2>3 DEF PayInv, TypeOK, db, requests
<1>4. Ordered'
  BY <1>1, <1>2 DEF PayInv, Ordered, db
<1>5. Invoiced'
  BY <1>1, <1>2 DEF PayInv, Invoiced, Disclosed, db, None
<1>6. Truthful'
  <2>1. ASSUME NEW e \in sent, e.invoice = i
        PROVE  /\ Reported(e.status) = "paid" => to \in Settled
               /\ e.status # "PENDING"
    BY <1>1, <2>1 DEF PayInv, Truthful, Settled
  <2>2. \A e \in sent : e.invoice # i => invoice'[e.invoice] = invoice[e.invoice]
    BY <1>2, SentEvent
  <2>3. Reported(to) = "paid" => to \in Settled
    BY <1>1 DEF Reported, Settled
  <2> QED
    BY <1>1, <1>2, <2>1, <2>2, <2>3 DEF PayInv, Truthful, None
<1>11. Announced' /\ \A k \in Invoices : OnTime(k)' => OnTime(k)
  BY <1>1, <1>2 DEF PayInv, Announced, OnTime
<1>7. \A e \in sent : invoice'[e.invoice].order = invoice[e.invoice].order
  BY <1>2, SentEvent
<1>8. Handling' /\ Exclusive'
  BY <1>1, <1>7 DEF PayInv, Handling, Exclusive, Holds, OrderOf, Verdict, db, requests
<1>9. PaidAreCredited' /\ CreditedIsPaid'
  <2>1. \A p \in credited :
          /\ order[p].invoice \in Invoices
          /\ invoice'[order[p].invoice].order = p
          /\ invoice'[order[p].invoice].status \in Settled
    BY <1>1, <1>2 DEF PayInv, PaidAreCredited, Ordered, CreditedIsPaid, Settled, None
  <2>2. \A p \in credited : order[p].invoice \notin Mismatched
    BY DEF PayInv, CreditedIsPaid
  <2>3. invoice' \in [Invoices -> [order : Orders \cup {None}, status : VendorStatus \cup {None}]]
    BY <1>3 DEF TypeOK
  <2>4. \A p \in credited : invoice'[order[p].invoice] \in [order : {p}, status : Settled]
    BY <2>1, <2>3
  <2> QED
    BY <1>1, <2>2, <2>4 DEF PayInv, PaidAreCredited, CreditedIsPaid, Settled, db
<1>10. Processed'
  <2>1. ASSUME NEW k \in inbox
        PROVE  /\ invoice'[k].status \notin {None, "PENDING"}
               /\ OnTime(k)' /\ invoice'[k].status \in Settled => invoice'[k].order \in credited
    <3>1. k \in Invoices /\ invoice[k].status \notin {None, "PENDING"}
      BY DEF PayInv, TypeOK, Processed, KeyCredited, AnswerCredits
    <3>2. OnTime(k)' /\ invoice'[k].status \in Settled => invoice[k].status \in Settled
      <4>1. OnTime(k)' => invoice[k].status \notin {"EXPIRED", "FAILED"}
        BY <1>11, <3>1 DEF PayInv, Announced
      <4>2. invoice[k].status \in VendorStatus \cup {None}
        BY <3>1 DEF PayInv, TypeOK
      <4> QED
        BY <3>1, <4>1, <4>2 DEF Settled, VendorStatus
    <3> QED
      BY <1>1, <1>2, <1>11, <3>1, <3>2 DEF PayInv, Processed, KeyCredited, AnswerCredits, None
  <2>2. acked \subseteq sent
    BY DEF PayInv, TypeOK
  <2>3. \A h \in Handlers : pc[h] = "answer" => event[h] \in sent
    BY DEF PayInv, Handling
  <2>4. \A n \in inbox : KeyCredited(n)'
    BY <1>1, <2>1 DEF KeyCredited, db
  <2>5. \A e \in sent : e.invoice \in Invoices
    BY SentEvent
  <2>6. \A h \in Handlers : AnswerCredits(h)'
    BY <1>1, <1>7, <1>11, <2>3, <2>5 DEF PayInv, Processed, AnswerCredits, OrderOf, db, requests
  <2>7. AckedOnTimeIsCredited'
    BY <1>1, <1>7, <1>11, <2>2, <2>5 DEF PayInv, Processed, AckedOnTimeIsCredited, OrderOf, db
  <2> QED
    BY <1>1, <2>4, <2>6, <2>7 DEF Processed, db
<1> QED
  BY <1>3, <1>4, <1>5, <1>6, <1>8, <1>9, <1>10, <1>11 DEF PayInv

\* A request that goes back to idle, which only an answer reports to the vendor
LEMMA IdleInv ==
  ASSUME PayInv, NEW h \in Handlers, Idle(h), UNCHANGED <<db, checkout, invoice, sent>>,
         faults' \in 0 .. MaxFaults,
         \/ UNCHANGED acked
         \/ pc[h] = "answer" /\ acked' = acked \cup {event[h]}
  PROVE  PayInv'
<1>1. /\ pc' = [pc EXCEPT ![h] = "idle"]
      /\ event' = [event EXCEPT ![h] = NoEvent]
      /\ verdict' = [verdict EXCEPT ![h] = None]
  BY DEF Idle, Step
<1>2. pc[h] = "answer" => event[h] \in sent
  BY DEF PayInv, Handling
<1>3. TypeOK'
  BY <1>1, <1>2 DEF PayInv, TypeOK, db
<1>4. Ordered' /\ Invoiced' /\ Truthful' /\ Announced' /\ PaidAreCredited' /\ CreditedIsPaid'
  BY DEF PayInv, Ordered, Invoiced, Disclosed, Truthful, Announced, OnTime, PaidAreCredited, CreditedIsPaid, db
<1>5. /\ pc'[h] = "idle"
      /\ \A g \in Handlers : g # h => pc'[g] = pc[g] /\ event'[g] = event[g] /\ verdict'[g] = verdict[g]
  BY <1>1 DEF PayInv, TypeOK
<1>6. Handling' /\ Exclusive'
  BY <1>5 DEF PayInv, Handling, Exclusive, Holds, OrderOf, Verdict, db
<1>7. Processed'
  BY <1>5 DEF PayInv, Processed, KeyCredited, AnswerCredits, AckedOnTimeIsCredited, OnTime, OrderOf, db
<1> QED
  BY <1>3, <1>4, <1>6, <1>7 DEF PayInv

LEMMA AcceptInv ==
  ASSUME PayInv, NEW h \in Handlers, NEW e \in Events, Accept(h, e)
  PROVE  PayInv'
<1>1. /\ e \in sent
      /\ event' = [event EXCEPT ![h] = e]
      /\ pc' = [pc EXCEPT ![h] = IF e.invoice \in inbox THEN "answer" ELSE "order"]
      /\ UNCHANGED <<db, checkout, verdict, vendor, faults>>
  BY DEF Accept, Step, KeyOf
<1>2. TypeOK'
  BY <1>1 DEF PayInv, TypeOK, db, vendor
<1>3. Ordered' /\ Invoiced' /\ Truthful' /\ Announced' /\ PaidAreCredited' /\ CreditedIsPaid'
  BY <1>1 DEF PayInv, Ordered, Invoiced, Disclosed, Truthful, Announced, OnTime, PaidAreCredited, CreditedIsPaid,
              db, vendor
<1>4. /\ pc'[h] = IF e.invoice \in inbox THEN "answer" ELSE "order"
      /\ event'[h] = e
      /\ \A g \in Handlers : g # h => pc'[g] = pc[g] /\ event'[g] = event[g]
  BY <1>1 DEF PayInv, TypeOK
<1>5. Handling' /\ Exclusive'
  BY <1>1, <1>4 DEF PayInv, Handling, Exclusive, Holds, OrderOf, Verdict, db, vendor
<1>6. e.invoice \in inbox /\ OnTime(e.invoice) /\ Reported(e.status) = "paid" => OrderOf(e) \in credited
  BY <1>1, PaidEvent DEF PayInv, Processed, KeyCredited, AnswerCredits, OrderOf
<1>7. Processed'
  BY <1>1, <1>4, <1>6
     DEF PayInv, Processed, KeyCredited, AnswerCredits, AckedOnTimeIsCredited, OnTime, OrderOf, db, vendor
<1> QED
  BY <1>2, <1>3, <1>5, <1>7 DEF PayInv

\* The lock of the order makes its verdict hold until the commit
LEMMA LockOrderInv ==
  ASSUME PayInv, NEW h \in Handlers, LockOrder(h)
  PROVE  PayInv'
<1> DEFINE e == event[h]
<1>1. /\ pc[h] = "order"
      /\ \A g \in Handlers : ~(Holds(g) /\ OrderOf(event[g]) = OrderOf(e))
      /\ ~Refusable(e)
      /\ verdict' = [verdict EXCEPT ![h] = Verdict(e)]
      /\ pc' = [pc EXCEPT ![h] = IF Verdict(e) = "paid" THEN "lookup" ELSE "commit"]
      /\ UNCHANGED <<db, checkout, event, vendor, faults>>
  BY DEF LockOrder, HoldsOrder, Holds, Step
<1>2. e \in sent
  BY <1>1 DEF PayInv, Handling
<1>3. /\ order[OrderOf(e)].state # None
      /\ e.invoice \notin Mismatched
      /\ Verdict(e) \in {None, "paid", "failed", "expired"}
  BY <1>1 DEF Refusable, Verdict, Reported
<1>4. TypeOK'
  BY <1>1, <1>3 DEF PayInv, TypeOK, db, vendor
<1>5. Ordered' /\ Invoiced' /\ Truthful' /\ Announced' /\ PaidAreCredited' /\ CreditedIsPaid'
  BY <1>1 DEF PayInv, Ordered, Invoiced, Disclosed, Truthful, Announced, OnTime, PaidAreCredited, CreditedIsPaid,
              db, vendor
<1>6. /\ pc'[h] \in {"lookup", "commit"} /\ verdict'[h] = Verdict(e)
      /\ \A g \in Handlers : g # h => pc'[g] = pc[g] /\ verdict'[g] = verdict[g]
  BY <1>1 DEF PayInv, TypeOK
<1>7. Handling'
  <2>1. \A f \in sent : (order[OrderOf(f)].state)' = order[OrderOf(f)].state /\ Verdict(f)' = Verdict(f)
    BY <1>1 DEF OrderOf, Verdict, db, vendor
  <2>2. OrderOf(e)' = OrderOf(e) /\ event' = event /\ sent' = sent
    BY <1>1 DEF OrderOf, vendor
  <2>3. ASSUME NEW g \in Handlers
        PROVE  /\ (pc[g] # "idle" => event[g] \in sent)'
               /\ (Holds(g) => /\ order[OrderOf(event[g])].state # None
                              /\ event[g].invoice \notin Mismatched
                              /\ verdict[g] = Verdict(event[g]))'
    <3>1. CASE g = h
      BY <1>1, <1>2, <1>3, <1>6, <2>1, <2>2, <3>1
    <3>2. CASE g # h
      BY <1>6, <2>1, <2>2, <3>2 DEF PayInv, Handling, Holds, OrderOf
    <3> QED
      BY <3>1, <3>2
  <2> QED
    BY <2>3 DEF Handling
<1>8. Exclusive'
  BY <1>1, <1>6 DEF PayInv, Exclusive, Holds, OrderOf, vendor
<1>9. Processed'
  BY <1>1, <1>6
     DEF PayInv, Processed, KeyCredited, AnswerCredits, AckedOnTimeIsCredited, OnTime, OrderOf, db, vendor
<1> QED
  BY <1>4, <1>5, <1>7, <1>8, <1>9 DEF PayInv

\* The vendor confirms the payment, or the request ends
LEMMA LookupInv ==
  ASSUME PayInv, NEW h \in Handlers, Lookup(h)
  PROVE  PayInv'
<1>1. pc[h] = "lookup" /\ UNCHANGED <<db, checkout, vendor, faults>>
  BY DEF Lookup
<1>2. CASE Idle(h)
  BY <1>1, <1>2, IdleInv DEF vendor, PayInv, TypeOK
<1>3. CASE Step(h, "commit") /\ UNCHANGED <<event, verdict>>
  <2>1. /\ pc'[h] = "commit" /\ pc' = [pc EXCEPT ![h] = "commit"]
        /\ \A g \in Handlers : g # h => pc'[g] = pc[g]
    BY <1>3 DEF PayInv, TypeOK, Step
  <2>2. TypeOK'
    BY <1>1, <1>3, <2>1 DEF PayInv, TypeOK, db, vendor
  <2>3. Ordered' /\ Invoiced' /\ Truthful' /\ Announced' /\ PaidAreCredited' /\ CreditedIsPaid'
    BY <1>1 DEF PayInv, Ordered, Invoiced, Disclosed, Truthful, Announced, OnTime, PaidAreCredited, CreditedIsPaid,
                db, vendor
  <2>4. Handling' /\ Exclusive'
    BY <1>1, <1>3, <2>1 DEF PayInv, Handling, Exclusive, Holds, OrderOf, Verdict, db, vendor
  <2>5. Processed'
    BY <1>1, <1>3, <2>1
       DEF PayInv, Processed, KeyCredited, AnswerCredits, AckedOnTimeIsCredited, OnTime, OrderOf, db, vendor
  <2> QED
    BY <2>2, <2>3, <2>4, <2>5 DEF PayInv
<1> QED
  BY <1>2, <1>3 DEF Lookup

\* What a request that commits knows of its event and its order
LEMMA CommitFacts ==
  ASSUME PayInv, NEW h \in Handlers, Commit(h)
  PROVE  LET e == event[h]
             o == OrderOf(event[h])
         IN  /\ e \in sent /\ e.invoice \in Invoices /\ o \in Orders
             /\ invoice[e.invoice].order = o
             /\ order[o].state # None
             /\ e.invoice \notin Mismatched
             /\ verdict[h] \in {None, "paid", "failed", "expired"}
             /\ verdict[h] # None => order[o].state # "paid" /\ verdict[h] = Reported(e.status)
             /\ verdict[h] = None => order[o].state = "paid"
             /\ verdict[h] = "paid" => /\ invoice[e.invoice].status \in Settled
                                      /\ order[o].invoice = e.invoice
             /\ verdict[h] \in {"failed", "expired"} => e.status \in {"FAILED", "EXPIRED"}
<1>1. Holds(h) /\ pc[h] # "idle"
  BY DEF Commit, Holds
<1>2. /\ event[h] \in sent /\ order[OrderOf(event[h])].state # None
      /\ event[h].invoice \notin Mismatched /\ verdict[h] = Verdict(event[h])
      /\ verdict[h] \in {None, "paid", "failed", "expired"}
  BY <1>1 DEF PayInv, Handling, TypeOK
<1>3. /\ verdict[h] # None => /\ order[OrderOf(event[h])].state # "paid"
                             /\ verdict[h] = Reported(event[h].status)
      /\ verdict[h] = None => order[OrderOf(event[h])].state = "paid"
  BY <1>2 DEF Verdict, Reported, None
<1>4. verdict[h] \in {"failed", "expired"} => event[h].status \in {"FAILED", "EXPIRED"}
  BY <1>3 DEF Reported, None
<1> QED
  BY <1>2, <1>3, <1>4, SentEvent, PaidEvent DEF None

\* The commit moves one order, and credits it when its payment is confirmed
LEMMA CommitStep ==
  ASSUME PayInv, NEW h \in Handlers, Commit(h)
  PROVE  LET o == OrderOf(event[h])
         IN  /\ \A p \in Orders : p # o => order'[p] = order[p]
             /\ order'[o].invoice = order[o].invoice
             /\ order'[o].state = IF verdict[h] = None THEN order[o].state ELSE verdict[h]
             /\ order[o].state = "paid" => order' = order
             /\ order' \in [Orders -> OrderRows]
             /\ credited' = IF verdict[h] = "paid" THEN credited \cup {o} ELSE credited
             /\ balance' = IF verdict[h] = "paid"
                           THEN [balance EXCEPT ![OrderWallet[o]] = @ + TokenUnits[o]]
                           ELSE balance
             /\ verdict[h] = "paid" => o \notin credited
<1> DEFINE o == OrderOf(event[h])
<1>1. /\ o \in Orders /\ order[o].state # None
      /\ verdict[h] \in {None, "paid", "failed", "expired"}
      /\ verdict[h] # None => order[o].state # "paid"
  BY CommitFacts
<1>2. verdict[h] = "paid" => o \notin credited
  BY <1>1 DEF PayInv, PaidAreCredited, None
<1>3. /\ IF verdict[h] = None THEN UNCHANGED order
         ELSE order' = [order EXCEPT ![o].state = verdict[h]]
      /\ IF verdict[h] = "paid" THEN Credit(o) ELSE UNCHANGED <<credited, balance>>
  BY DEF Commit
<1>4. order \in [Orders -> OrderRows]
  BY DEF PayInv, TypeOK
<1> HIDE DEF o
<1>5. /\ \A p \in Orders : p # o => order'[p] = order[p]
      /\ order'[o].invoice = order[o].invoice
      /\ order'[o].state = IF verdict[h] = None THEN order[o].state ELSE verdict[h]
      /\ order[o].state = "paid" => order' = order
      /\ order' \in [Orders -> OrderRows]
  BY <1>1, <1>3, <1>4 DEF OrderRows
<1>6. /\ credited' = IF verdict[h] = "paid" THEN credited \cup {o} ELSE credited
      /\ balance' = IF verdict[h] = "paid"
                    THEN [balance EXCEPT ![OrderWallet[o]] = @ + TokenUnits[o]]
                    ELSE balance
  BY <1>2, <1>3 DEF Credit
<1> QED
  BY <1>2, <1>5, <1>6 DEF o

LEMMA CommitInv ==
  ASSUME PayInv, NEW h \in Handlers, Commit(h)
  PROVE  PayInv'
<1> DEFINE e == event[h]
           o == OrderOf(event[h])
<1>1. /\ e \in sent /\ e.invoice \in Invoices /\ o \in Orders
      /\ invoice[e.invoice].order = o
      /\ order[o].state # None
      /\ e.invoice \notin Mismatched
      /\ verdict[h] \in {None, "paid", "failed", "expired"}
      /\ verdict[h] # None => order[o].state # "paid" /\ verdict[h] = Reported(e.status)
      /\ verdict[h] = None => order[o].state = "paid"
      /\ verdict[h] = "paid" => /\ invoice[e.invoice].status \in Settled
                               /\ order[o].invoice = e.invoice
      /\ verdict[h] \in {"failed", "expired"} => e.status \in {"FAILED", "EXPIRED"}
  BY CommitFacts
<1>2. /\ \A p \in Orders : p # o => order'[p] = order[p]
      /\ order'[o].invoice = order[o].invoice
      /\ order'[o].state = IF verdict[h] = None THEN order[o].state ELSE verdict[h]
      /\ order' \in [Orders -> OrderRows]
      /\ credited' = IF verdict[h] = "paid" THEN credited \cup {o} ELSE credited
      /\ balance' = IF verdict[h] = "paid"
                    THEN [balance EXCEPT ![OrderWallet[o]] = @ + TokenUnits[o]]
                    ELSE balance
  BY CommitStep
<1>3. /\ pc[h] = "commit"
      /\ inbox' = inbox \cup {e.invoice}
      /\ pc' = [pc EXCEPT ![h] = "answer"]
      /\ UNCHANGED <<checkout, event, verdict, invoice, sent, acked, faults>>
  BY DEF Commit, Step, KeyOf, vendor
<1>4. /\ pc'[h] = "answer"
      /\ \A g \in Handlers : g # h => pc'[g] = pc[g]
  BY <1>3 DEF PayInv, TypeOK
<1> HIDE DEF o, e
<1>5. TypeOK'
  <2>1. balance' \in [Wallets -> Nat]
    <3>1. /\ OrderWallet[o] \in Wallets /\ TokenUnits[o] \in Nat
          /\ balance \in [Wallets -> Nat]
      BY <1>1, PaymentConstants DEF PayInv, TypeOK
    <3>2. balance[OrderWallet[o]] + TokenUnits[o] \in Nat
      BY <3>1
    <3> QED
      BY <1>2, <3>1, <3>2
  <2> QED
    BY <1>1, <1>2, <1>3, <2>1 DEF PayInv, TypeOK
<1>6. /\ \A p \in Orders : order'[p].invoice = order[p].invoice
      /\ \A p \in Orders : order'[p].state = None <=> order[p].state = None
  BY <1>1, <1>2 DEF None
<1>7. Ordered' /\ Truthful' /\ Announced'
  BY <1>3, <1>6 DEF PayInv, Ordered, Truthful, Announced, OnTime
<1>8. Invoiced'
  <2>1. \A i \in Invoices : invoice[i].order \in Orders \cup {None}
    BY DEF PayInv, TypeOK
  <2> QED
    BY <1>3, <1>6, <2>1 DEF PayInv, Invoiced, Disclosed
<1>9. Handling' /\ Exclusive'
  <2>1. Holds(h) /\ ~Holds(h)'
    BY <1>3, <1>4 DEF Holds
  <2>2. ASSUME NEW g \in Handlers, Holds(g)'
        PROVE  /\ g # h /\ Holds(g) /\ OrderOf(event[g]) \in Orders
               /\ order'[OrderOf(event[g])] = order[OrderOf(event[g])]
    <3>1. g # h /\ Holds(g)
      BY <1>4, <2>1, <2>2 DEF Holds
    <3>2. OrderOf(event[g]) # o
      BY <2>1, <3>1 DEF PayInv, Exclusive, o
    <3>3. OrderOf(event[g]) \in Orders
      BY <3>1, SentEvent DEF PayInv, Handling, Holds
    <3> QED
      BY <1>2, <3>1, <3>2, <3>3
  <2>3. \A g \in Handlers : pc'[g] # "idle" => event[g] \in sent
    BY <1>1, <1>4 DEF PayInv, Handling, e
  <2> QED
    BY <1>3, <2>2, <2>3 DEF PayInv, Handling, Exclusive, OrderOf, Verdict
<1>10. PaidAreCredited'
  <2>1. \A p \in Orders : order'[p].state = "paid" <=> p \in credited'
    BY <1>1, <1>2 DEF PayInv, PaidAreCredited, None
  <2>2. credited' \subseteq Orders
    BY <1>5 DEF TypeOK
  <2> QED
    BY <2>1, <2>2 DEF PaidAreCredited
<1>11. CreditedIsPaid'
  <2>1. ASSUME verdict[h] = "paid"
        PROVE  invoice[e.invoice] \in [order : {o}, status : Settled]
    <3>1. invoice[e.invoice] \in [order : Orders \cup {None}, status : VendorStatus \cup {None}]
      BY <1>1 DEF PayInv, TypeOK
    <3> QED
      BY <1>1, <2>1, <3>1
  <2>2. \A p \in credited : p \in Orders
    BY DEF PayInv, TypeOK
  <2> QED
    BY <1>1, <1>2, <1>3, <1>6, <2>1, <2>2 DEF PayInv, CreditedIsPaid, Settled
<1>12. Processed'
  <2>1. Reported(e.status) = "paid" => o \in credited'
    BY <1>1, <1>2 DEF PayInv, PaidAreCredited, None
  <2>2. OnTime(e.invoice) /\ invoice[e.invoice].status \in Settled => o \in credited'
    <3>1. OnTime(e.invoice) => e.status \notin {"EXPIRED", "FAILED"}
      <4>1. e = [invoice |-> e.invoice, status |-> e.status]
        BY <1>1 DEF PayInv, TypeOK, Events
      <4> QED
        BY <1>1, <4>1 DEF OnTime
    <3> QED
      BY <1>1, <1>2, <3>1 DEF PayInv, PaidAreCredited, None
  <2>3. invoice[e.invoice].status \notin {None, "PENDING"}
    BY <1>1 DEF PayInv, Truthful
  <2>4. credited \subseteq credited'
    BY <1>2
  <2>5. /\ \A i \in inbox' : KeyCredited(i)'
        /\ AckedOnTimeIsCredited'
    BY <1>1, <1>3, <2>2, <2>3, <2>4
       DEF PayInv, Processed, KeyCredited, AckedOnTimeIsCredited, OnTime, OrderOf
  <2>6. \A g \in Handlers :
          pc'[g] = "answer" /\ Reported(event[g].status) = "paid" /\ OnTime(event[g].invoice)
            => OrderOf(event[g]) \in credited'
    BY <1>4, <2>1, <2>4 DEF PayInv, Processed, AnswerCredits, o, e
  <2>7. UNCHANGED <<event, invoice, sent>>
    BY <1>3
  <2>8. \A g \in Handlers : AnswerCredits(g)'
    BY <2>6, <2>7 DEF AnswerCredits, OnTime, OrderOf
  <2> QED
    BY <2>5, <2>8 DEF Processed
<1> QED
  BY <1>5, <1>7, <1>8, <1>9, <1>10, <1>11, <1>12 DEF PayInv

LEMMA HandlerInv ==
  ASSUME PayInv, NEW h \in Handlers,
         \/ \E e \in Events : Accept(h, e)
         \/ Refuse(h) \/ LockOrder(h) \/ Lookup(h) \/ Commit(h) \/ Answer(h) \/ Fail(h)
  PROVE  PayInv'
<1>1. faults \in 0 .. MaxFaults
  BY DEF PayInv, TypeOK
<1>2. CASE Refuse(h)
  BY <1>1, <1>2, IdleInv DEF Refuse, vendor
<1>3. CASE Answer(h)
  BY <1>1, <1>3, IdleInv DEF Answer
<1>4. CASE Fail(h)
  <2>1. faults' \in 0 .. MaxFaults
    BY <1>1, <1>4, PaymentConstants DEF Fail
  <2> QED
    BY <1>4, <2>1, IdleInv DEF Fail, vendor
<1> QED
  BY <1>2, <1>3, <1>4, AcceptInv, LockOrderInv, LookupInv, CommitInv

LEMMA StepInv == PayInv /\ [Next]_vars => PayInv'
<1> SUFFICES ASSUME PayInv, [Next]_vars PROVE PayInv'
  OBVIOUS
<1>1. CASE UNCHANGED vars
  BY <1>1 DEF vars, db, requests, vendor, PayInv, TypeOK, Ordered, Invoiced, Disclosed, Truthful,
              Announced, OnTime, Handling, Holds, OrderOf, Verdict, Exclusive, PaidAreCredited, CreditedIsPaid,
              Processed, KeyCredited, AnswerCredits, AckedOnTimeIsCredited, OnTime
<1> QED
  BY <1>1, CheckoutInv, InvoiceInv, VendorInv, HandlerInv DEF Next

LEMMA InvHolds == Spec => []PayInv
  BY InitInv, StepInv, PTL DEF Spec, Safety

-----------------------------------------------------------------------------
(* What holds of every top-up *)

\* The rows of the orders, the inbox, the requests and the invoices keep their
\* types, whatever events arrive and however often.
THEOREM PaymentTypeCorrect == Spec => []TypeOK
<1>1. PayInv => TypeOK
  BY DEF PayInv
<1> QED
  BY <1>1, InvHolds, PTL

\* An order whose tokens were credited has an invoice the vendor holds as paid,
\* of the amount of the order, for every adapter of the vendor.
THEOREM CreditedOnlyPaid == Spec => []CreditedIsPaid
<1>1. PayInv => CreditedIsPaid
  BY DEF PayInv
<1> QED
  BY <1>1, InvHolds, PTL

\* An event of a payment that was answered with 200 has credited its order, if the
\* vendor has reported no expiry and no failure of the invoice: no crash, error,
\* repetition or concurrent request loses it in the inbox.
THEOREM AcknowledgedPaymentsCredited == Spec => []AckedOnTimeIsCredited
<1>1. PayInv => AckedOnTimeIsCredited
  BY DEF PayInv, Processed
<1> QED
  BY <1>1, InvHolds, PTL

\* No event, late or repeated, moves an order that is paid.
THEOREM PaidOrdersStay == Spec => PaidIsFinal
<1>1. PayInv /\ [Next]_vars
        => [\A o \in Orders : order[o].state = "paid" => order'[o] = order[o]]_order
  <2> SUFFICES ASSUME PayInv, [Next]_vars, NEW o \in Orders, order[o].state = "paid"
               PROVE  order'[o] = order[o]
    OBVIOUS
  <2>1. CASE \E p \in Orders : CommitCheckout(p)
    <3>1. PICK p \in Orders : CommitCheckout(p)
      BY <2>1
    <3>2. p # o
      BY <3>1 DEF CommitCheckout, PayInv, Ordered, None
    <3> QED
      BY <3>1, <3>2 DEF CommitCheckout, PayInv, TypeOK
  <2>2. CASE \E h \in Handlers : Commit(h)
    <3>1. PICK h \in Handlers : Commit(h)
      BY <2>2
    <3> QED
      BY <3>1, CommitStep
  <2>3. CASE UNCHANGED order
    BY <2>3
  <2> QED
    BY <2>1, <2>2, <2>3
       DEF Next, vars, db, BeginCheckout, CreateInvoice, FailCheckout, Pay, Decline, Settle,
           Expire, Move, Accept, Refuse, LockOrder, Lookup, Answer, Fail
<1> QED
  BY <1>1, InvHolds, PTL DEF Spec, Safety, PaidIsFinal

\* The commit of a webhook is a credit of the contract or changes no account
LEMMA AccountsStep ==
  ASSUME PayInv, [Next]_vars
  PROVE  [Accounts!Next]_(Accounts!vars)
<1>1. CASE \E h \in Handlers : Commit(h)
  <2>1. PICK h \in Handlers : Commit(h)
    BY <1>1
  <2>2. CASE verdict[h] = "paid"
    <3>1. Accounts!Credit(OrderOf(event[h]))
      BY <2>1, <2>2, CommitStep DEF Accounts!Credit
    <3> QED
      BY <2>1, <3>1, CommitFacts DEF Accounts!Next
  <2>3. CASE verdict[h] # "paid"
    BY <2>1, <2>3, CommitStep DEF Accounts!vars
  <2> QED
    BY <2>2, <2>3
<1>2. CASE UNCHANGED <<balance, credited>>
  BY <1>2 DEF Accounts!vars
<1> QED
  BY <1>1, <1>2
     DEF Next, vars, db, BeginCheckout, CreateInvoice, CommitCheckout, FailCheckout, Pay, Decline,
         Settle, Expire, Move, Accept, Refuse, LockOrder, Lookup, Answer, Fail

\* The webhooks, with their repetitions, races, lookups and crashes, credit
\* orders the way TokenAccounts says: each once, by the tokens of its package.
THEOREM WebhooksImplementAccounts == Spec => CreditsRefineAccounts
<1>1. Init => Accounts!Init
  BY DEF Init, Accounts!Init
<1>2. PayInv /\ [Next]_vars => [Accounts!Next]_(Accounts!vars)
  BY AccountsStep
<1> QED
  BY <1>1, <1>2, InvHolds, PTL DEF Spec, Safety, CreditsRefineAccounts
-----------------------------------------------------------------------------
(* Sums over finite sets, by induction on the size of the set: the sum of a  *)
(* set is f of any element plus the sum of the rest, whatever order the fold *)
(* takes them in.  WalletProofs has the same lemmas and more of them.        *)

\* A set of natural numbers has a least one
LEMMA LeastNatural ==
  ASSUME NEW T, T \subseteq Nat, T # {}
  PROVE  \E n \in T : \A m \in T : n <= m
<1> DEFINE less == {p \in Nat \X Nat : p[1] < p[2]}
<1>1. IsWellFoundedOn(less, Nat)
  BY NatLessThanWellFounded DEF OpToRel
<1>2. \A x, y \in Nat : x < y => <<x, y>> \in less
  OBVIOUS
<1> HIDE DEF less
<1>3. \E x \in T : \A y \in T : ~(<<y, x>> \in less)
  BY <1>1, WFMin
<1>4. PICK n \in T : \A m \in T : ~(<<m, n>> \in less)
  BY <1>3
<1>5. ASSUME NEW m \in T PROVE n <= m
  <2>1. n \in Nat /\ m \in Nat
    OBVIOUS
  <2>2. ~(m < n)
    BY <1>2, <1>4, <2>1
  <2> QED
    BY <2>1, <2>2
<1> QED
  BY <1>5

Pick(s) == CHOOSE x \in s : TRUE
Iter(f, S) == CHOOSE h : h = [s \in SUBSET S |-> IF s = {} THEN 0 ELSE f[Pick(s)] + h[s \ {Pick(s)}]]

LEMMA SumIsIter ==
  ASSUME NEW f, NEW S
  PROVE  SumFunctionOnSet(f, S) = Iter(f, S)[S]
  BY DEF SumFunctionOnSet, FoldFunctionOnSet, MapThenFoldSet, Iter, Pick

\* What is chosen of a finite set, and what is left of it
LEMMA PickOf ==
  ASSUME NEW s, IsFiniteSet(s), s # {}
  PROVE  /\ Pick(s) \in s /\ IsFiniteSet(s \ {Pick(s)})
         /\ Cardinality(s) \in Nat /\ Cardinality(s \ {Pick(s)}) = Cardinality(s) - 1
<1>1. Pick(s) \in s
  BY DEF Pick
<1> QED
  BY <1>1, FS_RemoveElement, FS_CardinalityType

\* Of some subsets of a finite set, one is without an element none of them
LEMMA SmallestSet ==
  ASSUME NEW S, IsFiniteSet(S), NEW B, B \subseteq SUBSET S, B # {}
  PROVE  \E s \in B : IsFiniteSet(s) /\ \A x \in s : s \ {x} \notin B
<1> DEFINE sizes == {Cardinality(s) : s \in B}
<1>1. \A s \in B : IsFiniteSet(s) /\ Cardinality(s) \in Nat
  BY FS_Subset, FS_CardinalityType
<1>2. sizes \subseteq Nat /\ sizes # {}
  BY <1>1
<1>3. PICK n \in sizes : \A m \in sizes : n <= m
  BY <1>2, LeastNatural
<1>5. PICK s \in B : Cardinality(s) = n
  OBVIOUS
<1>4. ASSUME NEW x \in s PROVE s \ {x} \notin B
  <2>1. Cardinality(s \ {x}) = n - 1 /\ n \in Nat
    BY <1>1, <1>5, FS_RemoveElement
  <2>2. SUFFICES ASSUME s \ {x} \in B PROVE FALSE
    OBVIOUS
  <2> QED
    BY <1>3, <2>1, <2>2
<1> QED
  BY <1>1, <1>4

\* The recursion over the subsets of a finite set has a solution
LEMMA IterSolves ==
  ASSUME NEW S, IsFiniteSet(S), NEW f, \A x \in S : f[x] \in Int
  PROVE  /\ Iter(f, S) \in [SUBSET S -> Int]
         /\ \A s \in SUBSET S :
              Iter(f, S)[s] = IF s = {} THEN 0 ELSE f[Pick(s)] + Iter(f, S)[s \ {Pick(s)}]
<1> DEFINE Level(n)   == {s \in SUBSET S : Cardinality(s) <= n}
           Sol(h, n)  == \A s \in Level(n) :
                           h[s] = IF s = {} THEN 0 ELSE f[Pick(s)] + h[s \ {Pick(s)}]
           Good(n)    == \E h \in [Level(n) -> Int] : Sol(h, n)
<1>1. \A s \in SUBSET S : IsFiniteSet(s) /\ Cardinality(s) \in Nat /\ Cardinality(s) <= Cardinality(S)
  BY FS_Subset, FS_CardinalityType
<1>2. \A s \in SUBSET S : s # {} =>
        /\ Pick(s) \in S /\ f[Pick(s)] \in Int /\ s \ {Pick(s)} \in SUBSET S
        /\ Cardinality(s \ {Pick(s)}) = Cardinality(s) - 1
  BY <1>1, PickOf
<1>3. Good(0)
  <2>1. \A s \in Level(0) : s = {}
    BY <1>1, FS_EmptySet
  <2> DEFINE h == [s \in Level(0) |-> 0]
  <2>2. h \in [Level(0) -> Int] /\ Sol(h, 0)
    BY <2>1
  <2> QED
    BY <2>2
<1>4. ASSUME NEW n \in Nat, n # 0, Good(n - 1)
      PROVE  Good(n)
  <2>1. PICK g \in [Level(n - 1) -> Int] : Sol(g, n - 1)
    BY <1>4
  <2> DEFINE h == [s \in Level(n) |-> IF s = {} THEN 0 ELSE f[Pick(s)] + g[s \ {Pick(s)}]]
  <2>2. \A s \in Level(n) : s # {} => s \ {Pick(s)} \in Level(n - 1)
    BY <1>1, <1>2
  <2>3. h \in [Level(n) -> Int]
    BY <2>2, <1>2
  <2>4. \A s \in Level(n - 1) : s \in Level(n) /\ h[s] = g[s]
    BY <2>1, <1>1
  <2>5. Sol(h, n)
    BY <2>2, <2>4
  <2> QED
    BY <2>3, <2>5
<1> HIDE DEF Good
<1>5. Good(Cardinality(S))
  <2> DEFINE bad == {n \in Nat : ~Good(n)}
  <2>1. SUFFICES ASSUME bad # {} PROVE FALSE
    BY <1>1
  <2>2. PICK n \in bad : \A m \in bad : n <= m
    BY <2>1, LeastNatural
  <2>3. n # 0 /\ n - 1 \in Nat /\ Good(n - 1)
    BY <1>3, <2>2
  <2> QED
    BY <1>4, <2>2, <2>3
<1>6. Level(Cardinality(S)) = SUBSET S
  BY <1>1
<1>7. PICK h \in [SUBSET S -> Int] : \A s \in SUBSET S :
        h[s] = IF s = {} THEN 0 ELSE f[Pick(s)] + h[s \ {Pick(s)}]
  BY <1>5, <1>6 DEF Good
<1>8. h = [s \in SUBSET S |-> IF s = {} THEN 0 ELSE f[Pick(s)] + h[s \ {Pick(s)}]]
  BY <1>7
<1> DEFINE g == Iter(f, S)
<1>9. g = [s \in SUBSET S |-> IF s = {} THEN 0 ELSE f[Pick(s)] + g[s \ {Pick(s)}]]
  BY <1>8 DEF Iter
<1> HIDE DEF g
<1>10. \A s \in SUBSET S : g[s] = IF s = {} THEN 0 ELSE f[Pick(s)] + g[s \ {Pick(s)}]
  BY <1>9
<1>13. /\ g[{}] = 0
       /\ \A s \in SUBSET S : s # {} /\ g[s \ {Pick(s)}] \in Int => g[s] \in Int
  <2>1. {} \in SUBSET S
    OBVIOUS
  <2>2. g[{}] = 0
    BY <1>10, <2>1
  <2>3. ASSUME NEW s \in SUBSET S, s # {}, g[s \ {Pick(s)}] \in Int PROVE g[s] \in Int
    <3>1. g[s] = f[Pick(s)] + g[s \ {Pick(s)}]
      BY <1>10, <2>3
    <3>2. f[Pick(s)] \in Int
      BY <1>2, <2>3
    <3>3. \A a, b \in Int : a + b \in Int
      OBVIOUS
    <3> QED
      BY <2>3, <3>1, <3>2, <3>3, Zenon
  <2> QED
    BY <2>2, <2>3
<1>11. \A s \in SUBSET S : g[s] \in Int
  <2> DEFINE bad == {s \in SUBSET S : g[s] \notin Int}
  <2>1. SUFFICES ASSUME bad # {} PROVE FALSE
    OBVIOUS
  <2>2. PICK s \in bad : IsFiniteSet(s) /\ \A x \in s : s \ {x} \notin bad
    BY <2>1, SmallestSet
  <2>3. s \in SUBSET S /\ g[s] \notin Int
    OBVIOUS
  <2>4. s # {}
    BY <1>13, <2>3
  <2>5. Pick(s) \in s /\ g[s \ {Pick(s)}] \in Int
    BY <2>2, <2>3, <2>4, PickOf
  <2> QED
    BY <1>13, <2>3, <2>4, <2>5
<1>12. g \in [SUBSET S -> Int]
  BY <1>9, <1>11
<1> QED
  BY <1>10, <1>12 DEF g

\* A sum over the empty set, and over any other by the element that is chosen of it
LEMMA SumByPick ==
  ASSUME NEW S, IsFiniteSet(S), NEW f, \A x \in S : f[x] \in Int
  PROVE  /\ SumFunctionOnSet(f, S) \in Int
         /\ S = {} => SumFunctionOnSet(f, S) = 0
         /\ S # {} => SumFunctionOnSet(f, S) = f[Pick(S)] + SumFunctionOnSet(f, S \ {Pick(S)})
<1> DEFINE g == Iter(f, S)
<1>1. g \in [SUBSET S -> Int]
  BY IterSolves
<1>2. \A s \in SUBSET S : g[s] = IF s = {} THEN 0 ELSE f[Pick(s)] + g[s \ {Pick(s)}]
  BY IterSolves
<1>3. g[S] \in Int /\ g[S] = SumFunctionOnSet(f, S)
  BY <1>1, SumIsIter
<1>4. ASSUME S # {} PROVE g[S \ {Pick(S)}] = SumFunctionOnSet(f, S \ {Pick(S)})
  <2> DEFINE R == S \ {Pick(S)}
             h == Iter(f, R)
  <2>1. IsFiniteSet(R) /\ R \subseteq S
    BY FS_Subset
  <2>2. h \in [SUBSET R -> Int]
    BY <2>1, IterSolves
  <2>3. \A s \in SUBSET R : h[s] = IF s = {} THEN 0 ELSE f[Pick(s)] + h[s \ {Pick(s)}]
    BY <2>1, IterSolves
  <2> HIDE DEF g, h, R
  <2>4. \A s \in SUBSET R : g[s] = h[s]
    <3> DEFINE bad == {s \in SUBSET R : g[s] # h[s]}
    <3>1. SUFFICES ASSUME bad # {} PROVE FALSE
      OBVIOUS
    <3>2. PICK s \in bad : IsFiniteSet(s) /\ \A x \in s : s \ {x} \notin bad
      BY <2>1, <3>1, SmallestSet
    <3>3. s \in SUBSET R /\ s \in SUBSET S /\ g[s] # h[s]
      BY <2>1
    <3>4. s # {}
      BY <1>2, <2>3, <3>3
    <3>5. Pick(s) \in s /\ g[s \ {Pick(s)}] = h[s \ {Pick(s)}]
      BY <3>2, <3>3, <3>4, PickOf
    <3> QED
      BY <1>2, <2>3, <3>3, <3>4, <3>5
  <2>5. g[R] = h[R]
    BY <2>4
  <2> QED
    BY <2>5, SumIsIter DEF h, R
<1> HIDE DEF g
<1> QED
  BY <1>2, <1>3, <1>4

\* A sum is of integers
LEMMA SumType ==
  ASSUME NEW S, IsFiniteSet(S), NEW f, \A x \in S : f[x] \in Int
  PROVE  SumFunctionOnSet(f, S) \in Int
  BY SumByPick

\* Any element can be taken out of a sum first
LEMMA SumWithout ==
  ASSUME NEW S, IsFiniteSet(S), NEW f, \A x \in S : f[x] \in Int, NEW x \in S
  PROVE  SumFunctionOnSet(f, S) = f[x] + SumFunctionOnSet(f, S \ {x})
<1> DEFINE Total(s)    == SumFunctionOnSet(f, s)
           bad         == {s \in SUBSET S : \E y \in s : Total(s) # f[y] + Total(s \ {y})}
<1>1. SUFFICES ASSUME bad # {} PROVE FALSE
  OBVIOUS
<1>2. PICK s \in bad : IsFiniteSet(s) /\ \A y \in s : s \ {y} \notin bad
  BY <1>1, SmallestSet
<1>3. s \in SUBSET S
  OBVIOUS
<1>4. PICK y \in s : Total(s) # f[y] + Total(s \ {y})
  OBVIOUS
<1>5. \A u \in SUBSET S : IsFiniteSet(u) /\ Total(u) \in Int
  BY FS_Subset, SumType
<1> DEFINE d == Pick(s)
<1>6. /\ d \in s /\ f[d] \in Int /\ f[y] \in Int
      /\ Total(s) = f[d] + Total(s \ {d})
  BY <1>2, <1>3, <1>4, PickOf, SumByPick
<1> HIDE DEF d, Total
<1>7. d # y
  BY <1>4, <1>6
<1>8. Total(s \ {d}) = f[y] + Total((s \ {d}) \ {y})
  BY <1>2, <1>3, <1>6, <1>7
<1>9. Total(s \ {y}) = f[d] + Total((s \ {y}) \ {d})
  BY <1>2, <1>3, <1>6, <1>7
<1>10. (s \ {y}) \ {d} = (s \ {d}) \ {y}
  OBVIOUS
<1>11. Total((s \ {d}) \ {y}) \in Int
  BY <1>3, <1>5
<1>12. \A a, b, r \in Int : b + (a + r) = a + (b + r)
  OBVIOUS
<1>13. f[d] + (f[y] + Total((s \ {d}) \ {y})) = f[y] + (f[d] + Total((s \ {d}) \ {y}))
  BY <1>6, <1>11, <1>12, Zenon
<1> QED
  BY <1>4, <1>6, <1>8, <1>9, <1>10, <1>13, Zenon

\* One element is added
LEMMA SumWith ==
  ASSUME NEW S, IsFiniteSet(S), NEW f, NEW x, x \notin S,
         \A y \in S \cup {x} : f[y] \in Int
  PROVE  SumFunctionOnSet(f, S \cup {x}) = SumFunctionOnSet(f, S) + f[x]
<1> DEFINE R == S \cup {x}
<1>1. IsFiniteSet(R) /\ x \in R /\ R \ {x} = S
  BY FS_AddElement
<1>2. SumFunctionOnSet(f, R) = f[x] + SumFunctionOnSet(f, S)
  <2>1. \A y \in R : f[y] \in Int
    OBVIOUS
  <2> HIDE DEF R
  <2> QED
    BY <1>1, <2>1, SumWithout
<1>3. f[x] \in Int /\ SumFunctionOnSet(f, S) \in Int
  BY SumType
<1> QED
  BY <1>2, <1>3

-----------------------------------------------------------------------------
(* What a wallet holds *)

\* The orders of a wallet whose tokens were credited
Bought(w) == {o \in credited : OrderWallet[o] = w}
Balances == \A w \in Wallets : balance[w] = SumFunctionOnSet(TokenUnits, Bought(w))

LEMMA BalancesStep ==
  ASSUME PayInv, Balances, [Next]_vars
  PROVE  Balances'
<1>1. CASE UNCHANGED <<balance, credited>>
  BY <1>1 DEF Balances, Bought
<1>2. CASE \E h \in Handlers : Commit(h)
  <2>1. PICK h \in Handlers : Commit(h)
    BY <1>2
  <2>2. PICK o \in Orders :
          /\ credited' = IF verdict[h] = "paid" THEN credited \cup {o} ELSE credited
          /\ balance' = IF verdict[h] = "paid"
                        THEN [balance EXCEPT ![OrderWallet[o]] = @ + TokenUnits[o]]
                        ELSE balance
          /\ verdict[h] = "paid" => o \notin credited
    BY <2>1, CommitStep, CommitFacts
  <2>3. PICK u \in Wallets : u = OrderWallet[o]
    BY PaymentConstants
  <2>4. credited \subseteq Orders /\ balance \in [Wallets -> Nat]
    BY DEF PayInv, TypeOK
  <2>5. CASE verdict[h] # "paid"
    BY <1>1, <2>2, <2>5
  <2>6. CASE verdict[h] = "paid"
    <3>1. o \notin Bought(u) /\ Bought(u)' = Bought(u) \cup {o}
      BY <2>2, <2>3, <2>6 DEF Bought
    <3>2. \A w \in Wallets : w # u => Bought(w)' = Bought(w)
      BY <2>2, <2>3, <2>6 DEF Bought
    <3>3. IsFiniteSet(Bought(u)) /\ \A p \in Bought(u) \cup {o} : TokenUnits[p] \in Int
      BY <2>3, <2>4, OrdersFinite, FS_Subset, PaymentConstants DEF Bought
    <3>4. SumFunctionOnSet(TokenUnits, Bought(u)') = balance[u] + TokenUnits[o]
      <4>1. SumFunctionOnSet(TokenUnits, Bought(u) \cup {o})
              = SumFunctionOnSet(TokenUnits, Bought(u)) + TokenUnits[o]
        BY <3>1, <3>3, SumWith
      <4> QED
        BY <3>1, <4>1 DEF Balances
    <3>5. /\ balance'[u] = balance[u] + TokenUnits[o]
          /\ \A w \in Wallets : w # u => balance'[w] = balance[w]
      BY <2>2, <2>3, <2>4, <2>6
    <3>6. ASSUME NEW w \in Wallets PROVE balance'[w] = SumFunctionOnSet(TokenUnits, Bought(w)')
      BY <3>2, <3>4, <3>5 DEF Balances
    <3> QED
      BY <3>6 DEF Balances
  <2> QED
    BY <2>5, <2>6
<1> QED
  BY <1>1, <1>2
     DEF Next, vars, db, BeginCheckout, CreateInvoice, CommitCheckout, FailCheckout, Pay, Decline,
         Settle, Expire, Move, Accept, Refuse, LockOrder, Lookup, Answer, Fail

\* An order is paid exactly when its top-up is in the ledger, and a wallet holds
\* what its paid orders bought, once each: _apply_payment_event and credit_topup,
\* whatever events are repeated, reordered, handled at once or rolled back.
THEOREM PaidExactlyWhenCredited == Spec => []PaidIffCredited
<1>1. Init => Balances
  <2> SUFFICES ASSUME Init PROVE Balances
    OBVIOUS
  <2>1. \A w \in Wallets : Bought(w) = {} /\ balance[w] = 0
    BY DEF Init, Bought
  <2>2. SumFunctionOnSet(TokenUnits, {}) = 0
    BY SumByPick, FS_EmptySet
  <2> QED
    BY <2>1, <2>2 DEF Balances
<1>2. PayInv /\ Balances /\ [Next]_vars => Balances'
  BY BalancesStep
<1>3. PayInv /\ Balances => PaidIffCredited
  BY DEF PayInv, PaidAreCredited, Balances, Bought, PaidIffCredited
<1> QED
  BY <1>1, <1>2, <1>3, InvHolds, PTL DEF Spec, Safety

=============================================================================
