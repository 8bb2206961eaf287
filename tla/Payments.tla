------------------------------ MODULE Payments ------------------------------
(***************************************************************************)
(* Top-up orders: PaymentService (modules/billing/payments.py), called by  *)
(* POST /billing/topup and by POST /webhooks/xendit, and the invoices of   *)
(* the payment vendor as far as the code relies on them (external).        *)
(*                                                                         *)
(* Each request is one SQL transaction, committed by the router at its     *)
(* end, so an error raised on the way undoes all of it, the inbox row      *)
(* included.  A webhook transaction h goes through the steps               *)
(*                                                                         *)
(*   idle --Accept--> order --LockOrder--> lookup --Lookup--> commit       *)
(*        --Commit--> answer --Answer--> idle                              *)
(*                                                                         *)
(* with shortcuts for events that need no lookup or no processing.  It     *)
(* holds its inbox key from Accept to Commit and the order row from        *)
(* LockOrder to Commit.  The vendor repeats an event until it is answered, *)
(* and may repeat it later too, in any order.                              *)
(***************************************************************************)
EXTENDS Integers, FiniteSets, Functions

CONSTANTS
  Orders,        \* merchant references: a user and an Idempotency-Key
  Wallets,
  OrderWallet,   \* the wallet of an order's user
  TokenUnits,    \* the tokens of an order's package
  Invoices,      \* vendor invoice ids
  Mismatched,    \* invoices whose events carry another amount or currency
  Handlers,      \* concurrent webhook requests
  Port,          \* what lookup_payment returns for a vendor status
  MaxFaults      \* bound on timeouts, crashes and lost answers

VendorStatus == {"PENDING", "PAID", "SETTLED", "EXPIRED", "FAILED"}
None == "none"

ASSUME PaymentConstants ==
  /\ None \notin Orders \cup Invoices
  /\ OrderWallet \in [Orders -> Wallets]
  /\ TokenUnits \in [Orders -> Nat \ {0}]
  /\ Mismatched \subseteq Invoices
  /\ DOMAIN Port = VendorStatus
  /\ MaxFaults \in Nat

\* What has a row is finite in number
ASSUME OrdersFinite == IsFiniteSet(Orders)

\* A vendor adapter that keeps the words of XenditCheckoutPort, and the one
\* that is wired in: it returns the vendor's status in upper case
ContractPort == [s \in VendorStatus |->
                   IF s \in {"PAID", "SETTLED"} THEN "paid" ELSE "unpaid"]
XenditPort   == [s \in VendorStatus |-> s]

VARIABLES
  order,     \* payment_orders: state and provider_payment_id
  inbox,     \* webhook_inbox: event keys (invoice ids) that are processed
  credited,  \* orders whose top-up journal is posted
  balance,   \* wallets
  checkout,  \* the request that is creating an order: its step and invoice
  pc, event, verdict, \* what each webhook request is doing
  invoice,   \* external: the invoices at the vendor
  sent, acked, \* external: events sent, and answered with 200
  faults     \* number of faults so far

db       == <<order, inbox, credited, balance>>
requests == <<pc, event, verdict>>
vendor   == <<invoice, sent, acked>>
vars     == <<db, checkout, requests, vendor, faults>>

Events     == [invoice : Invoices, status : VendorStatus]
NoEvent    == [invoice |-> None, status |-> None]
NoOrder    == [state |-> None, invoice |-> None]
NoInvoice  == [order |-> None, status |-> None]
NoCheckout == [step |-> "idle", invoice |-> None]

\* _map_xendit_status; mutant: PAID is not known
ReportedSettled(s) == IF s = "SETTLED" THEN "paid"
                      ELSE IF s = "EXPIRED" THEN "expired"
                      ELSE IF s = "FAILED" THEN "failed" ELSE "unknown"
Reported(s) == IF s \in {"PAID", "SETTLED"} THEN "paid"
               ELSE IF s = "EXPIRED" THEN "expired"
               ELSE IF s = "FAILED" THEN "failed" ELSE "unknown"

\* The event names the merchant reference (external_id) and its key is the
\* invoice id, whatever the status it reports
OrderOf(e) == invoice[e.invoice].order
KeyOf(e)   == e.invoice

Init ==
  /\ order = [o \in Orders |-> NoOrder]
  /\ inbox = {}
  /\ credited = {}
  /\ balance = [w \in Wallets |-> 0]
  /\ checkout = [o \in Orders |-> NoCheckout]
  /\ pc = [h \in Handlers |-> "idle"]
  /\ event = [h \in Handlers |-> NoEvent]
  /\ verdict = [h \in Handlers |-> None]
  /\ invoice = [i \in Invoices |-> NoInvoice]
  /\ sent = {}
  /\ acked = {}
  /\ faults = 0

-----------------------------------------------------------------------------
(* POST /billing/topup.  An order that exists is returned as it is.  UNIQUE *)
(* merchant_reference leaves one request per order between its insert and   *)
(* its end; the others wait for it, or fail.                                *)

\* The order is inserted, not committed, and the vendor is called
BeginCheckout(o) ==
  /\ order[o].state = None
  /\ checkout[o].step = "idle"
  /\ checkout' = [checkout EXCEPT ![o].step = "calling"]
  /\ UNCHANGED <<db, requests, vendor, faults>>

\* external: the vendor creates an invoice for every call it gets
CreateInvoice(o, i) ==
  /\ checkout[o].step = "calling"
  /\ invoice[i].status = None
  /\ invoice' = [invoice EXCEPT ![i] = [order |-> o, status |-> "PENDING"]]
  /\ checkout' = [checkout EXCEPT ![o] = [step |-> "called", invoice |-> i]]
  /\ UNCHANGED <<db, requests, sent, acked, faults>>

\* The answer arrived: the order becomes pending and the router commits
CommitCheckout(o) ==
  /\ checkout[o].step = "called"
  /\ order' = [order EXCEPT ![o] = [state |-> "pending", invoice |-> checkout[o].invoice]]
  /\ checkout' = [checkout EXCEPT ![o] = NoCheckout]
  /\ UNCHANGED <<inbox, credited, balance, requests, vendor, faults>>

\* The call timed out (XENDIT_OUTCOME_UNKNOWN), or the process died before
\* its commit: the order row is rolled back, the invoice remains
FailCheckout(o) ==
  /\ checkout[o].step # "idle"
  /\ faults < MaxFaults
  /\ checkout' = [checkout EXCEPT ![o] = NoCheckout]
  /\ faults' = faults + 1
  /\ UNCHANGED <<db, requests, vendor>>

-----------------------------------------------------------------------------
(* The vendor (external): the customer pays the invoice whose address the   *)
(* committed order gave out, also after a payment that failed or after the  *)
(* vendor has reported it expired.                                          *)

Move(i, from, to) ==
  /\ invoice[i].status \in from
  /\ invoice' = [invoice EXCEPT ![i].status = to]
  /\ sent' = sent \cup {[invoice |-> i, status |-> to]}
  /\ UNCHANGED <<db, checkout, requests, acked, faults>>

Disclosed(i) == invoice[i].order # None /\ order[invoice[i].order].invoice = i

Pay(i)     == Disclosed(i) /\ Move(i, {"PENDING", "EXPIRED", "FAILED"}, "PAID")
Decline(i) == Disclosed(i) /\ Move(i, {"PENDING"}, "FAILED")
Settle(i)  == Move(i, {"PAID"}, "SETTLED")
Expire(i)  == Move(i, {"PENDING"}, "EXPIRED")

-----------------------------------------------------------------------------
(* POST /webhooks/xendit *)

HoldsKey(h, k)   == pc[h] \in {"order", "lookup", "commit"} /\ KeyOf(event[h]) = k

\* Mutant: the order is read without FOR UPDATE
HoldsNothing(h, o) == FALSE
HoldsOrder(h, o) == pc[h] \in {"lookup", "commit"} /\ OrderOf(event[h]) = o

Step(h, next) == pc' = [pc EXCEPT ![h] = next]

\* Mutant: the inbox row is committed on acceptance
AcceptCommits(h, e) ==
  /\ pc[h] = "idle"
  /\ e \in sent
  /\ event' = [event EXCEPT ![h] = e]
  /\ Step(h, IF KeyOf(e) \in inbox THEN "answer" ELSE "order")
  /\ inbox' = inbox \cup {KeyOf(e)}
  /\ UNCHANGED <<order, credited, balance, checkout, verdict, vendor, faults>>

\* accept_webhook: an event whose key is processed is answered at once; the
\* insert of a key waits for the transaction that has inserted it
Accept(h, e) ==
  /\ pc[h] = "idle"
  /\ e \in sent
  /\ \A g \in Handlers : ~HoldsKey(g, KeyOf(e))
  /\ event' = [event EXCEPT ![h] = e]
  /\ Step(h, IF KeyOf(e) \in inbox THEN "answer" ELSE "order")
  /\ UNCHANGED <<db, checkout, verdict, vendor, faults>>

\* NotFoundError and ValidationError of _apply_payment_event; mutant: the
\* amount and the currency are not compared
RefusableUnchecked(e) ==
  LET s == order[OrderOf(e)].state
  IN s = None \/ (s # "paid" /\ Reported(e.status) = "unknown")
Refusable(e) ==
  LET s == order[OrderOf(e)].state
  IN \/ s = None
     \/ e.invoice \in Mismatched
     \/ s # "paid" /\ Reported(e.status) = "unknown"

Idle(h) ==
  /\ Step(h, "idle")
  /\ event' = [event EXCEPT ![h] = NoEvent]
  /\ verdict' = [verdict EXCEPT ![h] = None]

\* The inbox row is marked failed, and rolled back with the rest
Refuse(h) ==
  /\ pc[h] = "order"
  /\ Refusable(event[h])
  /\ Idle(h)
  /\ UNCHANGED <<db, checkout, vendor, faults>>

\* What the event makes of its order: nothing if it is paid; mutant: also then
VerdictAlways(e) == Reported(e.status)
Verdict(e) == IF order[OrderOf(e)].state = "paid" THEN None ELSE Reported(e.status)

\* The order row is locked and read; a paid event is looked up first
LockOrder(h) ==
  LET e == event[h]
  IN /\ pc[h] = "order"
     /\ \A g \in Handlers : ~HoldsOrder(g, OrderOf(e))
     /\ ~Refusable(e)
     /\ verdict' = [verdict EXCEPT ![h] = Verdict(e)]
     /\ Step(h, IF Verdict(e) = "paid" THEN "lookup" ELSE "commit")
     /\ UNCHANGED <<db, checkout, event, vendor, faults>>

\* What the vendor says of the invoice the order names
Authoritative(o) == Port[invoice[order[o].invoice].status]

Lookup(h) ==
  /\ pc[h] = "lookup"
  /\ IF Authoritative(OrderOf(event[h])) = "paid"
     THEN Step(h, "commit") /\ UNCHANGED <<event, verdict>>
     ELSE Idle(h)                        \* PAYMENT_NOT_CONFIRMED
  /\ UNCHANGED <<db, checkout, vendor, faults>>

\* credit_topup: nothing if the order's journal exists; mutant: no journal
CreditUnrecorded(o) ==
  /\ UNCHANGED credited
  /\ balance' = [balance EXCEPT ![OrderWallet[o]] = @ + TokenUnits[o]]

Credit(o) ==
  IF o \in credited THEN UNCHANGED <<credited, balance>>
  ELSE /\ credited' = credited \cup {o}
       /\ balance' = [balance EXCEPT ![OrderWallet[o]] = @ + TokenUnits[o]]

Commit(h) ==
  LET o == OrderOf(event[h])
  IN /\ pc[h] = "commit"
     /\ inbox' = inbox \cup {KeyOf(event[h])}
     /\ IF verdict[h] = None THEN UNCHANGED order
        ELSE order' = [order EXCEPT ![o].state = verdict[h]]
     /\ IF verdict[h] = "paid" THEN Credit(o) ELSE UNCHANGED <<credited, balance>>
     /\ Step(h, "answer")
     /\ UNCHANGED <<checkout, event, verdict, vendor, faults>>

Answer(h) ==
  /\ pc[h] = "answer"
  /\ acked' = acked \cup {event[h]}
  /\ Idle(h)
  /\ UNCHANGED <<db, checkout, invoice, sent, faults>>

\* The lookup failed, a concurrent insert of the key committed, the process
\* died, or the answer was lost: what is not committed is undone
Fail(h) ==
  /\ pc[h] # "idle"
  /\ faults < MaxFaults
  /\ faults' = faults + 1
  /\ Idle(h)
  /\ UNCHANGED <<db, checkout, vendor>>

Next ==
  \/ \E o \in Orders : \/ BeginCheckout(o)
                       \/ \E i \in Invoices : CreateInvoice(o, i)
                       \/ CommitCheckout(o)
                       \/ FailCheckout(o)
  \/ \E i \in Invoices : Pay(i) \/ Decline(i) \/ Settle(i) \/ Expire(i)
  \/ \E h \in Handlers : \/ \E e \in Events : Accept(h, e)
                         \/ Refuse(h) \/ LockOrder(h) \/ Lookup(h)
                         \/ Commit(h) \/ Answer(h) \/ Fail(h)

Safety == Init /\ [][Next]_vars

\* A request that has started goes on, and the vendor goes on repeating events
\* of payments while there are some that were not answered with 200.
Fairness ==
  /\ \A h \in Handlers :
       WF_vars(Refuse(h) \/ LockOrder(h) \/ Lookup(h) \/ Commit(h) \/ Answer(h))
  /\ SF_vars(\E e \in Events \ acked :
               Reported(e.status) = "paid" /\ \E h \in Handlers : Accept(h, e))

Spec == Safety /\ Fairness

-----------------------------------------------------------------------------
(* Correctness *)

\* The rows of payment_orders
OrderRows == [state : {None, "pending", "paid", "failed", "expired"},
              invoice : Invoices \cup {None}]

TypeOK ==
  /\ order \in [Orders -> OrderRows]
  /\ inbox \subseteq Invoices
  /\ credited \subseteq Orders
  /\ balance \in [Wallets -> Nat]
  /\ checkout \in [Orders -> [step : {"idle", "calling", "called"},
                              invoice : Invoices \cup {None}]]
  /\ pc \in [Handlers -> {"idle", "order", "lookup", "commit", "answer"}]
  /\ event \in [Handlers -> Events \cup {NoEvent}]
  /\ verdict \in [Handlers -> {None, "paid", "failed", "expired"}]
  /\ invoice \in [Invoices -> [order : Orders \cup {None},
                               status : VendorStatus \cup {None}]]
  /\ sent \subseteq Events
  /\ acked \subseteq sent
  /\ faults \in 0 .. MaxFaults

\* An order is paid exactly when its tokens were credited, and a wallet holds
\* what its paid orders bought, once each, whatever events are repeated.
PaidIffCredited ==
  /\ credited = {o \in Orders : order[o].state = "paid"}
  /\ \A w \in Wallets :
       balance[w] = SumFunctionOnSet(TokenUnits, {o \in credited : OrderWallet[o] = w})

\* No tokens for an invoice the vendor does not hold as paid, or of another
\* amount: neither a false, a premature nor a mismatched event credits.
CreditedIsPaid ==
  \A o \in credited :
    /\ order[o].invoice \notin Mismatched
    /\ invoice[order[o].invoice] \in [order : {o}, status : {"PAID", "SETTLED"}]

\* The vendor has reported no expiry and no failure of the invoice
OnTime(i) == \A s \in {"EXPIRED", "FAILED"} : [invoice |-> i, status |-> s] \notin sent

\* An event that reports a payment and was answered with 200, and so is not
\* repeated, has credited its order, if the invoice's first end is its payment:
\* what an error undid, or another request has under way, is not acknowledged
\* (webhooks.py: the router answers after its commit).
AckedOnTimeIsCredited ==
  \A e \in acked :
    Reported(e.status) = "paid" /\ OnTime(e.invoice) => OrderOf(e) \in credited

\* billing-plans.md:44 says that a late success is checked against the vendor
\* and handled exactly once, and so of every payment that is acknowledged.
AckedPaidIsCredited ==
  \A e \in acked : Reported(e.status) = "paid" => OrderOf(e) \in credited

\* A paid order stays paid, with its invoice, whatever arrives late
\* (payments.py: an out-of-order event never downgrades paid).
PaidIsFinal ==
  [][\A o \in Orders : order[o].state = "paid" => order'[o] = order[o]]_order

\* A payment of the amount of the order, of an invoice that has neither
\* expired nor failed before, is credited in the end.
PaymentIsCredited ==
  \A i \in Invoices \ Mismatched : \A o \in Orders :
    (invoice[i] = [order |-> o, status |-> "PAID"] /\ OnTime(i)) ~> (o \in credited)

\* The webhooks credit orders the way the wallet's contract says: once.
Accounts == INSTANCE TokenAccounts WITH
  Operations <- {}, OperationWallet <- <<>>, Units <- {}, grant <- <<>>

CreditsRefineAccounts == Accounts!Init /\ [][Accounts!Next]_(Accounts!vars)

=============================================================================
